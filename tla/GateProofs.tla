------------------------------ MODULE GateProofs ------------------------------
(***************************************************************************)
(* Proofs about the boundary gates.  Gates 3f and 1 read a work tree: for   *)
(* every tree, every list of claims and any number of things the user does *)
(* while they run.  Gates 0a and 0e read the links of a file system: for   *)
(* every file system and every order of the edits made to it.  The last    *)
(* part is about .gitattributes: what gate 1 reads in them, git does.      *)
(***************************************************************************)
EXTENDS Gate3f, Gate1, Links, RecursionFacts, SequenceTheorems, FiniteSetTheorems

-----------------------------------------------------------------------------
(* Paths.                                                                  *)
(* The directory of a path is the root, or one of those above it.          *)
LEMMA DirectoryIs ==
  ASSUME NEW S, NEW p \in Seq(S)
  PROVE  directory(p) = <<>> \/ \E j \in 1 .. Len(p) : p[j] = "/" /\ directory(p) = SubSeq(p, 1, j - 1)
<1> DEFINE T == {0} \cup {i \in DOMAIN p : p[i] = "/"}
<1>1. Len(p) \in Nat /\ T \subseteq 0 .. Len(p) /\ T # {} /\ LastOf(p, "/") = Max(T)
  BY DEF LastOf
<1>2. Max(T) \in T
  <2> HIDE DEF T
  <2> QED
    BY <1>1, GreatestNatural
<1>3. CASE Max(T) = 0
  <2>1. directory(p) = SubSeq(p, 1, 0 - 1)
    BY <1>1, <1>3 DEF directory
  <2> QED
    BY <2>1
<1>4. CASE Max(T) # 0
  <2>1. PICK j : j = Max(T)
    OBVIOUS
  <2>2. j \in 1 .. Len(p) /\ p[j] = "/"
    BY <1>2, <1>4, <2>1
  <2>3. directory(p) = SubSeq(p, 1, j - 1)
    BY <1>1, <2>1 DEF directory
  <2> QED
    BY <2>2, <2>3
<1> QED
  BY <1>3, <1>4

(* A path whose directories are directories of this repository is walked.  *)
LEMMA WalkEnters ==
  ASSUME NEW path \in PathSet, Standing(path), ~ Elsewhere(path)
  PROVE  directory(path) \in Entered
<1> DEFINE every == {<<>>} \cup {RealPath(p) : p \in {q \in PathSet : IsDirectory(q)}}
<1>0. path \in Seq(Range(path)) /\ Len(path) \in Nat /\ Parents(path) \subseteq PathSet
  BY TreeAssumption
<1>1. ASSUME NEW d \in Parents(path)
      PROVE  /\ d \in PathSet /\ IsDirectory(d) /\ RealPath(d) = d
             /\ ~ stops_the_walk(classify(tree[d].marks))
  BY <1>0, <1>1 DEF Standing, Elsewhere, IsDirectory, RealPath
<1>2. \A j \in 1 .. Len(path) : path[j] = "/" => SubSeq(path, 1, j - 1) \in Parents(path)
  BY <1>0 DEF Parents
<1>3. directory(path) \in {<<>>} \cup Parents(path)
  BY <1>0, <1>2, DirectoryIs
<1>4. {<<>>} \cup Parents(path) \subseteq every
  BY <1>1
<1>5. ASSUME NEW dirs \in SUBSET every, <<>> \in dirs, Descended(dirs) \subseteq dirs
      PROVE  directory(path) \in dirs
  <2> DEFINE T == {n \in 0 .. Len(path) :
                     \A i \in 1 .. n : path[i] = "/" => SubSeq(path, 1, i - 1) \in dirs}
  <2>1. 0 \in T
    BY <1>0
  <2>2. ASSUME NEW n \in 0 .. Len(path) - 1, n \in T
        PROVE  n + 1 \in T
    <3> SUFFICES ASSUME path[n + 1] = "/" PROVE SubSeq(path, 1, n) \in dirs
      BY <1>0, <2>2
    <3>1. PICK q : q = SubSeq(path, 1, n)
      OBVIOUS
    <3>2. q \in Seq(Range(path)) /\ Len(q) = n /\ n + 1 \in 1 .. Len(path) /\ (n + 1) - 1 = n
          /\ \A i \in 1 .. n : q[i] = path[i]
      BY <1>0, <3>1
    <3>3. q \in Parents(path)
      BY <1>2, <3>1, <3>2
    <3>4. directory(q) \in dirs
      <4>1. CASE directory(q) = <<>>
        BY <1>5, <4>1
      <4>2. ASSUME NEW j \in 1 .. Len(q), q[j] = "/", directory(q) = SubSeq(q, 1, j - 1)
            PROVE  directory(q) \in dirs
        <5>1. SubSeq(q, 1, j - 1) = SubSeq(path, 1, j - 1)
          BY <1>0, <3>1, <3>2
        <5>2. path[j] = "/" /\ j \in 1 .. n
          BY <3>2, <4>2
        <5> QED
          BY <2>2, <4>2, <5>1, <5>2
      <4> QED
        BY <3>2, <4>1, <4>2, DirectoryIs
    <3>5. q \in Descended(dirs)
      BY <1>1, <3>3, <3>4 DEF Descended
    <3> QED
      BY <1>5, <3>1, <3>5
  <2>3. \A n \in 0 .. Len(path) : n \in T
    <3>1. \A n \in 0 .. Len(path) - 1 : n \in T => n + 1 \in T
      BY <2>2
    <3> HIDE DEF T
    <3> QED
      BY <1>0, <2>1, <3>1, Upwards
  <2>4. Len(path) \in T
    BY <1>0, <2>3
  <2>5. \A i \in 1 .. Len(path) : path[i] = "/" => SubSeq(path, 1, i - 1) \in dirs
    BY <2>4
  <2> QED
    BY <1>0, <1>5, <2>5, DirectoryIs
<1> QED
  BY <1>3, <1>4, <1>5, Zenon DEF Entered

-----------------------------------------------------------------------------
(* Gate 3f.                                                                *)
AllClaims == UNION {Range(claims) : claims \in Claims3f}

(* A line of the file imports the framework.                               *)
Imports(path, f) ==
  \E n \in DOMAIN tree[path].lines :
    LET line == lower(tree[path].lines[n])
    IN  is_import_line(line) /\ contains_component(line, f)

Ours3f(path) == path \in PathSet /\ Reads(path) /\ ~ Elsewhere(path)

(***************************************************************************)
(* The inductive invariant: whatever imports a framework is to be scanned, *)
(* or the framework is known; nothing is judged before all is scanned; and *)
(* a file no one touched would be judged again as it was.                  *)
(***************************************************************************)
Shape3f ==
  /\ DOMAIN tree = PathSet
  /\ gate3f = [pc |-> gate3f.pc, queue |-> gate3f.queue, frameworks |-> gate3f.frameworks,
               left |-> gate3f.left, claimed |-> gate3f.claimed, refused |-> gate3f.refused,
               survived |-> gate3f.survived, unattributed |-> gate3f.unattributed]
  /\ gate3f.queue \in Seq(PathSet) /\ gate3f.left \in Seq(AllClaims)
  /\ gate3f.survived \in Seq(AllClaims)
  /\ gate3f.refused \in Seq([claim : AllClaims, conditions : SUBSET Range(Condition)])
  /\ gate3f.pc = "run" => gate3f.queue = <<>> /\ gate3f.survived = <<>> /\ gate3f.refused = <<>>

Accounted ==
  gate3f.claimed = Len(gate3f.left) + Len(gate3f.refused) + Len(gate3f.survived)

Scanned ==
  gate3f.pc = "scan" =>
    \A path \in PathSet, f \in JOB_FRAMEWORKS :
      Ours3f(path) /\ Untouched(path) /\ Imports(path, f) =>
        path \in Range(gate3f.queue) \/ f \in gate3f.frameworks

JudgedLast ==
  gate3f.survived # <<>> \/ gate3f.refused # <<>> =>
    gate3f.queue = <<>> /\ gate3f.pc = "scan"

SurvivedStill ==
  \A claim \in Range(gate3f.survived) : \A path \in claim.file :
    Untouched(path) => findings(path, claim.name) = {}

RefusedStill ==
  \A r \in Range(gate3f.refused) : \E path \in r.claim.file :
    Untouched(path) => findings(path, r.claim.name) # {}

Inv3f == Shape3f /\ Accounted /\ Scanned /\ JudgedLast /\ SurvivedStill /\ RefusedStill

LEMMA RangeAppend ==
  ASSUME NEW S, NEW s \in Seq(S), NEW e
  PROVE  Range(Append(s, e)) = Range(s) \cup {e}
<1>1. Len(s) \in Nat /\ DOMAIN s = 1 .. Len(s) /\ DOMAIN Append(s, e) = 1 .. Len(s) + 1
  OBVIOUS
<1>2. Append(s, e)[Len(s) + 1] = e /\ \A i \in 1 .. Len(s) : Append(s, e)[i] = s[i]
  OBVIOUS
<1>3. ASSUME NEW x \in Range(Append(s, e)) PROVE x \in Range(s) \cup {e}
  <2>1. PICK i \in 1 .. Len(s) + 1 : x = Append(s, e)[i]
    BY <1>1 DEF Range
  <2> QED
    BY <1>1, <1>2, <2>1 DEF Range
<1>4. ASSUME NEW x \in Range(s) \cup {e} PROVE x \in Range(Append(s, e))
  <2>1. CASE x = e
    BY <1>1, <1>2, <2>1 DEF Range
  <2>2. CASE x \in Range(s)
    <3>1. PICK i \in 1 .. Len(s) : x = s[i]
      BY <1>1, <2>2 DEF Range
    <3> QED
      BY <1>1, <1>2, <3>1 DEF Range
  <2> QED
    BY <2>1, <2>2
<1> QED
  BY <1>3, <1>4

LEMMA RangeTail ==
  ASSUME NEW S, NEW s \in Seq(S), s # <<>>, NEW x \in Range(s), x # Head(s)
  PROVE  x \in Range(Tail(s))
<1>1. Len(s) \in Nat \ {0} /\ Head(s) = s[1]
  OBVIOUS
<1>2. PICK i \in 1 .. Len(s) : x = s[i]
  BY DEF Range
<1>3. i - 1 \in 1 .. Len(Tail(s)) /\ Tail(s)[i - 1] = s[i]
  BY <1>1, <1>2
<1> QED
  BY <1>2, <1>3 DEF Range

(* Each finding is of a condition; and what speaks for a symbol of a file  *)
(* speaks for the file.                                                    *)
LEMMA FindingsAre ==
  ASSUME NEW path, NEW symbol
  PROVE  /\ {f.condition : f \in findings(path, symbol)} \subseteq Range(Condition)
         /\ findings(path, symbol) \subseteq findings(path, "none")
<1>1. Range(Condition) = {"Serializable", "QueuePayload", "AbiExport"}
  BY DEF Range, Condition
<1>2. {f.condition : f \in findings(path, symbol)} \subseteq {"Serializable", "QueuePayload", "AbiExport"}
  BY DEF findings
<1>3. findings(path, symbol) \subseteq findings(path, "none")
  BY DEF findings
<1> QED
  BY <1>1, <1>2, <1>3

(* What is read of a tree that stands still.                               *)
LEMMA StillRead ==
  ASSUME UNCHANGED tree, NEW path
  PROVE  /\ Ours3f(path)' = Ours3f(path)
         /\ \A f : Imports(path, f)' = Imports(path, f)
         /\ gate3f'.frameworks = gate3f.frameworks =>
              \A symbol : findings(path, symbol)' = findings(path, symbol)
<1>1. Reads(path)' = Reads(path) /\ Elsewhere(path)' = Elsewhere(path)
  BY DEF Reads, Present, Standing, Elsewhere
<1>2. Ours3f(path)' = Ours3f(path)
  BY <1>1 DEF Ours3f
<1>3. \A f : Imports(path, f)' = Imports(path, f)
  BY DEF Imports
<1>4. ASSUME gate3f'.frameworks = gate3f.frameworks, NEW symbol
      PROVE  findings(path, symbol)' = findings(path, symbol)
  BY <1>1, <1>4 DEF findings
<1> QED
  BY <1>2, <1>3, <1>4

(* What is read of a path that no one touches in a tree that moves.        *)
LEMMA UntouchedReads ==
  ASSUME DOMAIN tree = PathSet, NEW moved \in PathSet, Move(moved), UNCHANGED gate3f,
         NEW path, Untouched(path)'
  PROVE  /\ Untouched(path)
         /\ Ours3f(path)' = Ours3f(path)
         /\ Ours3f(path) => \A f : Imports(path, f)' = Imports(path, f)
         /\ \A symbol : findings(path, symbol)' = findings(path, symbol)
<1>1. aux_moved' = aux_moved \cup {moved} /\ \E thing : tree' = [tree EXCEPT ![moved] = thing]
  BY DEF Move
<1>2. Untouched(path) /\ moved \notin {path} \cup Parents(path)
  BY <1>1 DEF Untouched
<1>3. CASE path \notin PathSet
  <2>1. ~ Reads(path) /\ ~ Reads(path)'
    BY <1>3 DEF Reads, Present
  <2> QED
    BY <1>2, <1>3, <2>1 DEF Ours3f, findings
<1>4. CASE path \in PathSet
  <2>1. \A d \in {path} \cup Parents(path) : d \in PathSet /\ tree'[d] = tree[d]
    BY <1>1, <1>2, <1>4, TreeAssumption
  <2>2. Reads(path)' = Reads(path) /\ Elsewhere(path)' = Elsewhere(path)
    BY <2>1 DEF Reads, Present, Standing, Elsewhere
  <2>3. \A f : Imports(path, f)' = Imports(path, f)
    BY <2>1 DEF Imports
  <2>4. \A symbol : findings(path, symbol)' = findings(path, symbol)
    BY <2>1, <2>2 DEF findings
  <2> QED
    BY <1>2, <2>2, <2>3, <2>4 DEF Ours3f
<1> QED
  BY <1>3, <1>4

(* The walk finds every file of this repository.                           *)
LEMMA WalkFinds ==
  ASSUME NEW path, Ours3f(path)
  PROVE  path \in Range(walk3f)
<1> DEFINE P == {i \in DOMAIN GatePaths : /\ directory(GatePaths[i]) \in Entered
                                          /\ tree[GatePaths[i]].type # "none"
                                          /\ ~ IsDirectory(GatePaths[i])}
<1>1. walk3f = Picked(GatePaths, P)
  BY DEF walk3f
<1>2. PICK i \in DOMAIN GatePaths : path = GatePaths[i]
  BY DEF Ours3f, PathSet, Range
<1>3. directory(path) \in Entered
  BY WalkEnters DEF Ours3f, Reads, Present
<1>4. tree[path].type # "none" /\ ~ IsDirectory(path)
  BY DEF Ours3f, Reads, Present, IsDirectory
<1>5. i \in P \cap (1 .. Len(GatePaths))
  BY <1>2, <1>3, <1>4, TreeAssumption
<1> HIDE DEF P
<1>6. PICK place : Places(place, Picked(GatePaths, P), GatePaths, P, Len(GatePaths))
  BY TreeAssumption, PickedPlaces
<1>7. PICK w : w = walk3f
  OBVIOUS
<1>8. w \in Seq(PathSet)
  BY <1>1, <1>7, TreeAssumption, PickedPlaces
<1>9. PICK j \in 1 .. Len(w) : place[j] = i
  BY <1>1, <1>5, <1>6, <1>7 DEF Places
<1>10. w[j] = path
  BY <1>1, <1>2, <1>6, <1>7, <1>9 DEF Places
<1> QED
  BY <1>7, <1>8, <1>9, <1>10 DEF Range

LEMMA WalkListsPaths == walk3f \in Seq(PathSet)
BY TreeAssumption, PickedPlaces DEF walk3f

LEMMA RunKeeps == Inv3f /\ run3f => Inv3f'
<1> SUFFICES ASSUME Inv3f, run3f PROVE Inv3f'
  OBVIOUS
<1>1. PICK claims \in Claims3f :
        gate3f' = [gate3f EXCEPT !.pc = "scan", !.queue = walk3f, !.left = claims,
                                 !.claimed = Len(claims)]
  BY DEF run3f
<1>2. gate3f.pc = "run" /\ UNCHANGED <<tree, aux_moved>>
  BY DEF run3f, treeVars
<1>3. claims \in Seq(AllClaims) /\ Len(claims) \in Nat
  <2>1. claims \in Seq(Range(claims)) /\ Range(claims) \subseteq AllClaims
    BY Gate3fAssumption DEF AllClaims
  <2> QED
    BY <2>1
<1>4. PICK w : w = walk3f
  OBVIOUS
<1>5. w \in Seq(PathSet)
  BY <1>4, WalkListsPaths
<1>6. /\ gate3f'.pc = "scan" /\ gate3f'.queue = w /\ gate3f'.left = claims
      /\ gate3f'.claimed = Len(claims) /\ gate3f'.survived = <<>> /\ gate3f'.refused = <<>>
      /\ gate3f' = [pc |-> gate3f'.pc, queue |-> gate3f'.queue, frameworks |-> gate3f'.frameworks,
                    left |-> gate3f'.left, claimed |-> gate3f'.claimed, refused |-> gate3f'.refused,
                    survived |-> gate3f'.survived, unattributed |-> gate3f'.unattributed]
  BY <1>1, <1>2, <1>4 DEF Inv3f, Shape3f
<1>7. Shape3f'
  BY <1>2, <1>3, <1>5, <1>6 DEF Inv3f, Shape3f
<1>8. Accounted'
  BY <1>3, <1>6 DEF Accounted
<1>9. Scanned'
  <2>1. \A path : Ours3f(path)' => path \in Range(w)
    BY <1>2, <1>4, StillRead, WalkFinds
  <2> QED
    BY <1>6, <2>1 DEF Scanned
<1>10. Range(<<>>) = {}
  BY DEF Range
<1>11. JudgedLast' /\ SurvivedStill' /\ RefusedStill'
  BY <1>6, <1>10 DEF JudgedLast, SurvivedStill, RefusedStill
<1> QED
  BY <1>7, <1>8, <1>9, <1>11 DEF Inv3f

LEMMA DetectKeeps == Inv3f /\ detect_frameworks => Inv3f'
<1> SUFFICES ASSUME Inv3f, detect_frameworks PROVE Inv3f'
  OBVIOUS
<1> DEFINE path  == Head(gate3f.queue)
           lines == IF Reads(path) THEN tree[path].lines ELSE <<>>
           known == gate3f.frameworks \cup {name \in JOB_FRAMEWORKS : \E n \in DOMAIN lines :
             declaring(path, lower(lines[n])) /\ contains_component(lower(lines[n]), name)}
<1>1. /\ gate3f.pc = "scan" /\ gate3f.queue # <<>> /\ UNCHANGED <<tree, aux_moved>>
      /\ gate3f' = [gate3f EXCEPT !.queue = Tail(@), !.frameworks = known]
  BY DEF detect_frameworks, treeVars
<1>2. ASSUME NEW f \in JOB_FRAMEWORKS, Ours3f(path), Imports(path, f)
      PROVE  f \in known
  BY <1>2 DEF Ours3f, Imports, declaring
<1>3. gate3f.frameworks \subseteq known
  OBVIOUS
<1> HIDE DEF known, lines
<1>4. /\ gate3f'.pc = "scan" /\ gate3f'.queue = Tail(gate3f.queue) /\ gate3f'.frameworks = known
      /\ UNCHANGED <<gate3f.left, gate3f.claimed, gate3f.survived, gate3f.refused>>
      /\ gate3f' = [pc |-> gate3f'.pc, queue |-> gate3f'.queue, frameworks |-> gate3f'.frameworks,
                    left |-> gate3f'.left, claimed |-> gate3f'.claimed, refused |-> gate3f'.refused,
                    survived |-> gate3f'.survived, unattributed |-> gate3f'.unattributed]
  BY <1>1 DEF Inv3f, Shape3f
<1>5. gate3f.survived = <<>> /\ gate3f.refused = <<>>
  BY <1>1 DEF Inv3f, JudgedLast
<1>6. Shape3f'
  <2>1. Tail(gate3f.queue) \in Seq(PathSet)
    BY <1>1 DEF Inv3f, Shape3f
  <2> QED
    BY <1>1, <1>4, <2>1 DEF Inv3f, Shape3f
<1>7. Accounted'
  BY <1>4 DEF Inv3f, Accounted
<1>8. Scanned'
  <2> SUFFICES ASSUME NEW p \in PathSet, NEW f \in JOB_FRAMEWORKS,
                      Ours3f(p), Untouched(p), Imports(p, f)
               PROVE  p \in Range(Tail(gate3f.queue)) \/ f \in known
    <3>1. \A p : Ours3f(p)' = Ours3f(p) /\ \A f : Imports(p, f)' = Imports(p, f)
      BY <1>1, StillRead
    <3>2. \A p : Untouched(p)' = Untouched(p)
      BY <1>1 DEF Untouched
    <3> QED
      BY <1>4, <3>1, <3>2 DEF Scanned
  <2>1. p \in Range(gate3f.queue) \/ f \in gate3f.frameworks
    BY <1>1 DEF Inv3f, Scanned
  <2>2. CASE p = path
    BY <1>2, <2>2
  <2>3. CASE p # path /\ p \in Range(gate3f.queue)
    BY <1>1, <2>3, RangeTail DEF Inv3f, Shape3f
  <2> QED
    BY <1>3, <2>1, <2>2, <2>3
<1>9. Range(<<>>) = {}
  BY DEF Range
<1>10. JudgedLast' /\ SurvivedStill' /\ RefusedStill'
  BY <1>4, <1>5, <1>9 DEF JudgedLast, SurvivedStill, RefusedStill
<1> QED
  BY <1>6, <1>7, <1>8, <1>10 DEF Inv3f

LEMMA JudgeKeeps == Inv3f /\ judge3f => Inv3f'
<1> SUFFICES ASSUME Inv3f, judge3f PROVE Inv3f'
  OBVIOUS
<1> DEFINE claim == Head(gate3f.left)
           found == IF claim.file = {} THEN {}
                    ELSE findings(CHOOSE p \in claim.file : TRUE, claim.name)
           refusal == [claim |-> claim, conditions |-> {f.condition : f \in found}]
           missing == gate3f.unattributed + IF claim.file = {} THEN 1 ELSE 0
<1>1. /\ gate3f.pc = "scan" /\ gate3f.queue = <<>> /\ gate3f.left # <<>>
      /\ UNCHANGED <<tree, aux_moved>>
      /\ IF found = {}
           THEN gate3f' = [gate3f EXCEPT !.left = Tail(@), !.unattributed = missing,
                                         !.survived = Append(@, claim)]
           ELSE gate3f' = [gate3f EXCEPT !.left = Tail(@), !.unattributed = missing,
                                         !.refused = @ \o <<refusal>>]
  BY DEF judge3f, treeVars, record3f
<1>2. claim \in AllClaims /\ Tail(gate3f.left) \in Seq(AllClaims)
      /\ Len(Tail(gate3f.left)) = Len(gate3f.left) - 1
  BY <1>1 DEF Inv3f, Shape3f
<1>3. \A p \in claim.file : claim.file = {p}
  BY <1>2, Gate3fAssumption DEF AllClaims
<1>4. \A p \in claim.file : found = findings(p, claim.name)
  BY <1>3
<1>5. found # {} => \E p \in claim.file : found = findings(p, claim.name)
  BY <1>4
<1>6. refusal \in [claim : AllClaims, conditions : SUBSET Range(Condition)]
  <2>1. {f.condition : f \in found} \subseteq Range(Condition)
    <3>1. CASE claim.file = {}
      BY <3>1
    <3>2. CASE claim.file # {}
      <4>1. PICK p \in claim.file : found = findings(p, claim.name)
        BY <1>4, <3>2
      <4> HIDE DEF found
      <4> QED
        BY <4>1, FindingsAre
    <3> QED
      BY <3>1, <3>2
  <2> HIDE DEF found
  <2> QED
    BY <1>2, <2>1
<1>7. refusal.claim = claim
  OBVIOUS
<1> HIDE DEF claim, found, refusal, missing
<1>8. /\ gate3f'.pc = "scan" /\ gate3f'.queue = <<>> /\ gate3f'.left = Tail(gate3f.left)
      /\ UNCHANGED <<gate3f.claimed, gate3f.frameworks>>
      /\ gate3f' = [pc |-> gate3f'.pc, queue |-> gate3f'.queue, frameworks |-> gate3f'.frameworks,
                    left |-> gate3f'.left, claimed |-> gate3f'.claimed, refused |-> gate3f'.refused,
                    survived |-> gate3f'.survived, unattributed |-> gate3f'.unattributed]
      /\ \/ /\ found = {} /\ gate3f'.refused = gate3f.refused
            /\ gate3f'.survived = Append(gate3f.survived, claim)
         \/ /\ found # {} /\ gate3f'.survived = gate3f.survived
            /\ gate3f'.refused = gate3f.refused \o <<refusal>>
  BY <1>1 DEF Inv3f, Shape3f
<1> DEFINE Refusals == [claim : AllClaims, conditions : SUBSET Range(Condition)]
<1>9. gate3f.refused \in Seq(Refusals) /\ gate3f.survived \in Seq(AllClaims) /\ refusal \in Refusals
  BY <1>6 DEF Inv3f, Shape3f
<1> HIDE DEF Refusals
<1>10. gate3f.refused \o <<refusal>> = Append(gate3f.refused, refusal)
  BY <1>9
<1>11. PICK was, now, kept, keeps :
         /\ was = gate3f.refused /\ now = gate3f'.refused
         /\ kept = gate3f.survived /\ keeps = gate3f'.survived
  OBVIOUS
<1>12. /\ was \in Seq(Refusals) /\ kept \in Seq(AllClaims) /\ claim \in AllClaims /\ refusal \in Refusals
       /\ \/ found = {} /\ now = was /\ keeps = Append(kept, claim)
          \/ found # {} /\ keeps = kept /\ now = Append(was, refusal)
  BY <1>2, <1>8, <1>9, <1>10, <1>11, Zenon
<1>13. /\ now \in Seq(Refusals) /\ keeps \in Seq(AllClaims)
       /\ Len(was) \in Nat /\ Len(kept) \in Nat /\ Len(now) \in Nat /\ Len(keeps) \in Nat
       /\ Len(now) + Len(keeps) = Len(was) + Len(kept) + 1
  <2>1. Len(was) \in Nat /\ Len(kept) \in Nat
    BY <1>12
  <2>2. CASE now = was /\ keeps = Append(kept, claim)
    <3>1. keeps \in Seq(AllClaims) /\ Len(keeps) = Len(kept) + 1
      BY <1>12, <2>2
    <3> QED
      BY <1>12, <2>1, <2>2, <3>1
  <2>3. CASE keeps = kept /\ now = Append(was, refusal)
    <3>1. now \in Seq(Refusals) /\ Len(now) = Len(was) + 1
      BY <1>12, <2>3
    <3> QED
      BY <1>12, <2>1, <2>3, <3>1
  <2> QED
    BY <1>12, <2>2, <2>3
<1>14. Shape3f'
  <2>1. DOMAIN tree' = PathSet /\ <<>> \in Seq(PathSet)
    BY <1>1 DEF Inv3f, Shape3f
  <2> QED
    BY <1>2, <1>8, <1>11, <1>13, <2>1 DEF Shape3f, Refusals
<1>15. Accounted'
  <2>1. PICK m \in Nat : m = Len(gate3f.left)
    BY DEF Inv3f, Shape3f
  <2>2. gate3f'.claimed = m + Len(was) + Len(kept)
    BY <1>8, <1>11, <2>1 DEF Inv3f, Accounted
  <2>3. Len(gate3f'.left) = m - 1
    BY <1>2, <1>8, <2>1
  <2>4. gate3f'.claimed = Len(gate3f'.left) + Len(now) + Len(keeps)
    <3>1. PICK a \in Nat, b \in Nat, c \in Nat, d \in Nat :
            a = Len(was) /\ b = Len(kept) /\ c = Len(now) /\ d = Len(keeps)
      BY <1>13
    <3>2. c + d = a + b + 1
      BY <1>13, <3>1
    <3>3. gate3f'.claimed = m + a + b /\ Len(gate3f'.left) = m - 1
      BY <2>2, <2>3, <3>1
    <3>4. m + a + b = (m - 1) + c + d
      BY <3>2
    <3> QED
      BY <3>1, <3>3, <3>4
  <2> QED
    BY <1>11, <2>4 DEF Accounted
<1>16. \A p : Untouched(p)' = Untouched(p)
  BY <1>1 DEF Untouched
<1>17. \A p : Ours3f(p)' = Ours3f(p) /\ \A f : Imports(p, f)' = Imports(p, f)
  BY <1>1, StillRead
<1>18. \A p, symbol : findings(p, symbol)' = findings(p, symbol)
  BY <1>1, <1>8, StillRead
<1>19. Scanned' /\ JudgedLast'
  BY <1>1, <1>8, <1>16, <1>17 DEF Inv3f, Scanned, JudgedLast
<1>20. SurvivedStill'
  <2> SUFFICES ASSUME NEW c \in Range(gate3f'.survived), NEW p \in c.file, Untouched(p)
               PROVE  findings(p, c.name) = {}
    BY <1>16, <1>18 DEF SurvivedStill
  <2>1. c \in Range(gate3f.survived) \/ (c = claim /\ found = {})
    <3>1. Range(Append(kept, claim)) = Range(kept) \cup {claim}
      BY <1>12, RangeAppend
    <3> QED
      BY <1>11, <1>12, <3>1, Zenon
  <2> QED
    BY <1>4, <2>1 DEF Inv3f, SurvivedStill
<1>21. RefusedStill'
  <2> SUFFICES ASSUME NEW r \in Range(gate3f'.refused)
               PROVE  \E p \in r.claim.file : Untouched(p) => findings(p, r.claim.name) # {}
    BY <1>16, <1>18 DEF RefusedStill
  <2>1. r \in Range(gate3f.refused) \/ (r = refusal /\ found # {})
    <3>1. Range(Append(was, refusal)) = Range(was) \cup {refusal}
      BY <1>12, RangeAppend
    <3> QED
      BY <1>11, <1>12, <3>1, Zenon
  <2> QED
    BY <1>5, <1>7, <2>1 DEF Inv3f, RefusedStill
<1> QED
  BY <1>14, <1>15, <1>19, <1>20, <1>21 DEF Inv3f

LEMMA MovesKeep == Inv3f /\ UserMoves3f => Inv3f'
<1> SUFFICES ASSUME Inv3f, NEW moved \in PathSet, Move(moved), UNCHANGED gate3f
             PROVE  Inv3f'
  BY DEF UserMoves3f
<1>1. DOMAIN tree = PathSet /\ DOMAIN tree' = PathSet
  BY DEF Inv3f, Shape3f, Move
<1>2. Shape3f' /\ Accounted' /\ JudgedLast'
  BY <1>1 DEF Inv3f, Shape3f, Accounted, JudgedLast
<1>3. Scanned'
  <2> SUFFICES ASSUME gate3f.pc = "scan", NEW path \in PathSet, NEW f \in JOB_FRAMEWORKS,
                      Ours3f(path)', Untouched(path)', Imports(path, f)'
               PROVE  path \in Range(gate3f.queue) \/ f \in gate3f.frameworks
    BY DEF Scanned
  <2>1. Ours3f(path) /\ Untouched(path) /\ Imports(path, f)
    BY <1>1, UntouchedReads
  <2> QED
    BY <2>1 DEF Inv3f, Scanned
<1>4. SurvivedStill'
  BY <1>1, UntouchedReads DEF Inv3f, SurvivedStill
<1>5. RefusedStill'
  BY <1>1, UntouchedReads DEF Inv3f, RefusedStill
<1> QED
  BY <1>2, <1>3, <1>4, <1>5 DEF Inv3f

LEMMA Inductive3f == Inv3f /\ [Next3f]_gate3fVars => Inv3f'
<1> SUFFICES ASSUME Inv3f, [Next3f]_gate3fVars PROVE Inv3f'
  OBVIOUS
<1>1. CASE scan_fails
  <2>1. gate3f' = [gate3f EXCEPT !.pc = "error"] /\ gate3f.pc = "run" /\ UNCHANGED <<tree, aux_moved>>
    BY <1>1 DEF scan_fails, treeVars
  <2>2. /\ gate3f'.pc = "error"
        /\ UNCHANGED <<gate3f.queue, gate3f.left, gate3f.claimed, gate3f.frameworks>>
        /\ gate3f'.survived = <<>> /\ gate3f'.refused = <<>>
        /\ gate3f.survived = <<>> /\ gate3f.refused = <<>>
    BY <2>1 DEF Inv3f, Shape3f
  <2>3. Shape3f'
    BY <2>1, <2>2 DEF Inv3f, Shape3f
  <2>4. Range(<<>>) = {}
    BY DEF Range
  <2>5. Accounted' /\ Scanned' /\ JudgedLast' /\ SurvivedStill' /\ RefusedStill'
    BY <2>2, <2>4 DEF Inv3f, Accounted, Scanned, JudgedLast, SurvivedStill, RefusedStill
  <2> QED
    BY <2>3, <2>5 DEF Inv3f
<1>2. CASE UNCHANGED gate3fVars
  <2>1. UNCHANGED <<tree, aux_moved, gate3f>>
    BY <1>2 DEF gate3fVars
  <2>2. \A p : Untouched(p)' = Untouched(p)
    BY <2>1 DEF Untouched
  <2>3. \A p : Ours3f(p)' = Ours3f(p) /\ \A f : Imports(p, f)' = Imports(p, f)
    BY <2>1, StillRead
  <2>4. \A p, symbol : findings(p, symbol)' = findings(p, symbol)
    BY <2>1, StillRead
  <2> QED
    BY <2>1, <2>2, <2>3, <2>4
       DEF Inv3f, Shape3f, Accounted, Scanned, JudgedLast, SurvivedStill, RefusedStill
<1> QED
  BY <1>1, <1>2, RunKeeps, DetectKeeps, JudgeKeeps, MovesKeep DEF Next3f

LEMMA Initially3f == Init3f => Inv3f
<1> SUFFICES ASSUME Init3f PROVE Inv3f
  OBVIOUS
<1>1. DOMAIN tree = PathSet /\ gate3f = New3f
  BY DEF Init3f, TreeInit
<1>2. Range(<<>>) = {}
  BY DEF Range
<1> QED
  BY <1>1, <1>2 DEF New3f, Inv3f, Shape3f, Accounted, Scanned, JudgedLast, SurvivedStill, RefusedStill

(* No file that imports a job framework, and no symbol of it, is let go,   *)
(* for every tree and every order of the claims: the frameworks are known  *)
(* before the first claim is judged.                                       *)
THEOREM Kept == Spec3f => []ImportersAreKept
<1>1. Inv3f => ImportersAreKept
  <2> SUFFICES ASSUME Inv3f, NEW claim \in Range(gate3f.survived), NEW path \in claim.file,
                      Reads(path), Untouched(path), ~ Elsewhere(path),
                      NEW n \in DOMAIN tree[path].lines,
                      is_import_line(lower(tree[path].lines[n])), NEW f \in JOB_FRAMEWORKS,
                      contains_component(lower(tree[path].lines[n]), f)
               PROVE  FALSE
    BY DEF ImportersAreKept
  <2>1. Ours3f(path) /\ Imports(path, f)
    BY DEF Ours3f, Imports, Reads, Present
  <2>2. gate3f.survived # <<>>
    BY DEF Range
  <2>3. gate3f.queue = <<>> /\ gate3f.pc = "scan"
    BY <2>2 DEF Inv3f, JudgedLast
  <2>4. f \in gate3f.frameworks
    <3>1. path \notin Range(<<>>)
      BY DEF Range
    <3> QED
      BY <2>1, <2>3, <3>1 DEF Inv3f, Scanned, Ours3f
  <2>5. references_framework(tree[path].lines, f)
    BY DEF references_framework
  <2>6. findings(path, claim.name) # {}
    <3>1. f \in {g \in gate3f.frameworks : references_framework(tree[path].lines, g)}
      BY <2>4, <2>5
    <3>2. <<"QueuePayload", <<f>>>> \in {"QueuePayload"} \X
            {<<name>> : name \in {g \in gate3f.frameworks : references_framework(tree[path].lines, g)}}
      BY <3>1
    <3> QED
      BY <3>2, Zenon DEF findings
  <2> QED
    BY <2>6 DEF Inv3f, SurvivedStill
<1> QED
  BY <1>1, Initially3f, Inductive3f, PTL DEF Spec3f

(* Every claim is accounted for once, and no file is let go whose own      *)
(* bytes kept a symbol in it.                                              *)
THEOREM AllAccounted == Spec3f => []ClaimsAreAccountedFor
<1>1. Inv3f => ClaimsAreAccountedFor
  <2> SUFFICES ASSUME Inv3f, NEW r \in Range(gate3f.refused), NEW whole \in Range(gate3f.survived),
                      whole.name = "none", whole.file = r.claim.file,
                      \A path \in whole.file : Untouched(path)
               PROVE  FALSE
    BY DEF ClaimsAreAccountedFor, Inv3f, Accounted
  <2>1. PICK path \in r.claim.file : findings(path, r.claim.name) # {}
    BY DEF Inv3f, RefusedStill
  <2>2. findings(path, "none") = {}
    BY DEF Inv3f, SurvivedStill
  <2> QED
    BY <2>1, <2>2, FindingsAre
<1> QED
  BY <1>1, Initially3f, Inductive3f, PTL DEF Spec3f

-----------------------------------------------------------------------------
(* Gate 1.                                                                 *)

(* Below each directory above a path, and below the root, lies the next of *)
(* the directories above that path, or the path itself.                    *)
LEMMA LevelBelow ==
  ASSUME NEW S, NEW p \in Seq(S), NEW d \in {<<>>} \cup Parents(p)
  PROVE  \E e \in {p} \cup Parents(p) : directory(e) = d
<1>0. Len(p) \in Nat /\ DOMAIN p = 1 .. Len(p)
  OBVIOUS
<1>1. PICK i \in 0 .. Len(p) : /\ d = SubSeq(p, 1, i - 1)
                               /\ i = 0 \/ p[i] = "/"
  <2>1. CASE d = <<>>
    <3>1. SubSeq(p, 1, 0 - 1) = <<>>
      BY <1>0
    <3> QED
      BY <1>0, <2>1, <3>1
  <2>2. CASE d \in Parents(p)
    BY <1>0, <2>2 DEF Parents
  <2> QED
    BY <2>1, <2>2
<1> DEFINE T == {j \in i + 1 .. Len(p) + 1 : j = Len(p) + 1 \/ p[j] = "/"}
<1>2. PICK k \in T : \A j \in T : k <= j
  <2>1. T \subseteq Nat /\ Len(p) + 1 \in T
    BY <1>0
  <2> HIDE DEF T
  <2> QED
    BY <2>1, LeastNatural
<1>3. k \in i + 1 .. Len(p) + 1 /\ \A j \in i + 1 .. k - 1 : p[j] # "/"
  BY <1>0, <1>2
<1>4. PICK e : e = SubSeq(p, 1, k - 1)
  OBVIOUS
<1>5. /\ e \in Seq(S) /\ Len(e) = k - 1 /\ DOMAIN e = 1 .. k - 1
      /\ \A j \in 1 .. k - 1 : e[j] = p[j]
  BY <1>0, <1>3, <1>4
<1>6. e \in {p} \cup Parents(p)
  <2>1. CASE k = Len(p) + 1
    BY <1>0, <1>4, <2>1
  <2>2. CASE k # Len(p) + 1
    <3>1. k \in DOMAIN p /\ p[k] = "/"
      BY <1>0, <1>2, <2>2
    <3>2. e \in Parents(p)
      BY <1>4, <3>1 DEF Parents
    <3> QED
      BY <3>2
  <2> QED
    BY <2>1, <2>2
<1>7. LastOf(e, "/") = i
  <2> DEFINE U == {0} \cup {j \in DOMAIN e : e[j] = "/"}
  <2>1. U \subseteq Int /\ i \in U
    BY <1>0, <1>1, <1>3, <1>5
  <2>2. \A j \in U : j <= i
    BY <1>0, <1>3, <1>5
  <2>3. LastOf(e, "/") = Max(U)
    BY DEF LastOf
  <2> HIDE DEF U
  <2> QED
    BY <2>1, <2>2, <2>3, MaxIs
<1>8. SubSeq(e, 1, i - 1) = SubSeq(p, 1, i - 1)
  BY <1>0, <1>3, <1>5
<1>9. directory(e) = d
  BY <1>1, <1>7, <1>8 DEF directory
<1> QED
  BY <1>6, <1>9

(* A directory that is listed gives everything in it.                      *)
LEMMA ListedHas ==
  ASSUME NEW dir
  PROVE  /\ Listed(dir) \in Seq(PathSet)
         /\ \A p \in PathSet : directory(p) = dir /\ tree[p].type # "none" => p \in Range(Listed(dir))
<1> DEFINE P == {i \in DOMAIN GatePaths :
                   directory(GatePaths[i]) = dir /\ tree[GatePaths[i]].type # "none"}
<1>1. Listed(dir) = Picked(GatePaths, P)
  BY DEF Listed
<1>2. Picked(GatePaths, P) \in Seq(PathSet)
  BY TreeAssumption, PickedPlaces
<1>3. ASSUME NEW p \in PathSet, directory(p) = dir, tree[p].type # "none"
      PROVE  p \in Range(Listed(dir))
  <2>1. PICK i \in DOMAIN GatePaths : p = GatePaths[i]
    BY DEF PathSet, Range
  <2>2. i \in P \cap (1 .. Len(GatePaths))
    BY <1>3, <2>1, TreeAssumption
  <2> HIDE DEF P
  <2>3. PICK place : Places(place, Picked(GatePaths, P), GatePaths, P, Len(GatePaths))
    BY TreeAssumption, PickedPlaces
  <2>4. PICK w : w = Listed(dir)
    OBVIOUS
  <2>5. w \in Seq(PathSet)
    BY <1>1, <1>2, <2>4
  <2>6. PICK j \in 1 .. Len(w) : place[j] = i
    BY <1>1, <2>2, <2>3, <2>4 DEF Places
  <2>7. w[j] = p
    BY <1>1, <2>1, <2>3, <2>4, <2>6 DEF Places
  <2> QED
    BY <2>4, <2>5, <2>6, <2>7 DEF Range
<1> QED
  BY <1>1, <1>2, <1>3

(* A path of this repository that stood throughout; whether it is read;    *)
(* and that nothing at it is or hides an effector.                         *)
Stood(f) == Untouched(f) /\ Standing(f) /\ ~ Elsewhere(f)

IsRead(f) == tree[f].type = "file" \/ (tree[f].type = "link" /\ tree[f].leads = "file")

Harmless(f) ==
  /\ ~ (tree[f].type = "link" /\ tree[f].leads = "outside")
  /\ IsRead(f) =>
       /\ filename_marker(f) = {}
       /\ is_yaml(f) => \/ survey.probes >= MaxProbes
                        \/ tree[f].readable /\ ApiGroups(tree[f].lines) = {}

(* The survey will come to the path, and then to what is below it.         *)
Ahead(p) == p \in Range(survey.queue) \/ directory(p) \in Range(survey.stack)

Clean(s) == ~ has_external_effector(s)

(***************************************************************************)
(* The inductive invariant: as long as the survey has found nothing and no *)
(* gap, each path that stood is harmless, or the survey will come to it or *)
(* to a directory above it; and what survived did so after a survey that   *)
(* ended like that.                                                        *)
(***************************************************************************)
SurveyShape ==
  /\ DOMAIN tree = PathSet
  /\ survey = [pc |-> survey.pc, stack |-> survey.stack, queue |-> survey.queue,
               entries |-> survey.entries, probes |-> survey.probes,
               effectors |-> survey.effectors, stores |-> survey.stores, gaps |-> survey.gaps]
  /\ survey.pc \in {"stores", "walk", "surveyed"}
  /\ survey.stack \in Seq(PathSet \cup {<<>>}) /\ survey.queue \in Seq(PathSet)
  /\ survey.probes \in Nat

WalkCovers ==
  survey.pc = "walk" /\ Clean(survey) =>
    \A f \in PathSet : Stood(f) /\ tree[f].type # "none" =>
      Harmless(f) \/ \E d \in {f} \cup Parents(f) : Ahead(d)

Concluded ==
  survey.pc = "surveyed" /\ Clean(survey) =>
    survey.probes < MaxProbes /\ \A f \in PathSet : Stood(f) => Harmless(f)

SurveyInv == SurveyShape /\ WalkCovers /\ Concluded

RunShape ==
  gate1 = [pc |-> gate1.pc, mode |-> gate1.mode, left |-> gate1.left, claimed |-> gate1.claimed,
           refused |-> gate1.refused, survived |-> gate1.survived,
           unattributed |-> gate1.unattributed, exit |-> gate1.exit]

SurveyFirst ==
  /\ gate1.pc \in {"build", "judge", "done"} => survey.pc = "surveyed"
  /\ gate1.pc \in {"idle", "survey", "build"} => gate1.survived = {}
  /\ gate1.survived # {} => survey.pc = "surveyed" /\ Clean(survey)

Inv1 == SurveyInv /\ RunShape /\ SurveyFirst

(* What only depends on the tree stays while the tree does.                *)
LEMMA StillStood ==
  ASSUME UNCHANGED <<tree, aux_moved>>, NEW f
  PROVE  /\ Stood(f)' = Stood(f) /\ IsRead(f)' = IsRead(f)
         /\ survey'.probes = survey.probes => Harmless(f)' = Harmless(f)
<1>1. Stood(f)' = Stood(f)
  BY DEF Stood, Untouched, Standing, Elsewhere
<1>2. IsRead(f)' = IsRead(f)
  BY DEF IsRead
<1>3. ASSUME survey'.probes = survey.probes PROVE Harmless(f)' = Harmless(f)
  BY <1>2, <1>3 DEF Harmless
<1> QED
  BY <1>1, <1>2, <1>3

LEMMA ProbeKeeps == SurveyInv /\ probe_git_stores => SurveyInv'
<1> SUFFICES ASSUME SurveyInv, probe_git_stores PROVE SurveyInv'
  OBVIOUS
<1>1. /\ survey.pc = "stores" /\ UNCHANGED <<tree, aux_moved>>
      /\ survey'.pc = "walk" /\ survey'.stack = <<<<>>>>
      /\ survey'.queue = survey.queue /\ survey'.probes = survey.probes
  BY DEF probe_git_stores, treeVars, SurveyInv, SurveyShape
<1>2. SurveyShape'
  <2>1. survey' = [pc |-> survey'.pc, stack |-> survey'.stack, queue |-> survey'.queue,
                   entries |-> survey'.entries, probes |-> survey'.probes,
                   effectors |-> survey'.effectors, stores |-> survey'.stores,
                   gaps |-> survey'.gaps]
    BY DEF probe_git_stores, SurveyInv, SurveyShape
  <2>2. <<<<>>>> \in Seq(PathSet \cup {<<>>})
    OBVIOUS
  <2> QED
    BY <1>1, <2>1, <2>2 DEF SurveyInv, SurveyShape
<1>3. WalkCovers'
  <2> SUFFICES ASSUME NEW f \in PathSet PROVE \E d \in {f} \cup Parents(f) : Ahead(d)'
    BY <1>1, TreeAssumption DEF WalkCovers
  <2>1. PICK d \in {f} \cup Parents(f) : directory(d) = <<>>
    BY LevelBelow, TreeAssumption
  <2>2. <<>> \in Range(survey'.stack)
    BY <1>1 DEF Range
  <2> QED
    BY <2>1, <2>2 DEF Ahead
<1>4. Concluded'
  BY <1>1 DEF Concluded
<1> QED
  BY <1>2, <1>3, <1>4 DEF SurveyInv

LEMMA FinishKeeps == SurveyInv /\ finish => SurveyInv'
<1> SUFFICES ASSUME SurveyInv, finish PROVE SurveyInv'
  OBVIOUS
<1>1. /\ survey.pc = "walk" /\ survey.queue = <<>> /\ survey.stack = <<>>
      /\ survey' = [survey EXCEPT !.pc = "surveyed", !.gaps = @ \cup probes_exhausted(survey)]
      /\ UNCHANGED <<tree, aux_moved>>
  BY DEF finish, treeVars
<1>2. /\ survey'.pc = "surveyed" /\ survey'.queue = <<>> /\ survey'.stack = <<>>
      /\ survey'.probes = survey.probes /\ survey'.effectors = survey.effectors
      /\ survey'.gaps = survey.gaps \cup probes_exhausted(survey)
  BY <1>1 DEF SurveyInv, SurveyShape
<1>3. SurveyShape'
  <2>1. survey' = [pc |-> survey'.pc, stack |-> survey'.stack, queue |-> survey'.queue,
                   entries |-> survey'.entries, probes |-> survey'.probes,
                   effectors |-> survey'.effectors, stores |-> survey'.stores,
                   gaps |-> survey'.gaps]
    BY <1>1 DEF SurveyInv, SurveyShape
  <2> QED
    BY <1>1, <1>2, <2>1 DEF SurveyInv, SurveyShape
<1>4. WalkCovers'
  BY <1>2 DEF WalkCovers
<1>5. Concluded'
  <2> SUFFICES ASSUME Clean(survey)'
               PROVE  /\ survey'.probes < MaxProbes
                      /\ \A f \in PathSet : Stood(f)' => Harmless(f)'
    BY DEF Concluded
  <2>1. Clean(survey) /\ probes_exhausted(survey) = {}
    BY <1>2 DEF Clean, has_external_effector
  <2>2. survey.probes < MaxProbes
    <3>1. ~ (survey.probes >= MaxProbes)
      BY <2>1 DEF probes_exhausted
    <3>2. survey.probes \in Nat /\ MaxProbes \in Nat
      BY StateAssumption DEF SurveyInv, SurveyShape
    <3>3. PICK n : n = survey.probes
      OBVIOUS
    <3> QED
      BY <3>1, <3>2, <3>3
  <2>3. ASSUME NEW f \in PathSet, Stood(f) PROVE Harmless(f)
    <3>1. CASE tree[f].type = "none"
      BY <3>1 DEF Harmless, IsRead
    <3>2. CASE tree[f].type # "none"
      <4>1. \A d : ~ Ahead(d)
        BY <1>1 DEF Ahead, Range
      <4> QED
        BY <1>1, <2>1, <2>3, <3>2, <4>1 DEF SurveyInv, WalkCovers
    <3> QED
      BY <3>1, <3>2
  <2> QED
    BY <1>1, <1>2, <2>2, <2>3, StillStood
<1> QED
  BY <1>3, <1>4, <1>5 DEF SurveyInv

LEMMA FrontLast ==
  ASSUME NEW S, NEW s \in Seq(S), s # <<>>
  PROVE  Front(s) \in Seq(S) /\ \A x \in Range(s) : x = Last(s) \/ x \in Range(Front(s))
<1>1. Len(s) \in Nat \ {0} /\ Front(s) = SubSeq(s, 1, Len(s) - 1) /\ Last(s) = s[Len(s)]
  BY DEF Front, Last
<1>2. /\ Front(s) \in Seq(S) /\ DOMAIN Front(s) = 1 .. Len(s) - 1
      /\ \A i \in 1 .. Len(s) - 1 : Front(s)[i] = s[i]
  BY <1>1
<1>3. ASSUME NEW x \in Range(s), x # Last(s) PROVE x \in Range(Front(s))
  <2>1. PICK i \in 1 .. Len(s) : x = s[i]
    BY DEF Range
  <2>2. i \in 1 .. Len(s) - 1
    BY <1>1, <1>3, <2>1
  <2> QED
    BY <1>2, <2>1, <2>2 DEF Range
<1> QED
  BY <1>2, <1>3

LEMMA StillHarmless ==
  ASSUME UNCHANGED <<tree, aux_moved>>, survey.probes \in Nat, survey'.probes \in Nat,
         survey'.probes >= survey.probes, NEW f, Harmless(f)
  PROVE  Harmless(f)'
<1>1. IsRead(f)' = IsRead(f)
  BY DEF IsRead
<1>2. survey.probes >= MaxProbes => survey'.probes >= MaxProbes
  BY StateAssumption
<1> QED
  BY <1>1, <1>2 DEF Harmless

LEMMA ListKeeps == SurveyInv /\ list => SurveyInv'
<1> SUFFICES ASSUME SurveyInv, list PROVE SurveyInv'
  OBVIOUS
<1> DEFINE dir == Last(survey.stack)
<1>1. /\ survey.pc = "walk" /\ survey.queue = <<>> /\ survey.stack # <<>>
      /\ UNCHANGED <<tree, aux_moved>>
      /\ \/ survey' = [survey EXCEPT !.stack = Front(@), !.queue = Listed(dir)]
         \/ survey' = [survey EXCEPT !.stack = Front(@), !.gaps = @ \cup {dir}]
  BY DEF list, treeVars
<1>2. /\ survey.stack \in Seq(PathSet \cup {<<>>}) /\ Front(survey.stack) \in Seq(PathSet \cup {<<>>})
      /\ \A x \in Range(survey.stack) : x = dir \/ x \in Range(Front(survey.stack))
  BY <1>1, FrontLast DEF SurveyInv, SurveyShape
<1>3. /\ survey'.pc = "walk" /\ survey'.stack = Front(survey.stack) /\ survey'.probes = survey.probes
      /\ survey' = [pc |-> survey'.pc, stack |-> survey'.stack, queue |-> survey'.queue,
                    entries |-> survey'.entries, probes |-> survey'.probes,
                    effectors |-> survey'.effectors, stores |-> survey'.stores,
                    gaps |-> survey'.gaps]
  BY <1>1 DEF SurveyInv, SurveyShape
<1>4. Concluded'
  BY <1>3 DEF Concluded
<1>5. CASE survey' = [survey EXCEPT !.stack = Front(@), !.queue = Listed(dir)]
  <2>1. /\ survey'.queue = Listed(dir) /\ survey'.effectors = survey.effectors
        /\ survey'.gaps = survey.gaps
    BY <1>5 DEF SurveyInv, SurveyShape
  <2>2. SurveyShape'
    BY <1>1, <1>2, <1>3, <2>1, ListedHas DEF SurveyInv, SurveyShape
  <2>3. WalkCovers'
    <3> SUFFICES ASSUME Clean(survey)', NEW f \in PathSet, Stood(f)', tree'[f].type # "none"
                 PROVE  Harmless(f)' \/ \E d \in {f} \cup Parents(f) : Ahead(d)'
      BY DEF WalkCovers
    <3>1. Clean(survey) /\ Stood(f) /\ tree[f].type # "none"
      BY <1>1, <2>1, StillStood DEF Clean, has_external_effector
    <3>2. CASE Harmless(f)
      BY <1>1, <1>3, <3>2, StillStood
    <3>3. ASSUME NEW d \in {f} \cup Parents(f), Ahead(d) PROVE Ahead(d)'
      <4>1. d \in PathSet /\ tree[d].type # "none"
        BY <3>1, TreeAssumption DEF Stood, Standing
      <4>2. directory(d) \in Range(survey.stack)
        BY <1>1, <3>3 DEF Ahead, Range
      <4>3. CASE directory(d) = dir
        BY <2>1, <4>1, <4>3, ListedHas DEF Ahead
      <4>4. CASE directory(d) # dir
        BY <1>2, <1>3, <4>2, <4>4 DEF Ahead
      <4> QED
        BY <4>3, <4>4
    <3> QED
      BY <1>1, <3>1, <3>2, <3>3 DEF SurveyInv, WalkCovers
  <2> QED
    BY <1>4, <2>2, <2>3 DEF SurveyInv
<1>6. CASE survey' = [survey EXCEPT !.stack = Front(@), !.gaps = @ \cup {dir}]
  <2>1. survey'.queue = survey.queue /\ dir \in survey'.gaps
    BY <1>6 DEF SurveyInv, SurveyShape
  <2>2. ~ Clean(survey)'
    BY <2>1 DEF Clean, has_external_effector
  <2>3. SurveyShape'
    BY <1>1, <1>2, <1>3, <2>1 DEF SurveyInv, SurveyShape
  <2> QED
    BY <1>4, <2>2, <2>3 DEF SurveyInv, WalkCovers
<1> QED
  BY <1>1, <1>5, <1>6

(* After one entry is examined only what it stands for is to be shown.     *)
LEMMA ExaminedRest ==
  ASSUME SurveyInv, UNCHANGED <<tree, aux_moved>>, SurveyShape', Concluded',
         survey.pc = "walk", survey.queue # <<>>, survey'.queue = Tail(survey.queue),
         Range(survey.stack) \subseteq Range(survey'.stack),
         survey'.probes >= survey.probes, Clean(survey)' => Clean(survey),
         Clean(survey)' =>
           \A f \in PathSet : Stood(f) /\ tree[f].type # "none" /\ Head(survey.queue) \in {f} \cup Parents(f) =>
             Harmless(f)' \/ \E d \in {f} \cup Parents(f) : Ahead(d)'
  PROVE  SurveyInv'
<1>1. WalkCovers'
  <2> SUFFICES ASSUME Clean(survey)', NEW f \in PathSet, Stood(f)', tree'[f].type # "none"
               PROVE  Harmless(f)' \/ \E d \in {f} \cup Parents(f) : Ahead(d)'
    BY DEF WalkCovers
  <2>1. Clean(survey) /\ Stood(f) /\ tree[f].type # "none"
    BY StillStood
  <2>2. CASE Harmless(f)
    BY <2>2, StillHarmless DEF SurveyInv, SurveyShape
  <2>3. CASE Head(survey.queue) \in {f} \cup Parents(f)
    BY <2>1, <2>3
  <2>4. ASSUME NEW d \in {f} \cup Parents(f), Ahead(d), d # Head(survey.queue)
        PROVE  Ahead(d)'
    <3>1. CASE d \in Range(survey.queue)
      <4>1. survey.queue \in Seq(PathSet)
        BY DEF SurveyInv, SurveyShape
      <4> QED
        BY <2>4, <3>1, <4>1, RangeTail DEF Ahead
    <3>2. CASE directory(d) \in Range(survey.stack)
      BY <3>2 DEF Ahead
    <3> QED
      BY <2>4, <3>1, <3>2 DEF Ahead
  <2> QED
    BY <2>1, <2>2, <2>3, <2>4 DEF SurveyInv, WalkCovers
<1> QED
  BY <1>1 DEF SurveyInv

LEMMA ExamineKeeps == SurveyInv /\ examine => SurveyInv'
<1> SUFFICES ASSUME SurveyInv, examine PROVE SurveyInv'
  OBVIOUS
<1>0. PICK path : path = Head(survey.queue)
  OBVIOUS
<1> DEFINE thing == tree[path]
           next  == [survey EXCEPT !.queue = Tail(@), !.entries = @ + 1]
           Parts(s) == s = [pc |-> s.pc, stack |-> s.stack, queue |-> s.queue,
                            entries |-> s.entries, probes |-> s.probes,
                            effectors |-> s.effectors, stores |-> s.stores, gaps |-> s.gaps]
<1>1. /\ survey.pc = "walk" /\ survey.queue # <<>> /\ UNCHANGED <<tree, aux_moved>>
      /\ survey' =
           IF survey.entries >= MaxEntries
             THEN [survey EXCEPT !.queue = <<>>, !.stack = <<>>,
                                 !.gaps = @ \cup {<<"too many entries">>}]
           ELSE IF ~ Present(path) THEN [next EXCEPT !.gaps = @ \cup {path}]
           ELSE IF thing.type = "dir"
             THEN IF stops_the_walk(classify(thing.marks))
                    THEN [next EXCEPT !.gaps = @ \cup {g \in {path} : classify(thing.marks) = "Unreadable"}]
                    ELSE [next EXCEPT !.stack = Append(@, path)]
           ELSE IF thing.type = "link" /\ thing.leads # "file"
             THEN [next EXCEPT !.gaps = @ \cup uncovered(thing)]
           ELSE look(next, path)
  BY <1>0 DEF examine, treeVars
<1>2. /\ DOMAIN tree = PathSet /\ Parts(survey)
      /\ survey.stack \in Seq(PathSet \cup {<<>>}) /\ survey.queue \in Seq(PathSet)
      /\ survey.probes \in Nat
  BY DEF SurveyInv, SurveyShape
<1>3. path \in PathSet /\ Tail(survey.queue) \in Seq(PathSet)
  BY <1>0, <1>1, <1>2
<1>4. /\ Parts(next) /\ next.pc = "walk" /\ next.stack = survey.stack
      /\ next.queue = Tail(survey.queue) /\ next.probes = survey.probes
      /\ next.effectors = survey.effectors /\ next.gaps = survey.gaps
  <2>1. Parts(next)
    <3>1. PICK n : n = next
      OBVIOUS
    <3>2. Parts(n)
      BY <1>2, <3>1
    <3> QED
      BY <3>1, <3>2
  <2>2. /\ next.pc = survey.pc /\ next.stack = survey.stack
        /\ next.queue = Tail(survey.queue) /\ next.probes = survey.probes
        /\ next.effectors = survey.effectors /\ next.gaps = survey.gaps
    BY <1>2
  <2> QED
    BY <1>1, <2>1, <2>2
<1> HIDE DEF next
<1>5. CASE survey.entries >= MaxEntries
  <2>1. /\ survey'.pc = "walk" /\ Parts(survey') /\ survey'.queue = <<>> /\ survey'.stack = <<>>
        /\ survey'.probes = survey.probes /\ survey'.gaps = survey.gaps \cup {<<"too many entries">>}
    BY <1>1, <1>2, <1>5
  <2>2. ~ Clean(survey)'
    BY <2>1 DEF Clean, has_external_effector
  <2>3. survey'.stack \in Seq(PathSet \cup {<<>>}) /\ survey'.queue \in Seq(PathSet)
    <3>1. survey'.queue = <<>> /\ survey'.stack = <<>>
      BY <2>1
    <3> QED
      BY <3>1
  <2>4. SurveyShape'
    BY <1>1, <1>2, <2>1, <2>3 DEF SurveyShape
  <2> QED
    BY <2>1, <2>2, <2>4 DEF SurveyInv, WalkCovers, Concluded
<1>7. CASE ~ (survey.entries >= MaxEntries) /\ ~ Present(path)
  <2>1. survey' = [next EXCEPT !.gaps = @ \cup {path}]
    BY <1>1, <1>7
  <2>2. /\ survey'.pc = "walk" /\ Parts(survey') /\ survey'.queue = Tail(survey.queue)
        /\ survey'.stack = survey.stack
        /\ survey'.probes = survey.probes /\ survey'.gaps = survey.gaps \cup {path}
    BY <1>4, <2>1
  <2>3. ~ Clean(survey)'
    BY <2>2 DEF Clean, has_external_effector
  <2>4. SurveyShape'
    BY <1>1, <1>2, <1>3, <2>2 DEF SurveyShape
  <2> QED
    BY <2>2, <2>3, <2>4 DEF SurveyInv, WalkCovers, Concluded
<1>8. CASE ~ (survey.entries >= MaxEntries) /\ Present(path) /\ thing.type = "dir"
           /\ stops_the_walk(classify(thing.marks))
  <2>1. survey' = [next EXCEPT !.gaps = @ \cup {g \in {path} : classify(thing.marks) = "Unreadable"}]
    BY <1>1, <1>8
  <2>2. /\ survey'.pc = "walk" /\ Parts(survey') /\ survey'.queue = Tail(survey.queue)
        /\ survey'.stack = survey.stack /\ survey'.probes = survey.probes
        /\ survey'.effectors = survey.effectors /\ survey.gaps \subseteq survey'.gaps
    BY <1>4, <2>1
  <2>3. Clean(survey)' => Clean(survey)
    BY <2>2 DEF Clean, has_external_effector
  <2>4. SurveyShape' /\ Concluded'
    BY <1>1, <1>2, <1>3, <2>2 DEF SurveyShape, Concluded
  <2>5. ASSUME NEW f \in PathSet, Stood(f), path \in {f} \cup Parents(f) PROVE Harmless(f)'
    <3>1. CASE f = path
      BY <1>1, <1>8, <3>1 DEF Harmless, IsRead
    <3>2. CASE path \in Parents(f)
      BY <1>3, <1>8, <2>5, <3>2 DEF Stood, Elsewhere
    <3> QED
      BY <2>5, <3>1, <3>2
  <2>6. survey'.probes >= survey.probes
    BY <1>2, <2>2
  <2> QED
    BY <1>0, <1>1, <2>2, <2>3, <2>4, <2>5, <2>6, ExaminedRest
<1>9. CASE ~ (survey.entries >= MaxEntries) /\ Present(path) /\ thing.type = "dir"
           /\ ~ stops_the_walk(classify(thing.marks))
  <2>1. survey' = [next EXCEPT !.stack = Append(@, path)]
    BY <1>1, <1>9
  <2>2. /\ survey'.pc = "walk" /\ Parts(survey') /\ survey'.queue = Tail(survey.queue)
        /\ survey'.stack = Append(survey.stack, path) /\ survey'.probes = survey.probes
        /\ survey'.effectors = survey.effectors /\ survey'.gaps = survey.gaps
    BY <1>4, <2>1
  <2>3. Clean(survey)' => Clean(survey)
    BY <2>2 DEF Clean, has_external_effector
  <2>4. survey'.stack \in Seq(PathSet \cup {<<>>})
    BY <1>2, <1>3, <2>2
  <2>5. SurveyShape' /\ Concluded'
    BY <1>1, <1>2, <1>3, <2>2, <2>4 DEF SurveyShape, Concluded
  <2>6. Range(survey'.stack) = Range(survey.stack) \cup {path}
    BY <1>2, <2>2, RangeAppend
  <2>7. ASSUME NEW f \in PathSet, path \in {f} \cup Parents(f)
        PROVE  Harmless(f)' \/ \E d \in {f} \cup Parents(f) : Ahead(d)'
    <3>1. CASE f = path
      BY <1>1, <1>9, <3>1 DEF Harmless, IsRead
    <3>2. CASE path \in Parents(f)
      <4>1. PICK d \in {f} \cup Parents(f) : directory(d) = path
        BY <3>2, LevelBelow, TreeAssumption
      <4> QED
        BY <2>6, <4>1 DEF Ahead
    <3> QED
      BY <2>7, <3>1, <3>2
  <2>8. survey'.probes >= survey.probes
    BY <1>2, <2>2
  <2> QED
    BY <1>0, <1>1, <2>2, <2>3, <2>5, <2>6, <2>7, <2>8, ExaminedRest
<1>10. ASSUME Present(path), thing.type # "dir", NEW f \in PathSet, Stood(f),
              path \in {f} \cup Parents(f)
       PROVE  f = path
  BY <1>10 DEF Stood, Standing
<1>11. CASE ~ (survey.entries >= MaxEntries) /\ Present(path)
            /\ thing.type = "link" /\ thing.leads # "file"
  <2>1. survey' = [next EXCEPT !.gaps = @ \cup uncovered(thing)]
    BY <1>1, <1>11
  <2>2. /\ survey'.pc = "walk" /\ Parts(survey') /\ survey'.queue = Tail(survey.queue)
        /\ survey'.stack = survey.stack /\ survey'.probes = survey.probes
        /\ survey'.effectors = survey.effectors /\ survey'.gaps = survey.gaps \cup uncovered(thing)
    BY <1>4, <2>1
  <2>3. /\ Clean(survey)' => Clean(survey)
        /\ Clean(survey)' => thing.leads # "outside"
    BY <1>11, <2>2 DEF Clean, has_external_effector, uncovered
  <2>4. SurveyShape' /\ Concluded'
    BY <1>1, <1>2, <1>3, <2>2 DEF SurveyShape, Concluded
  <2>5. Clean(survey)' => Harmless(path)'
    BY <1>1, <1>11, <2>3 DEF Harmless, IsRead
  <2>6. survey'.probes >= survey.probes
    BY <1>2, <2>2
  <2> QED
    BY <1>0, <1>1, <1>10, <1>11, <2>2, <2>3, <2>4, <2>5, <2>6, ExaminedRest
<1>12. CASE ~ (survey.entries >= MaxEntries) /\ Present(path) /\ thing.type # "dir"
            /\ ~ (thing.type = "link" /\ thing.leads # "file")
  <2> DEFINE probed == is_yaml(path) /\ survey.probes < MaxProbes
             hits   == IF probed /\ Reads(path) THEN ApiGroups(thing.lines) ELSE {}
  <2>1. survey' = look(next, path)
    BY <1>1, <1>12
  <2>2. /\ survey'.pc = "walk" /\ Parts(survey') /\ survey'.queue = Tail(survey.queue)
        /\ survey'.stack = survey.stack
        /\ survey'.probes = survey.probes + (IF probed THEN 1 ELSE 0)
        /\ survey'.effectors = survey.effectors \cup filename_marker(path) \cup hits
        /\ survey'.gaps = survey.gaps \cup {g \in {path} : probed /\ ~ Reads(path)}
    BY <1>4, <2>1 DEF look
  <2>3. Clean(survey)' => /\ Clean(survey) /\ filename_marker(path) = {} /\ hits = {}
                          /\ ~ (probed /\ ~ Reads(path))
    <3> HIDE DEF hits, probed
    <3> QED
      BY <2>2 DEF Clean, has_external_effector
  <2>4. survey'.probes \in Nat /\ survey'.probes >= survey.probes
    BY <1>2, <2>2
  <2>5. SurveyShape' /\ Concluded'
    BY <1>1, <1>2, <1>3, <2>2, <2>4 DEF SurveyShape, Concluded
  <2>6. ASSUME Clean(survey)' PROVE Harmless(path)'
    <3>1. CASE probed
      BY <1>1, <1>12, <2>3, <2>6, <3>1 DEF Harmless, IsRead, Reads
    <3>2. CASE ~ probed
      <4>1. is_yaml(path) => survey'.probes >= MaxProbes
        <5>1. survey'.probes = survey.probes
          BY <1>2, <2>2, <3>2
        <5>2. is_yaml(path) => ~ (survey.probes < MaxProbes)
          BY <3>2
        <5>3. PICK n : n = survey.probes
          OBVIOUS
        <5> QED
          BY <1>2, <5>1, <5>2, <5>3, StateAssumption
      <4> QED
        BY <1>1, <1>12, <2>3, <2>6, <4>1 DEF Harmless, IsRead
    <3> QED
      BY <3>1, <3>2
  <2> QED
    BY <1>0, <1>1, <1>10, <1>12, <2>2, <2>3, <2>4, <2>5, <2>6, ExaminedRest
<1> QED
  BY <1>5, <1>7, <1>8, <1>9, <1>11, <1>12

LEMMA SurveyKeeps == SurveyInv /\ survey_in => SurveyInv'
BY ProbeKeeps, ListKeeps, ExamineKeeps, FinishKeeps DEF survey_in

(* What the user moves stood for nothing any more.                         *)
LEMMA MoveKeepsSurvey ==
  ASSUME SurveyInv, NEW moved \in PathSet, Move(moved), UNCHANGED survey
  PROVE  SurveyInv'
<1>1. aux_moved' = aux_moved \cup {moved} /\ \E thing : tree' = [tree EXCEPT ![moved] = thing]
  BY DEF Move
<1>2. DOMAIN tree = PathSet /\ DOMAIN tree' = PathSet
  BY <1>1 DEF SurveyInv, SurveyShape
<1>3. ASSUME NEW f \in PathSet, Stood(f)'
      PROVE  Stood(f) /\ tree'[f] = tree[f] /\ Harmless(f)' = Harmless(f)
  <2>1. Untouched(f) /\ moved \notin {f} \cup Parents(f)
    BY <1>1, <1>3 DEF Stood, Untouched
  <2>2. \A d \in {f} \cup Parents(f) : d \in PathSet /\ tree'[d] = tree[d]
    BY <1>1, <1>2, <2>1, TreeAssumption
  <2>3. Stood(f)
    BY <1>3, <2>1, <2>2 DEF Stood, Standing, Elsewhere
  <2>4. Harmless(f)' = Harmless(f)
    BY <2>2 DEF Harmless, IsRead
  <2> QED
    BY <2>2, <2>3, <2>4
<1>4. \A d : Ahead(d)' = Ahead(d)
  BY DEF Ahead
<1>5. Clean(survey)' = Clean(survey)
  BY DEF Clean, has_external_effector
<1>6. SurveyShape'
  BY <1>2 DEF SurveyInv, SurveyShape
<1>7. WalkCovers'
  BY <1>3, <1>4, <1>5 DEF SurveyInv, WalkCovers
<1>8. Concluded'
  BY <1>3, <1>5 DEF SurveyInv, Concluded
<1> QED
  BY <1>6, <1>7, <1>8 DEF SurveyInv

LEMMA RestKeepsSurvey ==
  ASSUME SurveyInv, UNCHANGED <<tree, aux_moved, survey>>
  PROVE  SurveyInv'
<1>1. \A f : Stood(f)' = Stood(f) /\ Harmless(f)' = Harmless(f) /\ Ahead(f)' = Ahead(f)
  BY StillStood DEF Ahead
<1>2. Clean(survey)' = Clean(survey)
  BY DEF Clean, has_external_effector
<1>3. SurveyShape' /\ WalkCovers' /\ Concluded'
  BY <1>1, <1>2 DEF SurveyInv, SurveyShape, WalkCovers, Concluded
<1> QED
  BY <1>3 DEF SurveyInv

(* A claim only gets through after the survey, and a survey that is over   *)
(* is not begun again.                                                     *)
LEMMA StepKeeps1 == Inv1 /\ Gate1Steps => Inv1'
<1> SUFFICES ASSUME Inv1, Gate1Steps PROVE Inv1'
  OBVIOUS
<1> USE DEF Inv1
<1>0. survey.pc \in {"stores", "walk", "surveyed"} /\ RunShape /\ SurveyFirst
  BY DEF SurveyInv, SurveyShape
<1>a. ASSUME UNCHANGED <<tree, aux_moved, survey>>, RunShape', SurveyFirst'
      PROVE  Inv1'
  BY <1>a, RestKeepsSurvey
<1>b. ASSUME UNCHANGED survey PROVE Clean(survey)' = Clean(survey)
  BY <1>b DEF Clean, has_external_effector
<1>1. ASSUME NEW mode, NEW claims, Begin1(mode, claims) PROVE Inv1'
  <2>1. gate1' = NewRun(mode, claims) /\ UNCHANGED <<tree, aux_moved, survey>>
    BY <1>1 DEF Begin1
  <2>2. RunShape' /\ gate1'.pc = "survey" /\ gate1'.survived = {}
    BY <2>1 DEF RunShape, NewRun
  <2> QED
    BY <1>a, <2>1, <2>2 DEF SurveyFirst
<1>2. ASSUME Fails, UNCHANGED <<tree, aux_moved, survey>> PROVE Inv1'
  <2>1. RunShape' /\ gate1'.pc = "error" /\ gate1'.survived = {}
    BY <1>0, <1>2 DEF Fails, RunShape
  <2> QED
    BY <1>a, <1>2, <2>1 DEF SurveyFirst
<1>3. CASE Survey
  <2>1. gate1.pc = "survey" /\ survey_in /\ UNCHANGED gate1
    BY <1>3 DEF Survey
  <2>2. SurveyInv'
    BY <2>1, SurveyKeeps
  <2> QED
    BY <1>0, <2>1, <2>2 DEF RunShape, SurveyFirst
<1>4. CASE Surveyed
  <2>1. /\ gate1.pc = "survey" /\ survey.pc = "surveyed" /\ UNCHANGED <<tree, aux_moved, survey>>
        /\ gate1' = [gate1 EXCEPT !.pc = "build"]
    BY <1>4 DEF Surveyed
  <2>2. RunShape' /\ gate1'.pc = "build" /\ gate1'.survived = gate1.survived
    BY <1>0, <2>1 DEF RunShape
  <2> QED
    BY <1>0, <1>a, <2>1, <2>2 DEF SurveyFirst
<1>5. CASE Build
  <2>1. UNCHANGED <<tree, aux_moved, survey, gate1>>
    <3>1. UNCHANGED <<survey, gate1>> /\ build
      BY <1>5 DEF Build
    <3>2. UNCHANGED treeVars
      BY <3>1 DEF build, descend, descend_fails, read_attributes, read_submodules
    <3> QED
      BY <3>1, <3>2 DEF treeVars
  <2> QED
    BY <1>0, <1>a, <1>b, <2>1 DEF RunShape, SurveyFirst
<1>6. CASE Built
  <2>1. /\ gate1.pc = "build" /\ UNCHANGED <<tree, aux_moved, survey>>
        /\ gate1' = [gate1 EXCEPT !.pc = "judge"]
    BY <1>6 DEF Built
  <2>2. RunShape' /\ gate1'.pc = "judge" /\ gate1'.survived = gate1.survived
    BY <1>0, <2>1 DEF RunShape
  <2> QED
    BY <1>0, <1>a, <1>b, <2>1, <2>2 DEF SurveyFirst
<1>7. CASE Judge
  <2> DEFINE claim == Head(gate1.left)
             path  == CHOOSE p \in claim.site : TRUE
  <2>1. gate1.pc = "judge" /\ UNCHANGED <<tree, aux_moved, survey>>
    BY <1>7 DEF Judge
  <2>2. PICK answer \in CheckIgnore[path] :
          LET found == judge(path, claim.spelling) \cup contract_classify(path, answer)
          IN  IF "Error" \in found THEN Fails
              ELSE IF found = {}
                THEN gate1' = [gate1 EXCEPT !.left = Tail(@), !.survived = @ \cup {claim}]
              ELSE gate1' = [gate1 EXCEPT !.left = Tail(@),
                                          !.refused = Append(@, record(claim, found))]
    BY <1>7 DEF Judge
  <2>3. PICK found : found = judge(path, claim.spelling) \cup contract_classify(path, answer)
    OBVIOUS
  <2>4. CASE Fails
    BY <1>2, <2>1, <2>4
  <2>5. CASE found = {} /\ gate1' = [gate1 EXCEPT !.left = Tail(@), !.survived = @ \cup {claim}]
    <3>1. RunShape' /\ gate1'.pc = "judge"
      BY <1>0, <2>1, <2>5 DEF RunShape
    <3>2. judge(path, claim.spelling) = {}
      BY <2>3, <2>5
    <3>3. {c \in {"1a"} : has_external_effector(survey)} = {}
      BY <3>2 DEF judge, state_judge
    <3>4. Clean(survey)
      BY <3>3 DEF Clean
    <3> QED
      BY <1>0, <1>a, <1>b, <2>1, <3>1, <3>4 DEF SurveyFirst
  <2>6. CASE gate1' = [gate1 EXCEPT !.left = Tail(@), !.refused = Append(@, record(claim, found))]
    <3>1. RunShape' /\ gate1'.pc = "judge" /\ gate1'.survived = gate1.survived
      BY <1>0, <2>1, <2>6 DEF RunShape
    <3> QED
      BY <1>0, <1>a, <1>b, <2>1, <3>1 DEF SurveyFirst
  <2> QED
    BY <2>2, <2>3, <2>4, <2>5, <2>6
<1>8. CASE JudgeUnattributed
  <2>1. gate1.pc = "judge" /\ UNCHANGED <<tree, aux_moved, survey>>
    BY <1>8 DEF JudgeUnattributed
  <2>2. RunShape' /\ gate1'.pc = "judge" /\ gate1'.survived = gate1.survived
    BY <1>0, <1>8, <2>1 DEF JudgeUnattributed, RunShape
  <2> QED
    BY <1>0, <1>a, <1>b, <2>1, <2>2 DEF SurveyFirst
<1>9. CASE Report
  <2>1. gate1.pc = "judge" /\ UNCHANGED <<tree, aux_moved, survey>>
    BY <1>9 DEF Report
  <2>2. RunShape' /\ gate1'.pc = "done" /\ gate1'.survived = gate1.survived
    BY <1>0, <1>9 DEF Report, RunShape
  <2> QED
    BY <1>0, <1>a, <1>b, <2>1, <2>2 DEF SurveyFirst
<1>10. CASE DiscoverFails \/ BuildFails
  BY <1>2, <1>10 DEF DiscoverFails, BuildFails
<1>11. CASE run \/ explain
  BY <1>1, <1>11 DEF run, explain
<1> QED
  BY <1>3, <1>4, <1>5, <1>6, <1>7, <1>8, <1>9, <1>10, <1>11 DEF Gate1Steps

LEMMA Inductive1 == Inv1 /\ [Gate1Next]_gate1Vars => Inv1'
<1> SUFFICES ASSUME Inv1, Gate1Next \/ UNCHANGED gate1Vars PROVE Inv1'
  OBVIOUS
<1>a. UNCHANGED <<survey, gate1>> => (RunShape /\ SurveyFirst => RunShape' /\ SurveyFirst')
  BY DEF RunShape, SurveyFirst, Clean, has_external_effector
<1>1. CASE Gate1Steps
  BY <1>1, StepKeeps1
<1>2. CASE UserMoves
  BY <1>2, <1>a, MoveKeepsSurvey DEF UserMoves, Inv1
<1>3. CASE UNCHANGED gate1Vars
  BY <1>3, <1>a, RestKeepsSurvey DEF gate1Vars, Inv1
<1> QED
  BY <1>1, <1>2, <1>3 DEF Gate1Next

LEMMA Initially1 == Gate1Init => Inv1
<1> SUFFICES ASSUME Gate1Init PROVE Inv1
  OBVIOUS
<1>1. DOMAIN tree = PathSet
  BY DEF Gate1Init, TreeInit
<1>2. /\ survey = NewSurvey /\ survey.pc = "stores" /\ survey.stack = <<>> /\ survey.queue = <<>>
      /\ survey.probes = 0
  BY DEF Gate1Init, NewSurvey
<1>3. SurveyShape
  <2>1. survey = [pc |-> survey.pc, stack |-> survey.stack, queue |-> survey.queue,
                  entries |-> survey.entries, probes |-> survey.probes,
                  effectors |-> survey.effectors, stores |-> survey.stores, gaps |-> survey.gaps]
    BY <1>2 DEF NewSurvey
  <2> QED
    BY <1>1, <1>2, <2>1 DEF SurveyShape
<1>4. SurveyInv
  BY <1>2, <1>3 DEF SurveyInv, WalkCovers, Concluded
<1>5. RunShape /\ gate1.pc = "idle" /\ gate1.survived = {}
  BY DEF Gate1Init, NewRun, RunShape
<1> QED
  BY <1>4, <1>5 DEF Inv1, SurveyFirst

(* A claim survives only in a tree without effectors: none that stood      *)
(* untouched was overlooked, behind a limit, a link or a directory that    *)
(* could not be listed (NoEffectorUnseen).                                 *)
THEOREM Unseen == Gate1Spec => []NoEffectorUnseen
<1>1. Inv1 => NoEffectorUnseen
  <2> SUFFICES ASSUME Inv1, gate1.survived # {}, NEW f \in PathSet,
                      Untouched(f), Standing(f), ~ Elsewhere(f)
               PROVE  /\ ~ (tree[f].type = "link" /\ tree[f].leads = "outside")
                      /\ IsRead(f) =>
                           /\ filename_marker(f) = {}
                           /\ is_yaml(f) => tree[f].readable /\ ApiGroups(tree[f].lines) = {}
    BY DEF NoEffectorUnseen, IsRead
  <2>1. survey.pc = "surveyed" /\ Clean(survey)
    BY DEF Inv1, SurveyFirst
  <2>2. survey.probes < MaxProbes /\ Harmless(f)
    BY <2>1 DEF Inv1, SurveyInv, Concluded, Stood
  <2>3. ~ (survey.probes >= MaxProbes)
    BY <2>2, StateAssumption DEF Inv1, SurveyInv, SurveyShape
  <2> QED
    BY <2>2, <2>3 DEF Harmless
<1> QED
  BY <1>1, Initially1, Inductive1, PTL DEF Gate1Spec

-----------------------------------------------------------------------------
(* The file system the gates walk.  f is one, over the names S.            *)
FileSystem(f, S) ==
  /\ DOMAIN f \subseteq Seq(S)
  /\ Nowhere \notin DOMAIN f
  /\ \A p \in DOMAIN f : f[p].type \in {"none", "dir", "file", "locked", "link"} /\ f[p].to \in Seq(S)

LEMMA NodeTyped ==
  ASSUME NEW S, NEW f, FileSystem(f, S), NEW p
  PROVE  /\ At0(f, p).type \in {"none", "dir", "file", "locked", "link"}
         /\ At0(f, p).to \in Seq(S)
         /\ At0(f, Nowhere).type = "none" /\ At0(f, <<>>).type = "dir"
<1>1. Nowhere # <<>>
  BY DEF Nowhere
<1> QED
  BY <1>1 DEF FileSystem, At0, Node

(* Where a path is first not a plain directory.                            *)
FirstTurn(f, p, i) ==
  /\ i \in 1 .. Len(p) /\ i = Min(Turns(f, p))
  /\ p[i] = ".." \/ At0(f, Upto(p, i)).type # "dir"
  /\ \A k \in 1 .. i - 1 : p[k] # ".." /\ At0(f, Upto(p, k)).type = "dir"

LEMMA TurnIs ==
  ASSUME NEW S, NEW f, NEW p \in Seq(S)
  PROVE  /\ Turns(f, p) # {} => \E i : FirstTurn(f, p, i)
         /\ \A i \in 1 .. Len(p) :
              /\ p[i] = ".." \/ At0(f, Upto(p, i)).type # "dir"
              /\ \A k \in 1 .. i - 1 : p[k] # ".." /\ At0(f, Upto(p, k)).type = "dir"
              => Turns(f, p) # {} /\ FirstTurn(f, p, i)
<1> DEFINE T == Turns(f, p)
<1>1. T \subseteq Nat /\ T \subseteq 1 .. Len(p) /\ Len(p) \in Nat /\ T \subseteq Int
  BY DEF Turns
<1>2. \A k \in 1 .. Len(p) : k \in T <=> p[k] = ".." \/ At0(f, Upto(p, k)).type # "dir"
  BY DEF Turns
<1> HIDE DEF T
<1>3. ASSUME NEW i \in T, \A k \in T : i <= k
      PROVE  i = Min(T) /\ \A k \in 1 .. i - 1 : k \notin T /\ k \in 1 .. Len(p)
  <2>1. Min(T) = i
    BY <1>1, <1>3, MinIs
  <2> QED
    BY <1>1, <1>3, <2>1
<1>4. ASSUME T # {} PROVE \E i : FirstTurn(f, p, i)
  <2>1. PICK i \in T : \A k \in T : i <= k
    BY <1>1, <1>4, LeastNatural
  <2>2. i \in 1 .. Len(p) /\ i = Min(T) /\ \A k \in 1 .. i - 1 : k \notin T /\ k \in 1 .. Len(p)
    BY <1>1, <1>3, <2>1
  <2>3. FirstTurn(f, p, i)
    BY <1>2, <2>1, <2>2 DEF FirstTurn, T
  <2> QED
    BY <2>3
<1>5. ASSUME NEW i \in 1 .. Len(p),
             p[i] = ".." \/ At0(f, Upto(p, i)).type # "dir",
             \A k \in 1 .. i - 1 : p[k] # ".." /\ At0(f, Upto(p, k)).type = "dir"
      PROVE  T # {} /\ FirstTurn(f, p, i)
  <2>1. i \in T
    BY <1>2, <1>5
  <2>2. \A k \in T : i <= k
    <3> SUFFICES ASSUME NEW k \in T, k < i PROVE FALSE
      BY <1>1, <2>1
    <3>1. k \in 1 .. i - 1 /\ k \in 1 .. Len(p)
      BY <1>1
    <3> QED
      BY <1>2, <1>5, <3>1
  <2>3. i = Min(T)
    BY <1>3, <2>1, <2>2
  <2> QED
    BY <1>5, <2>1, <2>3 DEF FirstTurn, T
<1> QED
  BY <1>4, <1>5 DEF T

(* One step of the walk: to where a link leads, back over a "..", or none. *)
TurnTaken(f, p, i) ==
  /\ i \in 1 .. Len(p) /\ Len(p) \in Nat /\ Turns(f, p) # {}
  /\ p[i] = ".." => Max({0, i - 2}) \in 0 .. i /\ Hop(f, p) = Upto(p, Max({0, i - 2})) \o Rest(p, i)
  /\ p[i] # ".." /\ At0(f, Upto(p, i)).type = "link" => Hop(f, p) = At0(f, Upto(p, i)).to \o Rest(p, i)
  /\ p[i] # ".." /\ At0(f, Upto(p, i)).type # "link" => Hop(f, p) = p

LEMMA HopTurn ==
  ASSUME NEW S, NEW f, NEW p \in Seq(S), NEW i, FirstTurn(f, p, i)
  PROVE  TurnTaken(f, p, i)
<1>1. i \in 1 .. Len(p) /\ i = Min(Turns(f, p)) /\ Len(p) \in Nat
  BY DEF FirstTurn
<1>2. i \in Turns(f, p)
  BY DEF FirstTurn, Turns
<1>3. Max({0, i - 2}) \in 0 .. i
  <2>1. {0, i - 2} \subseteq Int
    BY <1>1
  <2>2. CASE i < 2
    <3>1. \A x \in {0, i - 2} : x <= 0
      BY <1>1, <2>2
    <3>2. Max({0, i - 2}) = 0
      BY <2>1, <3>1, MaxIs
    <3> QED
      BY <1>1, <3>2
  <2>3. CASE i >= 2
    <3>1. i - 2 \in {0, i - 2} /\ \A x \in {0, i - 2} : x <= i - 2
      BY <1>1, <2>3
    <3>2. Max({0, i - 2}) = i - 2
      BY <2>1, <3>1, MaxIs
    <3> QED
      BY <1>1, <2>3, <3>2
  <2> QED
    BY <1>1, <2>2, <2>3
<1>4. p[i] = ".." => Hop(f, p) = Upto(p, Max({0, i - 2})) \o Rest(p, i)
  BY <1>1, <1>2 DEF Hop
<1>5. p[i] # ".." => Hop(f, p) = IF At0(f, Upto(p, i)).type = "link" THEN At0(f, Upto(p, i)).to \o Rest(p, i) ELSE p
  BY <1>1, <1>2 DEF Hop
<1> QED
  BY <1>1, <1>2, <1>3, <1>4, <1>5 DEF TurnTaken

LEMMA HopIs ==
  ASSUME NEW S, NEW f, FileSystem(f, S), NEW p \in Seq(S)
  PROVE  /\ Hop(f, p) \in Seq(S)
         /\ Turns(f, p) = {} => Hop(f, p) = p
<1>1. Turns(f, p) = {} => Hop(f, p) = p
  BY DEF Hop
<1>2. CASE Turns(f, p) # {}
  <2>1. PICK i : FirstTurn(f, p, i)
    BY <1>2, TurnIs
  <2>0. TurnTaken(f, p, i)
    BY <2>1, HopTurn
  <2>2. i \in 1 .. Len(p) /\ Len(p) \in Nat
    BY <2>0 DEF TurnTaken
  <2>3. Rest(p, i) \in Seq(S) /\ \A m \in 0 .. i : Upto(p, m) \in Seq(S)
    BY <2>2 DEF Rest, Upto
  <2>4. At0(f, Upto(p, i)).to \in Seq(S)
    BY NodeTyped
  <2>5. \A s, t \in Seq(S) : s \o t \in Seq(S)
    OBVIOUS
  <2> QED
    BY <2>0, <2>3, <2>4, <2>5 DEF TurnTaken
<1> QED
  BY <1>1, <1>2

(* The walk ends where it takes no step any more.                          *)
LEMMA EndTurn ==
  ASSUME NEW S, NEW f, FileSystem(f, S), NEW p \in Seq(S), NEW i, FirstTurn(f, p, i)
  PROVE  /\ Ending(f, p) \in {"none", "file", "locked", "error"}
         /\ Ending(f, p) # "error" => Hop(f, p) = p /\ p[i] # ".."
         /\ Ending(f, p) \in {"file", "locked"} => i = Len(p) /\ At0(f, Upto(p, i)).type = Ending(f, p)
         /\ Ending(f, p) = "none" => At0(f, Upto(p, i)).type = "none"
         /\ p[i] # ".." /\ At0(f, Upto(p, i)).type # "link" =>
              IF i = Len(p) \/ At0(f, Upto(p, i)).type = "none"
                THEN Ending(f, p) = At0(f, Upto(p, i)).type ELSE Ending(f, p) = "error"
<1>0. TurnTaken(f, p, i)
  BY HopTurn
<1>1. i = Min(Turns(f, p)) /\ (p[i] = ".." \/ At0(f, Upto(p, i)).type # "dir")
  BY DEF FirstTurn
<1>2. At0(f, Upto(p, i)).type \in {"none", "dir", "file", "locked", "link"}
  BY NodeTyped
<1>3. Ending(f, p) = IF p[i] = ".." \/ At0(f, Upto(p, i)).type = "link" THEN "error"
                     ELSE IF i = Len(p) \/ At0(f, Upto(p, i)).type = "none"
                     THEN At0(f, Upto(p, i)).type ELSE "error"
  <2>1. Turns(f, p) # {}
    BY <1>0 DEF TurnTaken
  <2> QED
    BY <1>1, <2>1 DEF Ending
<1>4. p[i] # ".." /\ At0(f, Upto(p, i)).type # "link" => Hop(f, p) = p
  BY <1>0 DEF TurnTaken
<1> QED
  BY <1>1, <1>2, <1>3, <1>4

LEMMA Settled ==
  ASSUME NEW S, NEW f, FileSystem(f, S), NEW p \in Seq(S)
  PROVE  /\ Ending(f, p) \in {"none", "dir", "file", "locked", "error"}
         /\ Ending(f, p) # "error" => Hop(f, p) = p
         /\ Ending(f, p) = "dir" <=> Turns(f, p) = {}
<1>1. CASE Turns(f, p) = {}
  <2>1. Ending(f, p) = "dir" /\ Hop(f, p) = p
    BY <1>1, HopIs DEF Ending
  <2> QED
    BY <1>1, <2>1
<1>2. CASE Turns(f, p) # {}
  <2>1. PICK i : FirstTurn(f, p, i)
    BY <1>2, TurnIs
  <2> QED
    BY <1>2, <2>1, EndTurn
<1> QED
  BY <1>1, <1>2

(* w is the walk that starts at p.                                         *)
Walk(w, f, p, S) ==
  /\ w \in [0 .. Hops -> Seq(S)]
  /\ w[0] = p
  /\ \A n \in 1 .. Hops : w[n] = Hop(f, w[n - 1])

LEMMA Walks ==
  ASSUME NEW S, NEW f, FileSystem(f, S), NEW p \in Seq(S), Hops \in Nat
  PROVE  \E w : Walk(w, f, p, S) /\ Followed(f, p) = w[Hops]
<1> DEFINE N == Hops
           Values == Seq(S)
           hop(q) == Hop(f, q)
           G == [n \in 1 .. N |-> [q \in Values |-> hop(q)]]
           Is(g) == g = [n \in 0 .. N |-> IF n = 0 THEN p ELSE hop(g[n - 1])]
           w == CHOOSE g : Is(g)
<1>1. Followed(f, p) = w[N]
  BY DEF Followed
<1>2. \A q \in Values : hop(q) \in Values
  BY HopIs
<1>3. /\ w \in [0 .. N -> Values]
      /\ w[0] = p
      /\ \A n \in 1 .. N : w[n] = hop(w[n - 1])
  <2>0. N \in Nat /\ p \in Values
    OBVIOUS
  <2> HIDE DEF N, Values, hop
  <2>1. PICK g : Solves(g, N, Values, p, G)
    <3>1. G \in [1 .. N -> [Values -> Values]]
      BY <1>2
    <3> HIDE DEF G
    <3> QED
      BY <2>0, <3>1, Recursion
  <2>2. Is(g)
    BY <2>0, <2>1, Steps DEF Solves
  <2>3. Is(w)
    <3> HIDE DEF Is
    <3> QED
      BY <2>2
  <2> HIDE DEF w
  <2>4. w[0] = p /\ \A n \in 1 .. N : w[n] = hop(w[n - 1])
    BY <2>0, <2>3, Steps
  <2> DEFINE T == {n \in 0 .. N : w[n] \in Values}
  <2>5. 0 \in T /\ \A n \in 0 .. N - 1 : n \in T => n + 1 \in T
    BY <2>0, <1>2, <2>4, Steps
  <2>6. \A n \in 0 .. N : n \in T
    <3> HIDE DEF T
    <3> QED
      BY <2>0, <2>5, Upwards
  <2> QED
    BY <2>3, <2>4, <2>6
<1> HIDE DEF w
<1> QED
  BY <1>1, <1>3 DEF Walk

(* A walk that has come to a path goes on as the walk that starts there,   *)
(* and one that takes no step at a path stays there.                       *)
LEMMA WalkStays ==
  ASSUME NEW S, NEW f, FileSystem(f, S), NEW p \in Seq(S), Hops \in Nat,
         NEW w, Walk(w, f, p, S), NEW m \in 0 .. Hops, Hop(f, w[m]) = w[m]
  PROVE  \A n \in m .. Hops : w[n] = w[m]
<1> DEFINE T == {n \in 0 .. Hops : n >= m => w[n] = w[m]}
<1>1. 0 \in T
  OBVIOUS
<1>2. ASSUME NEW n \in 0 .. Hops - 1, n \in T PROVE n + 1 \in T
  <2> SUFFICES ASSUME n + 1 > m PROVE w[n + 1] = w[m]
    BY <1>2
  <2>1. w[n + 1] = Hop(f, w[n])
    BY Steps DEF Walk
  <2>2. n >= m
    OBVIOUS
  <2> QED
    BY <1>2, <2>1, <2>2
<1>3. \A n \in 0 .. Hops : n \in T
  <2> HIDE DEF T
  <2> QED
    BY <1>1, <1>2, Upwards
<1> QED
  BY <1>3

LEMMA FromThere ==
  ASSUME NEW S, NEW f, FileSystem(f, S), NEW p \in Seq(S), Hops \in Nat,
         NEW w, Walk(w, f, p, S), NEW m \in 0 .. Hops, Hop(f, w[Hops]) = w[Hops]
  PROVE  Followed(f, w[m]) = w[Hops]
<1>1. w[m] \in Seq(S)
  BY DEF Walk
<1>2. PICK v : Walk(v, f, w[m], S) /\ Followed(f, w[m]) = v[Hops]
  BY <1>1, Walks
<1> DEFINE R == Hops - m
           T == {n \in 0 .. R : v[n] = w[m + n]}
<1>3. R \in Nat /\ 0 \in T
  BY <1>2 DEF Walk
<1>4. ASSUME NEW n \in 0 .. R - 1, n \in T PROVE n + 1 \in T
  <2>1. n + 1 \in 1 .. Hops /\ m + n + 1 \in 1 .. Hops /\ (n + 1) - 1 = n /\ (m + n + 1) - 1 = m + n
    OBVIOUS
  <2>2. v[n + 1] = Hop(f, v[n]) /\ w[m + n + 1] = Hop(f, w[m + n])
    BY <1>2, <2>1 DEF Walk
  <2> QED
    BY <1>4, <2>1, <2>2
<1>5. \A n \in 0 .. R : n \in T
  <2> HIDE DEF T, R
  <2> QED
    BY <1>3, <1>4, Upwards
<1>6. R \in 0 .. Hops /\ v[R] = w[Hops]
  BY <1>3, <1>5
<1>7. Hop(f, v[R]) = v[R]
  BY <1>6
<1>8. v[Hops] = v[R]
  BY <1>1, <1>2, <1>6, <1>7, WalkStays
<1> QED
  BY <1>2, <1>6, <1>8

(* Where no step is to be taken, the walk stays.                           *)
LEMMA Fixed ==
  ASSUME NEW S, NEW f, FileSystem(f, S), NEW p \in Seq(S), Hops \in Nat, Hop(f, p) = p
  PROVE  Followed(f, p) = p /\ stat(f, p) = Ending(f, p)
<1>1. PICK w : Walk(w, f, p, S) /\ Followed(f, p) = w[Hops]
  BY Walks
<1>2. 0 \in 0 .. Hops /\ w[0] = p /\ Hops \in 0 .. Hops
  BY <1>1 DEF Walk
<1>3. w[Hops] = p
  BY <1>1, <1>2, WalkStays
<1> QED
  BY <1>1, <1>3 DEF stat

(* What ends otherwise than in an error has come to rest.                  *)
LEMMA AtRest ==
  ASSUME NEW S, NEW f, FileSystem(f, S), NEW p \in Seq(S), Hops \in Nat, stat(f, p) # "error"
  PROVE  /\ Followed(f, p) \in Seq(S) /\ Hop(f, Followed(f, p)) = Followed(f, p)
         /\ Followed(f, Followed(f, p)) = Followed(f, p)
         /\ stat(f, Followed(f, p)) = stat(f, p)
<1>1. Followed(f, p) \in Seq(S)
  <2>1. PICK w : Walk(w, f, p, S) /\ Followed(f, p) = w[Hops]
    BY Walks
  <2> QED
    BY <2>1 DEF Walk
<1>2. Hop(f, Followed(f, p)) = Followed(f, p)
  BY <1>1, Settled DEF stat
<1>3. Followed(f, Followed(f, p)) = Followed(f, p)
  BY <1>1, <1>2, Fixed
<1> QED
  BY <1>1, <1>2, <1>3 DEF stat

(* What is there has one name of its own, without links and "..", and     *)
(* what was found is at it.                                                *)
LEMMA Resolved ==
  ASSUME NEW S, NEW f, FileSystem(f, S), NEW p \in Seq(S), Hops \in Nat
  PROVE  /\ canonicalize(f, p) # Nowhere <=> stat(f, p) \in {"dir", "file", "locked"}
         /\ canonicalize(f, p) # Nowhere =>
              /\ canonicalize(f, p) = Followed(f, p) /\ Followed(f, p) \in Seq(S)
              /\ canonicalize(f, Followed(f, p)) = Followed(f, p)
              /\ At0(f, Followed(f, p)).type = stat(f, p)
<1> DEFINE q == Followed(f, p)
<1> SUFFICES ASSUME stat(f, p) \in {"dir", "file", "locked"}
             PROVE  /\ q # Nowhere /\ q \in Seq(S) /\ canonicalize(f, q) = q
                    /\ At0(f, q).type = stat(f, p)
  BY DEF canonicalize
<1>1. q \in Seq(S) /\ Followed(f, q) = q /\ stat(f, q) = stat(f, p) /\ Ending(f, q) = stat(f, p)
  <2>1. stat(f, p) # "error"
    OBVIOUS
  <2>2. q \in Seq(S) /\ Followed(f, q) = q /\ stat(f, q) = stat(f, p)
    BY <2>1, AtRest
  <2> QED
    BY <2>2 DEF stat
<1> HIDE DEF q
<1>2. q \in Seq(S) /\ Len(q) \in Nat /\ (q # <<>> => Len(q) \in 1 .. Len(q)) /\ Upto(q, Len(q)) = q
  BY <1>1 DEF Upto
<1>3. At0(f, q).type = stat(f, p)
  <2>1. CASE stat(f, p) = "dir"
    <3>1. Turns(f, q) = {}
      BY <1>1, <2>1, Settled
    <3>2. q # <<>> => At0(f, Upto(q, Len(q))).type = "dir"
      BY <1>2, <3>1 DEF Turns
    <3> QED
      BY <1>2, <2>1, <3>2, NodeTyped
  <2>2. CASE stat(f, p) # "dir"
    <3>1. Turns(f, q) # {}
      BY <1>1, <2>2, Settled
    <3>2. PICK i : FirstTurn(f, q, i)
      BY <1>2, <3>1, TurnIs
    <3>3. i = Len(q) /\ At0(f, Upto(q, i)).type = stat(f, p)
      BY <1>1, <1>2, <3>2, EndTurn
    <3> QED
      BY <1>2, <3>3
  <2> QED
    BY <2>1, <2>2
<1>4. q # Nowhere
  BY <1>3, NodeTyped
<1>5. canonicalize(f, q) = q
  BY <1>1 DEF canonicalize
<1> QED
  BY <1>1, <1>3, <1>4, <1>5

-----------------------------------------------------------------------------
LEMMA LongerTail ==
  ASSUME NEW S, NEW s \in Seq(S), NEW t \in Seq(S), NEW x \in S
  PROVE  s \o Append(t, x) = Append(s \o t, x)
  OBVIOUS

(* One more name at the end of a path.                                     *)
LEMMA OneMore ==
  ASSUME NEW S, NEW p \in Seq(S), NEW x \in S
  PROVE  /\ Append(p, x) \in Seq(S) /\ Append(p, x) # <<>>
         /\ Len(p) \in Nat /\ Len(Append(p, x)) = Len(p) + 1
         /\ Last(Append(p, x)) = x /\ Append(p, x)[Len(p) + 1] = x /\ Front(Append(p, x)) = p
         /\ Upto(Append(p, x), Len(p) + 1) = Append(p, x)
         /\ \A k \in 1 .. Len(p) : Append(p, x)[k] = p[k]
         /\ \A k \in 0 .. Len(p) : /\ Upto(Append(p, x), k) = Upto(p, k)
                                   /\ Rest(Append(p, x), k) = Append(Rest(p, k), x)
                                   /\ Rest(p, k) \in Seq(S) /\ Upto(p, k) \in Seq(S)
<1>1. /\ Append(p, x) \in Seq(S) /\ Append(p, x) # <<>>
      /\ Len(p) \in Nat /\ Len(Append(p, x)) = Len(p) + 1
  OBVIOUS
<1>2. Last(Append(p, x)) = x /\ Append(p, x)[Len(p) + 1] = x /\ Front(Append(p, x)) = p
  BY <1>1 DEF Last, Front
<1>3. \A k \in 1 .. Len(p) : Append(p, x)[k] = p[k]
  OBVIOUS
<1>4. ASSUME NEW k \in 0 .. Len(p)
      PROVE  /\ Upto(Append(p, x), k) = Upto(p, k) /\ Rest(Append(p, x), k) = Append(Rest(p, k), x)
             /\ Rest(p, k) \in Seq(S) /\ Upto(p, k) \in Seq(S)
  <2>1. Rest(p, k) \in Seq(S) /\ Upto(p, k) \in Seq(S)
    BY DEF Rest, Upto
  <2>2. Upto(Append(p, x), k) = Upto(p, k)
    BY DEF Upto
  <2>3. SubSeq(Append(p, x), k + 1, Len(p) + 1) = Append(SubSeq(p, k + 1, Len(p)), x)
    <3> DEFINE s == SubSeq(Append(p, x), k + 1, Len(p) + 1)
               t == Append(SubSeq(p, k + 1, Len(p)), x)
               N == Len(p) - k
    <3>1. N \in Nat /\ s \in Seq(S) /\ Len(s) = N + 1 /\ t \in Seq(S) /\ Len(t) = N + 1
      OBVIOUS
    <3>2. \A j \in 1 .. N + 1 : s[j] = IF k + j = Len(p) + 1 THEN x ELSE p[k + j]
      OBVIOUS
    <3>3. \A j \in 1 .. N + 1 : t[j] = IF j = N + 1 THEN x ELSE p[k + j]
      OBVIOUS
    <3>4. \A j \in 1 .. N + 1 : s[j] = t[j]
      <4> SUFFICES ASSUME NEW j \in 1 .. N + 1 PROVE s[j] = t[j]
        OBVIOUS
      <4>1. k + j = Len(p) + 1 <=> j = N + 1
        OBVIOUS
      <4> HIDE DEF s, t, N
      <4>2. s[j] = IF j = N + 1 THEN x ELSE p[k + j]
        BY <3>2, <4>1
      <4>3. t[j] = IF j = N + 1 THEN x ELSE p[k + j]
        BY <3>3
      <4> QED
        BY <4>2, <4>3
    <3> HIDE DEF s, t, N
    <3>5. s = t
      BY <3>1, <3>4, SeqEqual
    <3> QED
      BY <3>5 DEF s, t
  <2> QED
    BY <1>1, <2>1, <2>2, <2>3 DEF Rest
<1>5. Upto(Append(p, x), Len(p) + 1) = Append(p, x)
  BY <1>1 DEF Upto
<1> QED
  BY <1>1, <1>2, <1>3, <1>4, <1>5

(* The walk goes on as before while there is a step to take, ...           *)
LEMMA LongerHop ==
  ASSUME NEW S, NEW f, FileSystem(f, S), NEW p \in Seq(S), NEW x \in S, Turns(f, p) # {}
  PROVE  Hop(f, Append(p, x)) = Append(Hop(f, p), x)
<1> DEFINE a == Append(p, x)
<1>1. PICK i : FirstTurn(f, p, i)
  BY TurnIs
<1>2. i \in 1 .. Len(p) /\ i \in 0 .. Len(p) /\ Len(p) \in Nat
  BY <1>1 DEF FirstTurn
<1>3. /\ a \in Seq(S) /\ i \in 1 .. Len(a) /\ \A k \in 1 .. i : a[k] = p[k] /\ Upto(a, k) = Upto(p, k)
      /\ Rest(a, i) = Append(Rest(p, i), x) /\ Rest(p, i) \in Seq(S)
  <2>1. a \in Seq(S) /\ i \in 1 .. Len(a) /\ \A k \in 1 .. Len(p) : a[k] = p[k]
    BY <1>2, OneMore
  <2>2. \A k \in 0 .. Len(p) : Upto(a, k) = Upto(p, k)
    BY OneMore
  <2>3. Rest(a, i) = Append(Rest(p, i), x) /\ Rest(p, i) \in Seq(S)
    BY <1>2, OneMore
  <2>4. \A k \in 1 .. i : k \in 1 .. Len(p) /\ k \in 0 .. Len(p)
    BY <1>2
  <2> HIDE DEF a
  <2> QED
    BY <2>1, <2>2, <2>3, <2>4
<1> HIDE DEF a
<1>4. FirstTurn(f, a, i)
  <2>1. p[i] = ".." \/ At0(f, Upto(p, i)).type # "dir"
    BY <1>1 DEF FirstTurn
  <2>2. \A k \in 1 .. i - 1 : p[k] # ".." /\ At0(f, Upto(p, k)).type = "dir" /\ k \in 1 .. i
    BY <1>1, <1>2 DEF FirstTurn
  <2>3. a[i] = ".." \/ At0(f, Upto(a, i)).type # "dir"
    BY <1>2, <1>3, <2>1
  <2>4. \A k \in 1 .. i - 1 : a[k] # ".." /\ At0(f, Upto(a, k)).type = "dir"
    BY <1>3, <2>2
  <2> QED
    BY <1>3, <2>3, <2>4, TurnIs
<1>5. a[i] = p[i] /\ Upto(a, i) = Upto(p, i)
  BY <1>2, <1>3
<1>t. TurnTaken(f, p, i) /\ TurnTaken(f, a, i)
  BY <1>1, <1>3, <1>4, HopTurn
<1>6. CASE p[i] = ".."
  <2>1. PICK m : m = Max({0, i - 2})
    OBVIOUS
  <2>2. m \in 0 .. i /\ Hop(f, p) = Upto(p, m) \o Rest(p, i) /\ Hop(f, a) = Upto(a, m) \o Rest(a, i)
    BY <1>t, <1>5, <1>6, <2>1 DEF TurnTaken
  <2>3. m \in 0 .. Len(p)
    BY <1>2, <2>2
  <2>4. Upto(a, m) = Upto(p, m) /\ Upto(p, m) \in Seq(S)
    BY <2>3, OneMore DEF a
  <2>5. Upto(p, m) \o Append(Rest(p, i), x) = Append(Upto(p, m) \o Rest(p, i), x)
    BY <1>3, <2>4, LongerTail
  <2> QED
    BY <1>3, <2>2, <2>4, <2>5 DEF a
<1>7. CASE p[i] # ".." /\ At0(f, Upto(p, i)).type = "link"
  <2>1. Hop(f, p) = At0(f, Upto(p, i)).to \o Rest(p, i)
    BY <1>t, <1>5, <1>7 DEF TurnTaken
  <2>2. Hop(f, a) = At0(f, Upto(p, i)).to \o Rest(a, i)
    BY <1>t, <1>5, <1>7 DEF TurnTaken
  <2>3. PICK to \in Seq(S) : to = At0(f, Upto(p, i)).to
    BY NodeTyped
  <2>4. to \o Append(Rest(p, i), x) = Append(to \o Rest(p, i), x)
    BY <1>3, LongerTail
  <2> QED
    BY <1>3, <2>1, <2>2, <2>3, <2>4 DEF a
<1>8. CASE p[i] # ".." /\ At0(f, Upto(p, i)).type # "link"
  <2>1. Hop(f, p) = p
    BY <1>t, <1>5, <1>8 DEF TurnTaken
  <2>2. Hop(f, a) = a
    BY <1>t, <1>5, <1>8 DEF TurnTaken
  <2> QED
    BY <2>1, <2>2 DEF a
<1> QED
  BY <1>6, <1>7, <1>8 DEF a

(* ... and so comes to the name in the directory that the rest leads to.   *)
LEMMA Arrives ==
  ASSUME NEW S, NEW f, FileSystem(f, S), NEW p \in Seq(S), NEW x \in S, Hops \in Nat,
         stat(f, p) = "dir", NEW w, Walk(w, f, Append(p, x), S)
  PROVE  \E m \in 0 .. Hops : w[m] = Append(Followed(f, p), x)
<1>1. PICK v : Walk(v, f, p, S) /\ Followed(f, p) = v[Hops]
  BY Walks
<1> DEFINE D == {n \in 0 .. Hops : Turns(f, v[n]) = {}}
<1>2. Hops \in D /\ D \subseteq Nat
  <2>1. v[Hops] \in Seq(S) /\ Hops \in 0 .. Hops
    BY <1>1 DEF Walk
  <2>2. Ending(f, v[Hops]) = "dir"
    BY <1>1 DEF stat
  <2> QED
    BY <2>1, <2>2, Settled
<1>3. PICK m \in D : \A n \in D : m <= n
  <2> HIDE DEF D
  <2> QED
    BY <1>2, LeastNatural
<1>4. m \in 0 .. Hops /\ m \in Nat /\ v[m] \in Seq(S) /\ Hop(f, v[m]) = v[m]
  <2>1. m \in 0 .. Hops /\ Turns(f, v[m]) = {}
    BY <1>3
  <2>2. v[m] \in Seq(S)
    BY <1>1, <2>1 DEF Walk
  <2> QED
    BY <2>1, <2>2, HopIs
<1>5. v[m] = Followed(f, p)
  <2>1. Hops \in m .. Hops
    BY <1>4
  <2> QED
    BY <1>1, <1>4, <2>1, WalkStays
<1> DEFINE T == {n \in 0 .. m : w[n] = Append(v[n], x)}
<1>6. 0 \in T
  BY <1>1, <1>4 DEF Walk
<1>7. ASSUME NEW n \in 0 .. m - 1, n \in T PROVE n + 1 \in T
  <2>1. n \in 0 .. Hops /\ n + 1 \in 1 .. Hops /\ (n + 1) - 1 = n /\ n + 1 \in 0 .. m
    BY <1>4
  <2>2. Turns(f, v[n]) # {}
    <3>1. n \notin D
      BY <1>3, <1>4
    <3> QED
      BY <2>1, <3>1
  <2>3. v[n] \in Seq(S) /\ v[n + 1] = Hop(f, v[n]) /\ w[n + 1] = Hop(f, w[n])
    BY <1>1, <2>1 DEF Walk
  <2>4. Hop(f, Append(v[n], x)) = Append(Hop(f, v[n]), x)
    BY <2>2, <2>3, LongerHop
  <2> QED
    BY <1>7, <2>1, <2>3, <2>4
<1>8. \A n \in 0 .. m : n \in T
  <2> HIDE DEF T
  <2> QED
    BY <1>4, <1>6, <1>7, Upwards
<1>9. w[m] = Append(v[m], x)
  BY <1>4, <1>8
<1> QED
  BY <1>4, <1>5, <1>9

(* A name in a directory that is called as it is: what is there decides.   *)
LEMMA Leaf ==
  ASSUME NEW S, NEW f, FileSystem(f, S), NEW q \in Seq(S), NEW x \in S, Hops \in Nat,
         Turns(f, q) = {}, x # ".."
  PROVE  LET g == Append(q, x) IN
         /\ At0(f, g).type # "link" =>
              Followed(f, g) = g /\ stat(f, g) = At0(f, g).type /\ Hop(f, g) = g
         /\ At0(f, g).type = "dir" => Turns(f, g) = {}
         /\ At0(f, g).type # "dir" => FirstTurn(f, g, Len(g))
<1> DEFINE g == Append(q, x)
           L == Len(q) + 1
<1>1. /\ g \in Seq(S) /\ Len(g) = L /\ g[L] = x /\ Upto(g, L) = g /\ Len(q) \in Nat
      /\ \A k \in 1 .. Len(q) : g[k] = q[k] /\ Upto(g, k) = Upto(q, k)
  BY OneMore
<1>2. \A k \in 1 .. L - 1 : g[k] # ".." /\ At0(f, Upto(g, k)).type = "dir"
  <2>1. \A k \in 1 .. Len(q) : q[k] # ".." /\ At0(f, Upto(q, k)).type = "dir"
    BY DEF Turns
  <2> QED
    BY <1>1, <2>1
<1> HIDE DEF g
<1>3. CASE At0(f, g).type = "dir"
  <2>1. \A k \in 1 .. Len(g) : g[k] # ".." /\ At0(f, Upto(g, k)).type = "dir"
    BY <1>1, <1>2, <1>3
  <2>2. Turns(f, g) = {}
    BY <1>1, <2>1 DEF Turns
  <2>3. Ending(f, g) = "dir" /\ Hop(f, g) = g
    BY <1>1, <2>2, HopIs, Settled
  <2> QED
    <3>1. Followed(f, g) = g /\ stat(f, g) = Ending(f, g)
      BY <1>1, <2>3, Fixed
    <3> QED
      BY <1>3, <2>2, <2>3, <3>1 DEF g
<1>4. CASE At0(f, g).type # "dir"
  <2>1. L \in 1 .. Len(g) /\ At0(f, Upto(g, L)).type # "dir"
    BY <1>1, <1>4
  <2>2. FirstTurn(f, g, L)
    BY <1>1, <1>2, <2>1, TurnIs
  <2>3. CASE At0(f, g).type # "link"
    <3>1. g[L] # ".." /\ At0(f, Upto(g, L)).type # "link" /\ L = Len(g)
      BY <1>1, <2>3
    <3>t. TurnTaken(f, g, L)
      BY <1>1, <2>2, HopTurn
    <3>2. Hop(f, g) = g /\ Ending(f, g) = At0(f, g).type
      BY <1>1, <2>2, <3>1, <3>t, EndTurn DEF TurnTaken
    <3>3. Followed(f, g) = g /\ stat(f, g) = Ending(f, g)
      BY <1>1, <3>2, Fixed
    <3> QED
      BY <1>1, <1>4, <2>2, <3>2, <3>3 DEF g
  <2> QED
    BY <1>1, <1>4, <2>2, <2>3 DEF g
<1> QED
  BY <1>3, <1>4 DEF g

(* What is called by a name in a directory there is, by whatever way.      *)
LEMMA Named ==
  ASSUME NEW S, NEW f, FileSystem(f, S), NEW p \in Seq(S), NEW x \in S, Hops \in Nat,
         stat(f, p) = "dir", x # ".."
  PROVE  LET a == Append(p, x)
             g == Append(Followed(f, p), x)
         IN  /\ Place(f, a) = g /\ g \in Seq(S) /\ lstat(f, a) = At0(f, g).type
             /\ At0(f, g).type # "link" => Followed(f, a) = g /\ stat(f, a) = At0(f, g).type
             /\ stat(f, a) # "error" => stat(f, g) = stat(f, a)
<1> DEFINE a == Append(p, x)
           q == Followed(f, p)
           g == Append(q, x)
<1>1. q \in Seq(S) /\ Turns(f, q) = {}
  <2>1. q \in Seq(S)
    BY AtRest
  <2> QED
    BY <2>1, Settled DEF stat
<1>2. a \in Seq(S) /\ g \in Seq(S) /\ a # <<>> /\ Last(a) = x /\ Front(a) = p
  BY <1>1, OneMore
<1>3. Place(f, a) = g /\ lstat(f, a) = At0(f, g).type
  <2>1. Place(f, a) = g
    BY <1>2 DEF Place
  <2>2. lstat(f, a) = At0(f, Place(f, a)).type
    BY <1>2 DEF lstat
  <2> QED
    BY <2>1, <2>2
<1>4. PICK w : Walk(w, f, a, S) /\ Followed(f, a) = w[Hops]
  BY <1>2, Walks
<1>5. PICK m \in 0 .. Hops : w[m] = g
  BY <1>4, Arrives
<1> HIDE DEF a
<1>6. At0(f, g).type # "link" => Followed(f, a) = g /\ stat(f, a) = At0(f, g).type
  <2> SUFFICES ASSUME At0(f, g).type # "link"
               PROVE  Followed(f, a) = g /\ stat(f, a) = At0(f, g).type
    OBVIOUS
  <2>1. Followed(f, g) = g /\ stat(f, g) = At0(f, g).type /\ Hop(f, g) = g
    BY <1>1, Leaf
  <2> HIDE DEF g
  <2>2. Hops \in m .. Hops
    OBVIOUS
  <2>3. w[Hops] = g
    BY <1>2, <1>4, <1>5, <2>1, <2>2, WalkStays
  <2> QED
    BY <1>4, <2>1, <2>3 DEF stat
<1>7. stat(f, a) # "error" => stat(f, g) = stat(f, a)
  <2> SUFFICES ASSUME stat(f, a) # "error" PROVE stat(f, g) = stat(f, a)
    OBVIOUS
  <2> HIDE DEF g
  <2>1. Hop(f, w[Hops]) = w[Hops]
    BY <1>2, <1>4, AtRest
  <2>2. Followed(f, g) = w[Hops]
    BY <1>2, <1>4, <1>5, <2>1, FromThere
  <2> QED
    BY <1>4, <2>2 DEF stat
<1> QED
  BY <1>2, <1>3, <1>6, <1>7 DEF a

-----------------------------------------------------------------------------
(* The root of the file system is there, and so a longest part of a path.  *)
LEMMA RootIsThere ==
  ASSUME NEW S, NEW f, FileSystem(f, S), Hops \in Nat
  PROVE  /\ Followed(f, <<>>) = <<>> /\ stat(f, <<>>) = "dir"
         /\ canonicalize(f, <<>>) = <<>> /\ canonicalize(f, <<>>) # Nowhere
<1>1. <<>> \in Seq(S)
  OBVIOUS
<1>2. Turns(f, <<>>) = {}
  BY DEF Turns
<1>3. Hop(f, <<>>) = <<>> /\ Ending(f, <<>>) = "dir"
  <2>1. Hop(f, <<>>) = <<>>
    BY <1>2 DEF Hop
  <2>2. Ending(f, <<>>) = "dir"
    BY <1>2 DEF Ending
  <2> QED
    BY <2>1, <2>2
<1>4. Followed(f, <<>>) = <<>> /\ stat(f, <<>>) = "dir"
  BY <1>1, <1>3, Fixed
<1> QED
  BY <1>4 DEF canonicalize, Nowhere

LEMMA ResolveThere ==
  ASSUME NEW S, NEW f, FileSystem(f, S), NEW p \in Seq(S), Hops \in Nat, canonicalize(f, p) # Nowhere
  PROVE  resolve(f, p) = canonicalize(f, p)
<1> DEFINE T == {i \in 0 .. Len(p) : canonicalize(f, Upto(p, i)) # Nowhere}
<1>1. Len(p) \in Nat /\ Upto(p, Len(p)) = p /\ Rest(p, Len(p)) = <<>>
  BY DEF Upto, Rest
<1>2. Max(T) = Len(p)
  <2>1. T \subseteq Int /\ Len(p) \in T /\ \A i \in T : i <= Len(p)
    BY <1>1
  <2> HIDE DEF T
  <2> QED
    BY <2>1, MaxIs
<1>3. Range(<<>>) = {}
  BY DEF Range
<1>4. canonicalize(f, p) \in Seq(S)
  BY Resolved
<1>5. canonicalize(f, p) \o <<>> = canonicalize(f, p)
  BY <1>4
<1> QED
  BY <1>1, <1>2, <1>3, <1>5 DEF resolve

LEMMA ResolveAbove ==
  ASSUME NEW S, NEW f, FileSystem(f, S), NEW d \in Seq(S), NEW x \in S, Hops \in Nat, x # "..",
         canonicalize(f, d) # Nowhere, canonicalize(f, Append(d, x)) = Nowhere
  PROVE  resolve(f, Append(d, x)) = Append(canonicalize(f, d), x)
<1> DEFINE p == Append(d, x)
           T == {i \in 0 .. Len(p) : canonicalize(f, Upto(p, i)) # Nowhere}
<1>1. /\ Len(d) \in Nat /\ Len(p) = Len(d) + 1 /\ Upto(p, Len(d)) = d /\ Upto(p, Len(d) + 1) = p
      /\ Rest(p, Len(d)) = <<x>>
  <2>1. Rest(d, Len(d)) = <<>>
    BY DEF Rest
  <2>2. Rest(p, Len(d)) = Append(<<>>, x)
    <3>1. Len(d) \in 0 .. Len(d)
      OBVIOUS
    <3>2. Rest(Append(d, x), Len(d)) = Append(Rest(d, Len(d)), x)
      BY <3>1, OneMore
    <3> QED
      BY <2>1, <3>2
  <2>3. Upto(d, Len(d)) = d
    BY DEF Upto
  <2> QED
    BY <2>2, <2>3, OneMore
<1>2. Max(T) = Len(d)
  <2>1. T \subseteq Int /\ Len(d) \in T
    BY <1>1
  <2>2. \A i \in T : i <= Len(d)
    <3> SUFFICES ASSUME NEW i \in T, i > Len(d) PROVE FALSE
      BY <1>1
    <3>1. i = Len(d) + 1
      BY <1>1
    <3> QED
      BY <1>1, <3>1
  <2> HIDE DEF T
  <2> QED
    BY <2>1, <2>2, MaxIs
<1>3. ".." \notin Range(<<x>>)
  BY DEF Range
<1>4. canonicalize(f, d) \in Seq(S)
  BY Resolved
<1>5. canonicalize(f, d) \o <<x>> = Append(canonicalize(f, d), x)
  BY <1>4
<1> HIDE DEF p
<1>6. resolve(f, p) = canonicalize(f, Upto(p, Len(d))) \o Rest(p, Len(d))
  BY <1>1, <1>2, <1>3 DEF resolve
<1> QED
  BY <1>1, <1>5, <1>6 DEF p

(* A path is empty, or a name in a directory.                              *)
LEMMA EmptyOrNamed ==
  ASSUME NEW S, NEW p \in Seq(S), p # <<>>
  PROVE  /\ Front(p) \in Seq(S) /\ Last(p) \in S /\ p = Append(Front(p), Last(p))
         /\ \A x \in Range(Front(p)) : x \in Range(p)
         /\ Last(p) \in Range(p)
<1>1. Len(p) \in Nat /\ Len(p) # 0
  OBVIOUS
<1>2. Front(p) \in Seq(S) /\ Last(p) \in S
  BY <1>1 DEF Front, Last
<1>3. p = Append(Front(p), Last(p))
  BY <1>1 DEF Front, Last
<1>4. \A k \in DOMAIN Front(p) : k \in DOMAIN p /\ Front(p)[k] = p[k]
  BY <1>1 DEF Front
<1>5. Len(p) \in DOMAIN p
  BY <1>1
<1> QED
  BY <1>2, <1>3, <1>4, <1>5 DEF Range, Last

(* Gate 0e compares what will be removed: where a path that was found to   *)
(* be no link with something behind it leads is what is removed by it.     *)
Goes(f, p, slash) == IF slash THEN canonicalize(f, p) ELSE Place(f, p)

LEMMA ComparedIsRemoved ==
  ASSUME NEW S, NEW f, FileSystem(f, S), NEW p \in Seq(S), NEW slash, Hops \in Nat,
         At0(f, Goes(f, p, slash)).type # "none",
         lstat(f, p) = "link" => ~ slash /\ stat(f, p) = "none"
  PROVE  /\ resolve(f, p) = Goes(f, p, slash)
         /\ At0(f, Goes(f, p, slash)).type = "link" =>
              lstat(f, p) = "link" /\ stat(f, Goes(f, p, slash)) = "none"
<1> DEFINE gone == Goes(f, p, slash)
<1>1. gone # Nowhere
  BY NodeTyped
<1>2. CASE gone = canonicalize(f, p)
  <2>1. stat(f, p) \in {"dir", "file", "locked"} /\ At0(f, gone).type = stat(f, p)
    BY <1>1, <1>2, Resolved
  <2>2. resolve(f, p) = gone
    BY <1>1, <1>2, ResolveThere
  <2> QED
    BY <2>1, <2>2
<1>3. CASE gone # canonicalize(f, p)
  <2>1. ~ slash /\ gone = Place(f, p) /\ p # <<>> /\ Last(p) # ".."
    BY <1>3 DEF Goes, Place
  <2> DEFINE d == Front(p)
             x == Last(p)
  <2>2. d \in Seq(S) /\ x \in S /\ x # ".." /\ p = Append(d, x)
    BY <2>1, EmptyOrNamed
  <2>3. stat(f, d) = "dir" /\ gone = Append(Followed(f, d), x)
    BY <1>1, <2>1 DEF Place
  <2> HIDE DEF d, x, gone
  <2>4. /\ lstat(f, p) = At0(f, gone).type
        /\ At0(f, gone).type # "link" => Followed(f, p) = gone /\ stat(f, p) = At0(f, gone).type
        /\ stat(f, p) # "error" => stat(f, gone) = stat(f, p)
    BY <2>2, <2>3, Named
  <2>5. At0(f, gone).type = "link"
    <3> SUFFICES ASSUME At0(f, gone).type # "link" PROVE FALSE
      OBVIOUS
    <3>1. Followed(f, p) = gone /\ stat(f, p) \in {"dir", "file", "locked"}
      BY <2>4, NodeTyped DEF gone
    <3> QED
      BY <1>3, <3>1 DEF canonicalize
  <2>6. stat(f, p) = "none" /\ canonicalize(f, p) = Nowhere
    BY <2>4, <2>5 DEF canonicalize
  <2>7. canonicalize(f, d) = Followed(f, d) /\ canonicalize(f, d) # Nowhere
    BY <2>2, <2>3, Resolved
  <2>8. resolve(f, p) = gone
    BY <2>2, <2>3, <2>6, <2>7, ResolveAbove
  <2> QED
    BY <2>4, <2>5, <2>6, <2>8 DEF gone
<1> QED
  BY <1>2, <1>3

(* A path that does not go back through ".." and has no link in it, below  *)
(* a directory that is called as it is, is what it is called.              *)
LEMMA Plain ==
  ASSUME NEW S, NEW f, FileSystem(f, S), NEW p \in Seq(S), Hops \in Nat,
         NEW i \in 1 .. Len(p), p[i] # "..",
         \A k \in 1 .. i - 1 : p[k] # ".." /\ At0(f, Upto(p, k)).type = "dir"
  PROVE  lstat(f, Upto(p, i)) = At0(f, Upto(p, i)).type
<1> DEFINE b == Upto(p, i - 1)
           x == p[i]
<1>1. /\ b \in Seq(S) /\ x \in S /\ x # ".." /\ Len(b) = i - 1 /\ Upto(p, i) = Append(b, x)
      /\ \A k \in 1 .. Len(b) : b[k] = p[k] /\ Upto(b, k) = Upto(p, k)
  <2>1. i \in Nat /\ Len(p) \in Nat /\ i <= Len(p) /\ i >= 1
    OBVIOUS
  <2>2. b \in Seq(S) /\ x \in S /\ x # ".." /\ Len(b) = i - 1
    BY <2>1 DEF Upto
  <2>3. Upto(p, i) = Append(b, x)
    BY <2>1, <2>2 DEF Upto
  <2>4. \A k \in 1 .. Len(b) : b[k] = p[k] /\ Upto(b, k) = Upto(p, k)
    BY <2>1, <2>2 DEF Upto
  <2> QED
    BY <2>2, <2>3, <2>4
<1> HIDE DEF b, x
<1>2. Turns(f, b) = {}
  BY <1>1 DEF Turns
<1>3. Followed(f, b) = b /\ stat(f, b) = "dir"
  <2>1. Hop(f, b) = b /\ Ending(f, b) = "dir"
    BY <1>1, <1>2, HopIs, Settled
  <2> QED
    BY <1>1, <2>1, Fixed
<1>4. lstat(f, Append(b, x)) = At0(f, Append(b, x)).type
  BY <1>1, <1>3, Named
<1> QED
  BY <1>1, <1>4

LEMMA BelowRoot ==
  ASSUME NEW S, NEW root \in Seq(S), NEW p \in Seq(S), IsPrefix(root, p)
  PROVE  /\ Len(root) \in Nat /\ Len(root) <= Len(p)
         /\ \A k \in 1 .. Len(root) : k \in 1 .. Len(p) /\ p[k] = root[k] /\ Upto(p, k) = Upto(root, k)
<1>1. Len(root) \in Nat /\ Len(p) \in Nat /\ Len(root) <= Len(p) /\ SubSeq(root, 1, Len(root)) = SubSeq(p, 1, Len(root))
  BY DEF IsPrefix
<1>2. root = Upto(p, Len(root))
  BY <1>1 DEF Upto
<1>3. \A k \in 1 .. Len(root) : k \in 1 .. Len(p) /\ p[k] = Upto(p, Len(root))[k] /\ Upto(Upto(p, Len(root)), k) = Upto(p, k)
  BY <1>1 DEF Upto
<1> QED
  BY <1>1, <1>2, <1>3

LEMMA CalledAsItIs ==
  ASSUME NEW S, NEW f, FileSystem(f, S), NEW p \in Seq(S), NEW slash, Hops \in Nat,
         NEW root \in Seq(S), Turns(f, root) = {},
         At0(f, Goes(f, p, slash)).type # "none",
         lstat(f, p) = "link" => ~ slash /\ stat(f, p) = "none",
         linked_ancestor(f, root, p) \notin {"error", "link"},
         ".." \notin Range(p)
  PROVE  Goes(f, p, slash) = p /\ IsPrefix(root, p)
<1>1. IsPrefix(root, p)
  BY DEF linked_ancestor
<1>2. Goes(f, p, slash) # Nowhere
  BY NodeTyped
<1>3. CASE p = <<>>
  <2>1. Place(f, p) = canonicalize(f, p)
    BY <1>3 DEF Place
  <2> QED
    BY <1>1, <1>3, <2>1, RootIsThere DEF Goes
<1>4. CASE p # <<>>
  <2> DEFINE d == Front(p)
             x == Last(p)
  <2>1. /\ d \in Seq(S) /\ x \in S /\ p = Append(d, x) /\ x # ".." /\ Len(d) \in Nat /\ Len(p) = Len(d) + 1
        /\ d = Front(p) /\ x = Last(p)
    BY <1>4, EmptyOrNamed
  <2>2. \A k \in 1 .. Len(p) : p[k] # ".."
    BY DEF Range
  <2> HIDE DEF d, x
  <2>3. \A k \in 1 .. Len(d) : k \in 1 .. Len(p) /\ d[k] = p[k] /\ Upto(p, k) = Upto(d, k)
    BY <2>1, OneMore
  <2>4. Turns(f, d) = {}
    <3> SUFFICES ASSUME Turns(f, d) # {} PROVE FALSE
      OBVIOUS
    <3>1. PICK i : FirstTurn(f, d, i)
      BY <2>1, TurnIs
    <3>2. /\ i \in 1 .. Len(d) /\ i \in 1 .. Len(p) /\ i < Len(p) /\ d[i] # ".." /\ p[i] # ".."
          /\ Upto(p, i) = Upto(d, i) /\ At0(f, Upto(p, i)).type # "dir"
      BY <2>1, <2>2, <2>3, <3>1 DEF FirstTurn
    <3>3. \A k \in 1 .. i - 1 : k \in 1 .. Len(p) /\ p[k] # ".." /\ At0(f, Upto(p, k)).type = "dir"
      <4> SUFFICES ASSUME NEW k \in 1 .. i - 1
                   PROVE  k \in 1 .. Len(p) /\ p[k] # ".." /\ At0(f, Upto(p, k)).type = "dir"
        OBVIOUS
      <4>1. k \in 1 .. Len(d)
        BY <2>1, <3>2
      <4> QED
        BY <2>2, <2>3, <3>1, <4>1 DEF FirstTurn
    <3>4. FirstTurn(f, p, i)
      BY <3>2, <3>3, TurnIs
    <3>5. CASE At0(f, Upto(p, i)).type = "link"
      <4> DEFINE odd == {k \in Len(root) + 1 .. Len(p) - 1 : lstat(f, Upto(p, k)) \in {"link", "none", "error"}}
      <4>1. lstat(f, Upto(p, i)) = "link"
        BY <3>2, <3>3, <3>5, Plain
      <4>2. Len(root) \in Nat /\ i > Len(root)
        <5>1. \A k \in 1 .. Len(root) : At0(f, Upto(root, k)).type = "dir"
          BY DEF Turns
        <5> QED
          BY <1>1, <3>2, <5>1, BelowRoot
      <4>3. i \in odd
        BY <2>1, <3>2, <4>1, <4>2
      <4>4. odd \subseteq Int
        BY <4>2
      <4>5. \A k \in odd : i <= k
        <5> SUFFICES ASSUME NEW k \in odd, k < i PROVE FALSE
          BY <4>3, <4>4
        <5>1. k \in 1 .. i - 1 /\ k \in 1 .. Len(p) /\ lstat(f, Upto(p, k)) # "dir"
          BY <3>2, <4>2
        <5>2. \A j \in 1 .. k - 1 : p[j] # ".." /\ At0(f, Upto(p, j)).type = "dir"
          <6>1. k \in Nat /\ i \in Nat /\ \A j \in 1 .. k - 1 : j \in 1 .. i - 1
            BY <3>2, <5>1
          <6> QED
            BY <3>3, <6>1
        <5>3. lstat(f, Upto(p, k)) = At0(f, Upto(p, k)).type
          BY <3>3, <5>1, <5>2, Plain
        <5> QED
          BY <3>3, <5>1, <5>3
      <4>6. Min(odd) = i
        <5> HIDE DEF odd
        <5> QED
          BY <4>3, <4>4, <4>5, MinIs
      <4>7. linked_ancestor(f, root, p) = lstat(f, Upto(p, i))
        BY <1>1, <4>3, <4>6 DEF linked_ancestor
      <4> QED
        BY <4>1, <4>7
    <3>6. CASE At0(f, Upto(p, i)).type # "link"
      <4>1. TurnTaken(f, d, i) /\ TurnTaken(f, p, i)
        BY <2>1, <3>1, <3>4, HopTurn
      <4>2. Hop(f, d) = d /\ Hop(f, p) = p
        BY <3>2, <3>6, <4>1 DEF TurnTaken
      <4>3. Ending(f, d) # "dir"
        BY <2>1, <3>1, <4>1, Settled DEF TurnTaken
      <4>4. Ending(f, p) \notin {"dir", "file", "locked"}
        BY <3>2, <3>4, <3>6, EndTurn
      <4>5. stat(f, d) # "dir" /\ stat(f, p) \notin {"dir", "file", "locked"}
        <5>1. stat(f, d) = Ending(f, d)
          BY <2>1, <4>2, Fixed
        <5>2. stat(f, p) = Ending(f, p)
          BY <4>2, Fixed
        <5> QED
          BY <4>3, <4>4, <5>1, <5>2
      <4>6. Place(f, p) = Nowhere /\ canonicalize(f, p) = Nowhere
        BY <1>4, <2>1, <4>5 DEF Place, canonicalize
      <4> QED
        BY <1>2, <4>6 DEF Goes
    <3> QED
      BY <3>5, <3>6
  <2>5. Followed(f, d) = d /\ stat(f, d) = "dir"
    <3>1. Hop(f, d) = d /\ Ending(f, d) = "dir"
      BY <2>1, <2>4, HopIs, Settled
    <3> QED
      BY <2>1, <3>1, Fixed
  <2>6. /\ Place(f, p) = p /\ lstat(f, p) = At0(f, p).type
        /\ At0(f, p).type # "link" => Followed(f, p) = p
    BY <2>1, <2>5, Named
  <2>7. Goes(f, p, slash) = p
    BY <1>2, <2>6 DEF Goes, canonicalize
  <2> QED
    BY <1>1, <2>7
<1> QED
  BY <1>3, <1>4

-----------------------------------------------------------------------------
(* The names of all the paths there are.                                   *)
Spelled(repo) == {repo.root, repo.git_dir, repo.common_dir} \cup repo.lfs

Asked == {candidate.path : candidate \in Candidates}

PathsIn0 ==
  DOMAIN Nodes \cup Asked \cup {node.to : node \in UNION {Nodes[p] : p \in DOMAIN Nodes}}
    \cup UNION {Spelled(repo) : repo \in Repositories}

Names == {"annex", "lfs"} \cup UNION {Range(p) : p \in PathsIn0}

LEMMA NamesAre ==
  /\ DOMAIN Nodes \subseteq Seq(Names)
  /\ \A p \in DOMAIN Nodes : \A node \in Nodes[p] : node.to \in Seq(Names)
  /\ \A repo \in Repositories : Spelled(repo) \cup stores(repo) \subseteq Seq(Names)
  /\ \A candidate \in Candidates : candidate.path \in Seq(Names)
<1>1. ASSUME NEW p \in PathsIn0, IsPath(p) PROVE p \in Seq(Names)
  <2>1. Range(p) \subseteq Names
    BY DEF Names
  <2> QED
    BY <1>1, <2>1 DEF IsPath
<1>2. ASSUME NEW p \in DOMAIN Nodes PROVE p \in Seq(Names)
  <2>1. IsPath(p)
    BY LinksAssumption
  <2>2. p \in PathsIn0
    BY DEF PathsIn0
  <2> QED
    BY <1>1, <2>1, <2>2
<1>3. ASSUME NEW p \in DOMAIN Nodes, NEW node \in Nodes[p] PROVE node.to \in Seq(Names)
  <2>1. IsPath(node.to)
    BY LinksAssumption
  <2>2. node.to \in PathsIn0
    <3>1. node \in UNION {Nodes[q] : q \in DOMAIN Nodes}
      OBVIOUS
    <3> QED
      BY <3>1 DEF PathsIn0
  <2> QED
    BY <1>1, <2>1, <2>2
<1>4. ASSUME NEW repo \in Repositories, NEW p \in Spelled(repo) PROVE p \in Seq(Names)
  <2>1. IsPath(p)
    BY LinksAssumption DEF Spelled
  <2>2. p \in PathsIn0
    BY DEF PathsIn0
  <2> QED
    BY <1>1, <2>1, <2>2
<1>5. ASSUME NEW candidate \in Candidates PROVE candidate.path \in Seq(Names)
  <2>1. IsPath(candidate.path)
    BY LinksAssumption
  <2>2. candidate.path \in PathsIn0
    <3>1. candidate.path \in Asked
      BY DEF Asked
    <3> QED
      BY <3>1 DEF PathsIn0
  <2> QED
    BY <1>1, <2>1, <2>2
<1>6. ASSUME NEW repo \in Repositories PROVE stores(repo) \subseteq Seq(Names)
  <2>1. repo.git_dir \in Seq(Names) /\ repo.common_dir \in Seq(Names) /\ repo.lfs \subseteq Seq(Names)
    BY <1>4 DEF Spelled
  <2>2. "annex" \in Names /\ "lfs" \in Names
    BY DEF Names
  <2>3. Append(repo.common_dir, "annex") \in Seq(Names) /\ Append(repo.common_dir, "lfs") \in Seq(Names)
    BY <2>1, <2>2
  <2> QED
    BY <2>1, <2>3 DEF stores
<1> QED
  BY <1>2, <1>3, <1>4, <1>5, <1>6

(* What the proof keeps: every path has one of the nodes it may have; what *)
(* was a store when the gates looked is a region, and the git directory    *)
(* is; and the verdicts are those of the file system as it still is.       *)
SomeFileSystem == DOMAIN fs = DOMAIN Nodes /\ \A p \in DOMAIN Nodes : fs[p] \in Nodes[p]

Fields0 ==
  /\ DOMAIN gate0 = {"pc", "repo", "store", "regions", "blind", "candidate", "said"}
  /\ DOMAIN past = {"relinks", "stores"}
  /\ gate0.pc \in {"build", "judge", "judged"}

RegionsKept ==
  gate0.pc # "build" =>
    /\ gate0.repo \in Repositories
    /\ ~ gate0.blind => past.stores \subseteq gate0.regions /\ gate0.repo.git_dir \in gate0.regions

JudgedAsItIs ==
  gate0.pc = "judged" =>
    /\ gate0.candidate \in Candidates
    /\ gate0.said = [gate0a |-> judge0a(gate0.candidate, Looked(fs, gate0.repo.root, gate0.candidate.path)),
                     gate0e |-> judge0e(resolve(fs, gate0.candidate.path))]

LinksInv == SomeFileSystem /\ Fields0 /\ RegionsKept /\ JudgedAsItIs

LEMMA IsFileSystem == SomeFileSystem => FileSystem(fs, Names)
<1>1. Nowhere \notin DOMAIN Nodes
  BY LinksAssumption
<1>2. \A p \in DOMAIN Nodes : \A node \in Nodes[p] : node.type \in {"none", "dir", "file", "locked", "link"}
  BY LinksAssumption
<1> QED
  BY <1>1, <1>2, NamesAre DEF SomeFileSystem, FileSystem

LEMMA StaysThere ==
  ASSUME SomeFileSystem, NEW p \in Seq(Names), Stays(p)
  PROVE  Turns(fs, p) = {} /\ resolve(fs, p) = p
<1>1. Turns(fs, p) = {}
  <2> SUFFICES ASSUME NEW k \in DOMAIN p
               PROVE  p[k] # ".." /\ At0(fs, Upto(p, k)).type = "dir"
    BY DEF Turns
  <2>1. p[k] # ".."
    BY DEF Stays, Range
  <2>2. fs[Upto(p, k)] = Node("dir") /\ Upto(p, k) \in DOMAIN fs
    BY DEF Stays, SomeFileSystem
  <2> QED
    BY <2>1, <2>2 DEF At0, Node
<1>2. FileSystem(fs, Names) /\ Hops \in Nat
  BY IsFileSystem, LinksAssumption
<1>3. Hop(fs, p) = p /\ Ending(fs, p) = "dir"
  BY <1>1, <1>2, HopIs, Settled
<1>4. Followed(fs, p) = p /\ stat(fs, p) = "dir"
  BY <1>2, <1>3, Fixed
<1>5. canonicalize(fs, p) # Nowhere /\ canonicalize(fs, p) = p
  BY <1>2, <1>4, Resolved
<1> QED
  BY <1>1, <1>2, <1>5, ResolveThere

LEMMA LinksInvInit == InitLinks => LinksInv
  BY DEF InitLinks, New0, NoPast, LinksInv, SomeFileSystem, Fields0, RegionsKept, JudgedAsItIs

LEMMA LinksInvBuild ==
  ASSUME LinksInv, NEW answers \in BOOLEAN, Build0(answers)
  PROVE  LinksInv'
<1>1. PICK repo \in Repositories :
        /\ gate0' = [gate0 EXCEPT !.pc = "judge", !.repo = repo, !.blind = ~ answers,
                       !.store   = IF answers THEN store(repo) ELSE "Unreadable",
                       !.regions = IF answers THEN {resolve(fs, s) : s \in stores(repo)} ELSE {}]
        /\ past' = [past EXCEPT !.stores = {canonicalize(fs, s) : s \in stores(repo)} \ {Nowhere}]
  BY DEF Build0
<1>2. /\ gate0'.pc = "judge" /\ gate0'.repo = repo /\ gate0'.blind = ~ answers
      /\ DOMAIN gate0' = DOMAIN gate0 /\ DOMAIN past' = DOMAIN past
      /\ gate0'.regions = IF answers THEN {resolve(fs, s) : s \in stores(repo)} ELSE {}
      /\ past'.stores = {canonicalize(fs, s) : s \in stores(repo)} \ {Nowhere}
  BY <1>1 DEF LinksInv, Fields0
<1>3. SomeFileSystem' /\ SomeFileSystem
  BY DEF LinksInv, SomeFileSystem, Build0
<1>4. ASSUME answers
      PROVE  past'.stores \subseteq gate0'.regions /\ gate0'.repo.git_dir \in gate0'.regions
  <2>1. FileSystem(fs, Names) /\ Hops \in Nat
    BY <1>3, IsFileSystem, LinksAssumption
  <2>2. repo.git_dir \in Seq(Names) /\ Stays(repo.git_dir)
    BY NamesAre, LinksAssumption DEF Spelled
  <2>3. repo.git_dir \in gate0'.regions
    <3>1. resolve(fs, repo.git_dir) = repo.git_dir /\ repo.git_dir \in stores(repo)
      BY <1>3, <2>2, StaysThere DEF stores
    <3> QED
      BY <1>2, <1>4, <3>1
  <2>4. \A s \in stores(repo) : canonicalize(fs, s) # Nowhere => resolve(fs, s) = canonicalize(fs, s)
    BY <2>1, NamesAre, ResolveThere
  <2> QED
    BY <1>2, <1>4, <2>3, <2>4
<1> QED
  BY <1>2, <1>3, <1>4 DEF LinksInv, Fields0, RegionsKept, JudgedAsItIs

LEMMA LinksInvJudge ==
  ASSUME LinksInv, judge0
  PROVE  LinksInv'
<1>1. PICK candidate \in Candidates :
        gate0' = [gate0 EXCEPT !.pc = "judged", !.candidate = candidate,
                    !.said = [gate0a |-> judge0a(candidate, Looked(fs, gate0.repo.root, candidate.path)),
                              gate0e |-> judge0e(resolve(fs, candidate.path))]]
  BY DEF judge0
<1>2. gate0.pc = "judge" /\ fs' = fs /\ past' = past
  BY DEF judge0
<1>3. /\ gate0'.pc = "judged" /\ gate0'.candidate = candidate /\ DOMAIN gate0' = DOMAIN gate0
      /\ gate0'.repo = gate0.repo /\ gate0'.blind = gate0.blind
      /\ gate0'.regions = gate0.regions /\ gate0'.store = gate0.store
      /\ gate0'.said = [gate0a |-> judge0a(candidate, Looked(fs, gate0.repo.root, candidate.path)),
                        gate0e |-> judge0e(resolve(fs, candidate.path))]
  BY <1>1 DEF LinksInv, Fields0
<1>4. SomeFileSystem' /\ Fields0' /\ RegionsKept'
  BY <1>2, <1>3 DEF LinksInv, SomeFileSystem, Fields0, RegionsKept
<1>5. JudgedAsItIs'
  <2>1. \A looked : judge0a(candidate, looked)' = judge0a(candidate, looked)
    BY <1>3 DEF judge0a
  <2>2. \A place : judge0e(place)' = judge0e(place)
    BY <1>3 DEF judge0e
  <2> SUFFICES
        gate0'.said =
          [gate0a |-> judge0a(gate0.candidate, Looked(fs, gate0.repo.root, gate0.candidate.path))',
           gate0e |-> judge0e(resolve(fs, gate0.candidate.path))']
    BY <1>3 DEF JudgedAsItIs
  <2>3. judge0a(gate0.candidate, Looked(fs, gate0.repo.root, gate0.candidate.path))'
          = judge0a(candidate, Looked(fs, gate0.repo.root, candidate.path))
    BY <1>2, <1>3, <2>1
  <2>4. judge0e(resolve(fs, gate0.candidate.path))' = judge0e(resolve(fs, candidate.path))
    BY <1>2, <1>3, <2>2
  <2> QED
    BY <1>3, <2>3, <2>4
<1> QED
  BY <1>4, <1>5 DEF LinksInv

LEMMA LinksInvRelink ==
  ASSUME LinksInv, Relink
  PROVE  LinksInv'
<1>1. gate0.pc = "judge" /\ gate0' = gate0 /\ past' = [past EXCEPT !.relinks = @ + 1]
  BY DEF Relink
<1>2. PICK p \in DOMAIN fs : \E node \in Nodes[p] : fs' = [fs EXCEPT ![p] = node]
  BY DEF Relink
<1>3. SomeFileSystem'
  BY <1>2 DEF LinksInv, SomeFileSystem
<1>4. DOMAIN past' = DOMAIN past /\ past'.stores = past.stores
  BY <1>1 DEF LinksInv, Fields0
<1> QED
  BY <1>1, <1>3, <1>4 DEF LinksInv, Fields0, RegionsKept, JudgedAsItIs

LEMMA LinksInvNext == LinksInv /\ [NextLinks]_linkVars => LinksInv'
<1> SUFFICES ASSUME LinksInv, [NextLinks]_linkVars PROVE LinksInv'
  OBVIOUS
<1>1. CASE build0
  BY <1>1, LinksInvBuild DEF build0
<1>2. CASE blind
  BY <1>2, LinksInvBuild DEF blind
<1>3. CASE judge0
  BY <1>3, LinksInvJudge
<1>4. CASE Relink
  BY <1>4, LinksInvRelink
<1>5. CASE UNCHANGED linkVars
  <2>1. fs' = fs /\ gate0' = gate0 /\ past' = past
    BY <1>5 DEF linkVars
  <2> QED
    BY <2>1 DEF LinksInv, SomeFileSystem, Fields0, RegionsKept, JudgedAsItIs, judge0a, judge0e
<1> QED
  BY <1>1, <1>2, <1>3, <1>4, <1>5 DEF NextLinks, Gate0Steps

(* What the verdicts say of what the gates saw.                            *)
LEMMA ClearMeans ==
  ASSUME LinksInv, gate0.pc = "judged", gate0.said = [gate0a |-> "Clear", gate0e |-> "Clear"]
  PROVE  /\ linked_ancestor(fs, gate0.repo.root, gate0.candidate.path) \notin {"error", "link"}
         /\ lstat(fs, gate0.candidate.path) = "link" =>
              /\ ~ gate0.candidate.slash /\ stat(fs, gate0.candidate.path) = "none"
              /\ gate0.store = "Absent"
         /\ ~ gate0.blind
         /\ \A region \in gate0.regions : ~ Near(resolve(fs, gate0.candidate.path), region)
<1>1. /\ judge0a(gate0.candidate, Looked(fs, gate0.repo.root, gate0.candidate.path)) = "Clear"
      /\ judge0e(resolve(fs, gate0.candidate.path)) = "Clear"
  BY DEF LinksInv, JudgedAsItIs
<1>2. ~ gate0.blind /\ \A region \in gate0.regions : ~ Near(resolve(fs, gate0.candidate.path), region)
  BY <1>1 DEF judge0e
<1> DEFINE looked == Looked(fs, gate0.repo.root, gate0.candidate.path)
<1>3. /\ "error" \notin {looked.above, looked.found} /\ looked.above # "link"
      /\ ~ (looked.found = "link" /\ (gate0.candidate.slash \/ looked.leads # "none" \/ gate0.store # "Absent"))
  <2> HIDE DEF looked
  <2> QED
    BY <1>1 DEF judge0a, looked
<1>4. /\ looked.above = linked_ancestor(fs, gate0.repo.root, gate0.candidate.path)
      /\ looked.found = lstat(fs, gate0.candidate.path) /\ looked.leads = stat(fs, gate0.candidate.path)
  BY DEF Looked
<1> HIDE DEF looked
<1> QED
  BY <1>2, <1>3, <1>4

LEMMA InvCanGo == LinksInv => ClearedCanGo
<1> SUFFICES ASSUME LinksInv, gate0.pc = "judged",
                    gate0.said = [gate0a |-> "Clear", gate0e |-> "Clear"],
                    NEW gone, gone = Removed(gate0.candidate), At0(fs, gone).type # "none"
             PROVE  /\ \A s \in past.stores : ~ Near(gone, s)
                    /\ At0(fs, gone).type = "link" => stat(fs, gone) = "none" /\ gate0.store = "Absent"
                    /\ ".." \notin Range(gate0.candidate.path) =>
                         /\ gone = gate0.candidate.path /\ IsPrefix(gate0.repo.root, gone)
                         /\ IsPrefix(gate0.repo.root, gate0.repo.git_dir) => gone # gate0.repo.root
  BY DEF ClearedCanGo
<1> DEFINE p == gate0.candidate.path
           slash == gate0.candidate.slash
           root == gate0.repo.root
<1>1. FileSystem(fs, Names) /\ Hops \in Nat /\ SomeFileSystem
  BY IsFileSystem, LinksAssumption DEF LinksInv
<1>2. p \in Seq(Names) /\ root \in Seq(Names) /\ gate0.repo \in Repositories
  BY NamesAre DEF LinksInv, RegionsKept, JudgedAsItIs, Spelled
<1>3. gone = Goes(fs, p, slash)
  BY DEF Removed, Goes
<1>4. /\ linked_ancestor(fs, root, p) \notin {"error", "link"}
      /\ lstat(fs, p) = "link" => ~ slash /\ stat(fs, p) = "none"
      /\ lstat(fs, p) = "link" => gate0.store = "Absent"
      /\ ~ gate0.blind
      /\ \A region \in gate0.regions : ~ Near(resolve(fs, p), region)
  BY ClearMeans
<1> HIDE DEF p, slash, root
<1>5. /\ resolve(fs, p) = gone
      /\ At0(fs, gone).type = "link" => lstat(fs, p) = "link" /\ stat(fs, gone) = "none"
  BY <1>1, <1>2, <1>3, <1>4, ComparedIsRemoved
<1>6. past.stores \subseteq gate0.regions /\ gate0.repo.git_dir \in gate0.regions
  BY <1>4 DEF LinksInv, RegionsKept
<1>7. Turns(fs, root) = {}
  <2>1. Stays(root)
    BY <1>2, LinksAssumption DEF root
  <2> QED
    BY <1>1, <1>2, <2>1, StaysThere
<1>8. ".." \notin Range(p) => gone = p /\ IsPrefix(root, p)
  BY <1>1, <1>2, <1>3, <1>4, <1>7, CalledAsItIs
<1>9. IsPrefix(root, gate0.repo.git_dir) => gone # root
  BY <1>4, <1>5, <1>6 DEF Near
<1> QED
  BY <1>4, <1>5, <1>6, <1>8, <1>9 DEF p, root

(* For every file system, its links and loops of links, and whatever is    *)
(* linked elsewhere before the gates judge: what both gates let go can be  *)
(* removed (judge of gate0a.rs and gate0e.rs).                             *)
THEOREM CanGo == SpecLinks => []ClearedCanGo
<1>1. InitLinks => LinksInv
  BY LinksInvInit
<1>2. LinksInv /\ [NextLinks]_linkVars => LinksInv'
  BY LinksInvNext
<1>3. LinksInv => ClearedCanGo
  BY InvCanGo
<1> QED
  BY <1>1, <1>2, <1>3, PTL DEF SpecLinks

-----------------------------------------------------------------------------
(* What .gitattributes say (AttributesAsGit). First, texts and patterns:   *)
(* Split cuts a text where its separators are.                             *)

(* Where the parts of a text are: part k comes after the first from[k]     *)
(* pieces, and a separator stands between it and the next one.             *)
Cuts(from, parts, text, n, piece, S) ==
  /\ parts \in Seq(Seq(S)) /\ parts # <<>>
  /\ from \in [1 .. Len(parts) + 1 -> 0 .. n + 1]
  /\ from[1] = 0 /\ from[Len(parts) + 1] = n + 1
  /\ \A k \in 1 .. Len(parts) :
       /\ from[k + 1] = from[k] + Len(parts[k]) + 1
       /\ \A o \in 1 .. Len(parts[k]) : parts[k][o] = text[from[k] + o] /\ parts[k][o] # piece
       /\ k < Len(parts) => text[from[k + 1]] = piece

(* One piece further, it is in the last part or begins the next one.       *)
LEMMA Appended ==
  ASSUME NEW S, NEW s \in Seq(S), NEW e \in S
  PROVE  /\ Append(s, e) \in Seq(S) /\ Append(s, e) # <<>> /\ Len(s) \in Nat
         /\ Len(Append(s, e)) = Len(s) + 1 /\ Append(s, e)[Len(s) + 1] = e
         /\ \A i \in 1 .. Len(s) : Append(s, e)[i] = s[i]
OBVIOUS

(* The next piece of the text makes the cuts of one piece more.            *)
LEMMA CutsLonger ==
  ASSUME NEW S, NEW text \in Seq(S), NEW piece, NEW n \in 0 .. Len(text) - 1, NEW from, NEW parts,
         Cuts(from, parts, text, n, piece, S)
  PROVE  \E b : Cuts(b, Longer(parts, text[n + 1], piece), text, n + 1, piece, S)
<1> DEFINE K == Len(parts)
           x == text[n + 1]
<1>1. /\ n \in Nat /\ K \in Nat \ {0} /\ x \in S /\ parts \in Seq(Seq(S))
      /\ from \in [1 .. K + 1 -> 0 .. n + 1] /\ from[1] = 0 /\ from[K + 1] = n + 1
      /\ \A k \in 1 .. K : parts[k] \in Seq(S) /\ Len(parts[k]) \in Nat
  BY DEF Cuts
<1>2. \A k \in 1 .. K :
        /\ from[k + 1] = from[k] + Len(parts[k]) + 1
        /\ \A o \in 1 .. Len(parts[k]) : parts[k][o] = text[from[k] + o] /\ parts[k][o] # piece
        /\ k < K => text[from[k + 1]] = piece
  BY DEF Cuts
<1>0. /\ K \in 1 .. K /\ \A k \in 1 .. K : k \in 1 .. K + 1 /\ k + 1 \in 1 .. K + 1 /\ k # K + 1
      /\ \A k \in 1 .. K + 1 : k \in 1 .. K + 2 /\ k + 1 \in 1 .. K + 2 /\ k # K + 2
                             /\ (k \in 1 .. K \/ k = K + 1)
      /\ \A k \in 1 .. K + 2 : k # K + 2 => k \in 1 .. K + 1
      /\ \A k \in 1 .. K : k # K => k + 1 # K + 1 /\ k < K
      /\ K + 2 \in 1 .. K + 2 /\ K + 1 \in 1 .. K + 1 /\ 1 \in 1 .. K + 1
  BY <1>1
<1> HIDE DEF K, x
<1>3. CASE x = piece
  <2> DEFINE longer == Append(parts, <<>>)
             b == [k \in 1 .. K + 2 |-> IF k = K + 2 THEN n + 2 ELSE from[k]]
  <2>1. /\ longer \in Seq(Seq(S)) /\ longer # <<>> /\ Len(longer) = K + 1 /\ longer[K + 1] = <<>>
        /\ \A k \in 1 .. K : longer[k] = parts[k]
    <3>1. <<>> \in Seq(S)
      OBVIOUS
    <3>2. PICK e : e = <<>> /\ e \in Seq(S) /\ longer = Append(parts, e)
      BY <3>1
    <3> HIDE DEF longer
    <3>3. /\ longer \in Seq(Seq(S)) /\ longer # <<>> /\ Len(longer) = Len(parts) + 1
          /\ longer[Len(parts) + 1] = e /\ \A k \in 1 .. Len(parts) : longer[k] = parts[k]
      <4>1. parts \in Seq(Seq(S))
        BY <1>1
      <4> QED
        BY ONLY <3>2, <4>1, Appended
    <3> QED
      BY <3>2, <3>3 DEF K
  <2>2. b[K + 2] = n + 2 /\ \A k \in 1 .. K + 1 : b[k] = from[k]
    BY <1>0
  <2>3. b \in [1 .. K + 2 -> 0 .. n + 2]
    <3>1. ASSUME NEW k \in 1 .. K + 2 PROVE (IF k = K + 2 THEN n + 2 ELSE from[k]) \in 0 .. n + 2
      <4>1. CASE k = K + 2
        BY <1>1, <4>1
      <4>2. CASE k # K + 2
        <5>1. from[k] \in 0 .. n + 1
          BY <1>0, <1>1, <4>2
        <5> QED
          BY <1>1, <4>2, <5>1
      <4> QED
        BY <4>1, <4>2
    <3> QED
      BY <3>1
  <2> HIDE DEF longer, b
  <2>4. ASSUME NEW k \in 1 .. K + 1
        PROVE  /\ b[k + 1] = b[k] + Len(longer[k]) + 1
               /\ \A o \in 1 .. Len(longer[k]) : longer[k][o] = text[b[k] + o] /\ longer[k][o] # piece
               /\ k < K + 1 => text[b[k + 1]] = piece
    <3>1. CASE k = K + 1
      <4>1. k + 1 = K + 2 /\ ~ (k < K + 1)
        BY <1>1, <3>1
      <4>2. b[k] = n + 1 /\ b[k + 1] = n + 2
        BY <1>0, <1>1, <2>2, <3>1, <4>1
      <4>3. Len(longer[k]) = 0
        BY <2>1, <3>1
      <4> QED
        BY <1>1, <4>1, <4>2, <4>3
    <3>2. CASE k \in 1 .. K
      <4>1. b[k] = from[k] /\ b[k + 1] = from[k + 1] /\ longer[k] = parts[k]
        BY <1>0, <2>1, <2>2, <3>2
      <4>2. text[from[k + 1]] = piece
        <5>1. CASE k = K
          BY <1>1, <1>3, <5>1 DEF x
        <5>2. CASE k # K
          BY <1>0, <1>2, <3>2, <5>2
        <5> QED
          BY <5>1, <5>2
      <4> QED
        BY <1>2, <3>2, <4>1, <4>2
    <3> QED
      BY <1>0, <3>1, <3>2
  <2>5. Cuts(b, longer, text, n + 1, piece, S)
    <3>1. Len(longer) + 1 = K + 2
      BY <1>1, <2>1
    <3>2. (n + 1) + 1 = n + 2
      BY <1>1
    <3>3. b[1] = 0
      BY <1>0, <1>1, <2>2
    <3> QED
      BY ONLY <2>1, <2>2, <2>3, <2>4, <3>1, <3>2, <3>3 DEF Cuts
  <2> QED
    BY <1>3, <2>5 DEF Longer, longer, x
<1>4. CASE x # piece
  <2> DEFINE longer == [parts EXCEPT ![K] = Append(@, x)]
             b == [k \in 1 .. K + 1 |-> IF k = K + 1 THEN n + 2 ELSE from[k]]
  <2>1. parts[K] \in Seq(S) /\ Append(parts[K], x) \in Seq(S)
    BY <1>0, <1>1
  <2>2. /\ longer \in Seq(Seq(S)) /\ longer # <<>> /\ Len(longer) = K /\ longer[K] = Append(parts[K], x)
        /\ \A k \in 1 .. K : k # K => longer[k] = parts[k]
    BY <1>0, <1>1, <2>1 DEF K
  <2>3. b[K + 1] = n + 2 /\ \A k \in 1 .. K : b[k] = from[k] /\ (k # K => b[k + 1] = from[k + 1])
    BY <1>0
  <2>4. b \in [1 .. K + 1 -> 0 .. n + 2]
    <3>1. ASSUME NEW k \in 1 .. K + 1 PROVE (IF k = K + 1 THEN n + 2 ELSE from[k]) \in 0 .. n + 2
      <4>1. from[k] \in 0 .. n + 1
        BY <1>1
      <4> QED
        BY <1>1, <4>1
    <3> QED
      BY <3>1
  <2> HIDE DEF longer, b
  <2>5. ASSUME NEW k \in 1 .. K
        PROVE  /\ b[k + 1] = b[k] + Len(longer[k]) + 1
               /\ \A o \in 1 .. Len(longer[k]) : longer[k][o] = text[b[k] + o] /\ longer[k][o] # piece
               /\ k < K => text[b[k + 1]] = piece
    <3>1. CASE k # K
      <4>1. longer[k] = parts[k] /\ b[k] = from[k] /\ b[k + 1] = from[k + 1]
        BY <2>2, <2>3, <3>1
      <4> QED
        BY <1>2, <4>1
    <3>2. CASE k = K
      <4>0. PICK L \in Nat : L = Len(parts[K])
        BY <1>0, <1>1
      <4>1. /\ Len(longer[K]) = L + 1 /\ longer[K][L + 1] = x
            /\ \A o \in 1 .. L : longer[K][o] = parts[K][o]
        BY <2>1, <2>2, <1>1, <4>0, Appended
      <4>2. from[K + 1] = from[K] + L + 1 /\ from[K] \in Nat /\ from[K + 1] = n + 1
        BY <1>0, <1>1, <1>2, <4>0
      <4>3. from[K] + L + 1 = n + 1 /\ b[K] = from[K] /\ b[K + 1] = n + 2
        BY <1>0, <2>3, <4>2
      <4>4. \A o \in 1 .. L : parts[K][o] = text[from[K] + o] /\ parts[K][o] # piece
        BY <1>0, <1>2, <4>0
      <4>5. ASSUME NEW o \in 1 .. L + 1
            PROVE  longer[K][o] = text[b[K] + o] /\ longer[K][o] # piece
        <5>1. CASE o = L + 1
          <6>1. b[K] + o = n + 1
            BY <4>2, <4>3, <5>1
          <6> QED
            BY <1>4, <4>1, <5>1, <6>1 DEF x
        <5>2. CASE o \in 1 .. L
          BY <4>1, <4>3, <4>4, <5>2
        <5> QED
          BY <4>0, <5>1, <5>2
      <4>6. b[K + 1] = b[K] + Len(longer[K]) + 1
        <5>1. n + 2 = from[K] + (L + 1) + 1
          BY <1>1, <4>0, <4>2
        <5> QED
          BY <4>1, <4>3, <5>1
      <4>7. ~ (K < K)
        BY <1>1
      <4> QED
        BY <3>2, <4>1, <4>5, <4>6, <4>7
    <3> QED
      BY <3>1, <3>2
  <2>6. Cuts(b, longer, text, n + 1, piece, S)
    <3>1. (n + 1) + 1 = n + 2 /\ b[1] = 0
      BY <1>0, <1>1, <2>3
    <3> QED
      BY ONLY <2>2, <2>3, <2>4, <2>5, <3>1 DEF Cuts
  <2> QED
    BY <1>4, <2>6 DEF Longer, longer, x, K
<1> QED
  BY <1>3, <1>4

(* f is the recursion that defines Split.                                  *)
Splits(f, text, piece, S) ==
  /\ f \in [0 .. Len(text) -> Seq(Seq(S)) \ {<<>>}]
  /\ f[0] = <<<<>>>>
  /\ \A n \in 1 .. Len(text) : f[n] = Longer(f[n - 1], text[n], piece)
  /\ Split(text, piece) = f[Len(text)]

(* Split is the last of the values of a recursion on the text.             *)
LEMMA SplitRecursion ==
  ASSUME NEW S, NEW text \in Seq(S), NEW piece
  PROVE  \E f : Splits(f, text, piece, S)
<1> DEFINE N == Len(text)
           Values == Seq(Seq(S)) \ {<<>>}
           none == <<<<>>>>
           step(n, t) == Longer(t, text[n], piece)
           G == [n \in 1 .. N |-> [t \in Values |-> step(n, t)]]
           Is(f) == f = [n \in 0 .. N |-> IF n = 0 THEN none ELSE step(n, f[n - 1])]
           parts == CHOOSE f : Is(f)
<1>1. N \in Nat /\ none \in Values
  OBVIOUS
<1>2. Split(text, piece) = parts[N]
  BY DEF Split
<1>3. \A n \in 1 .. N, t \in Values : step(n, t) \in Values
  <2> SUFFICES ASSUME NEW n \in 1 .. N, NEW t \in Values PROVE step(n, t) \in Values
    OBVIOUS
  <2>1. t \in Seq(Seq(S)) /\ Len(t) \in 1 .. Len(t) /\ t[Len(t)] \in Seq(S) /\ text[n] \in S
    OBVIOUS
  <2>2. Append(t, <<>>) \in Values
    BY <2>1
  <2>3. Append(t[Len(t)], text[n]) \in Seq(S)
    BY <2>1
  <2>4. [t EXCEPT ![Len(t)] = Append(@, text[n])] \in Values
    BY <2>1, <2>3
  <2> QED
    BY <2>2, <2>4 DEF Longer
<1>4. PICK f : Solves(f, N, Values, none, G)
  <2> HIDE DEF N, Values, none, step
  <2>1. G \in [1 .. N -> [Values -> Values]]
    BY <1>3
  <2> HIDE DEF G
  <2> QED
    BY <1>1, <2>1, Recursion
<1>5. f \in [0 .. N -> Values] /\ f[0] = none /\ \A n \in 1 .. N : f[n] = step(n, f[n - 1])
  <2> HIDE DEF N, Values, none, step
  <2> QED
    BY <1>1, <1>4, Steps DEF Solves
<1>6. Is(parts)
  <2> HIDE DEF N, Values, none, step
  <2>1. Is(f)
    BY <1>1, <1>5, Steps
  <2> HIDE DEF Is
  <2> QED
    BY <2>1
<1> HIDE DEF parts
<1>7. parts \in [0 .. N -> Values] /\ parts[0] = none /\ \A n \in 1 .. N : parts[n] = step(n, parts[n - 1])
  <2>1. parts[0] = none /\ \A n \in 1 .. N : parts[n] = step(n, parts[n - 1])
    <3> HIDE DEF N, Values, none, step
    <3> QED
      BY <1>1, <1>6, Steps
  <2> DEFINE T == {n \in 0 .. N : parts[n] \in Values}
  <2>2. 0 \in T
    <3>1. 0 \in 0 .. N /\ none \in Values
      BY <1>1
    <3> HIDE DEF N, Values, none, step
    <3> QED
      BY <2>1, <3>1
  <2>3. ASSUME NEW n \in 0 .. N - 1, n \in T PROVE n + 1 \in T
    <3>1. n + 1 \in 1 .. N /\ (n + 1) - 1 = n /\ n + 1 \in 0 .. N /\ parts[n] \in Values
      BY <1>1, <2>3
    <3> HIDE DEF N, Values, none, step
    <3> QED
      BY <1>3, <2>1, <3>1
  <2>4. \A n \in 0 .. N : n \in T
    <3> HIDE DEF T, N
    <3> QED
      BY <1>1, <2>2, <2>3, Upwards
  <2>5. parts = [n \in 0 .. N |-> parts[n]]
    <3> HIDE DEF N, Values, none, step
    <3> QED
      BY <1>6
  <2>6. \A n \in 0 .. N : parts[n] \in Values
    BY <2>4
  <2> HIDE DEF N, Values, none, step
  <2> QED
    BY ONLY <2>1, <2>5, <2>6
<1> QED
  BY <1>2, <1>7 DEF Splits

(* So Split cuts a text, and joined by the separator its parts are the     *)
(* text.                                                                   *)
LEMMA SplitCuts ==
  ASSUME NEW S, NEW text \in Seq(S), NEW piece
  PROVE  \E from : Cuts(from, Split(text, piece), text, Len(text), piece, S)
<1>1. PICK N \in Nat : N = Len(text)
  OBVIOUS
<1>2. PICK f : Splits(f, text, piece, S)
  BY SplitRecursion
<1>4. /\ f[0] = <<<<>>>> /\ \A n \in 1 .. N : f[n] = Longer(f[n - 1], text[n], piece)
      /\ Split(text, piece) = f[N]
  BY ONLY <1>1, <1>2 DEF Splits
<1> DEFINE T == {n \in 0 .. N : \E from : Cuts(from, f[n], text, n, piece, S)}
<1>5. 0 \in T
  <2>1. Cuts([k \in 1 .. 2 |-> IF k = 1 THEN 0 ELSE 1], <<<<>>>>, text, 0, piece, S)
    BY DEF Cuts
  <2>2. \E from : Cuts(from, f[0], text, 0, piece, S)
    BY <1>4, <2>1
  <2>3. 0 \in 0 .. N
    BY ONLY <1>1
  <2> QED
    BY <2>2, <2>3
<1>6. \A n \in 0 .. N - 1 : n \in T => n + 1 \in T
  <2> SUFFICES ASSUME NEW n \in 0 .. N - 1, n \in T PROVE n + 1 \in T
    OBVIOUS
  <2>1. PICK from : Cuts(from, f[n], text, n, piece, S)
    OBVIOUS
  <2>2. n + 1 \in 1 .. N /\ (n + 1) - 1 = n /\ n + 1 \in 0 .. N /\ n \in 0 .. Len(text) - 1
    BY <1>1
  <2>3. f[n + 1] = Longer(f[n], text[n + 1], piece)
    BY <1>4, <2>2
  <2>4. \E b : Cuts(b, f[n + 1], text, n + 1, piece, S)
    BY <2>1, <2>2, <2>3, CutsLonger
  <2> QED
    BY <2>2, <2>4
<1>7. N \in T
  <2> HIDE DEF T
  <2>1. \A n \in 0 .. N : n \in T
    BY <1>1, <1>5, <1>6, Upwards
  <2> QED
    BY <1>1, <2>1, Steps
<1> QED
  BY <1>1, <1>4, <1>7

(* What passes from n to n - 1 passes all the way down.                    *)
LEMMA Downwards ==
  ASSUME NEW N \in Nat, NEW T, N \in T,
         \A n \in 1 .. N : n \in T => n - 1 \in T
  PROVE  \A n \in 0 .. N : n \in T
<1> DEFINE U == {n \in 0 .. N : N - n \in T}
<1>1. 0 \in U
  OBVIOUS
<1>2. ASSUME NEW n \in 0 .. N - 1, n \in U PROVE n + 1 \in U
  <2>1. N - n \in 1 .. N /\ N - n \in T /\ (N - n) - 1 = N - (n + 1)
    BY <1>2
  <2> QED
    BY <2>1
<1>3. \A n \in 0 .. N : n \in U
  <2> HIDE DEF U
  <2> QED
    BY <1>1, <1>2, Upwards
<1>4. ASSUME NEW n \in 0 .. N PROVE n \in T
  <2>1. N - n \in U /\ N - (N - n) = n
    BY <1>3
  <2> QED
    BY <2>1
<1> QED
  BY <1>4

(* A part begins after the one before it.                                  *)
LEMMA CutsRise ==
  ASSUME NEW S, NEW text, NEW piece, NEW n \in Nat, NEW from, NEW parts,
         Cuts(from, parts, text, n, piece, S)
  PROVE  \A k, l \in 1 .. Len(parts) + 1 : k <= l => from[k] <= from[l] /\ (k < l => from[k] < from[l])
<1> DEFINE K == Len(parts)
<1>1. /\ K \in Nat /\ from \in [1 .. K + 1 -> 0 .. n + 1]
      /\ \A k \in 1 .. K : from[k + 1] = from[k] + Len(parts[k]) + 1 /\ Len(parts[k]) \in Nat
  BY DEF Cuts
<1> HIDE DEF K
<1>2. \A k \in 1 .. K + 1 : from[k] \in Nat
  BY <1>1
<1>3. \A k \in 1 .. K : from[k] < from[k + 1]
  <2> SUFFICES ASSUME NEW k \in 1 .. K PROVE from[k] < from[k + 1]
    OBVIOUS
  <2>1. k \in 1 .. K + 1
    BY <1>1
  <2>2. PICK a \in Nat, b \in Nat : a = from[k] /\ b = Len(parts[k])
    BY <1>1, <1>2, <2>1
  <2>3. from[k + 1] = a + b + 1
    BY <1>1, <2>2
  <2> QED
    BY <2>2, <2>3
<1> SUFFICES ASSUME NEW k \in 1 .. K + 1, NEW l \in 1 .. K + 1, k <= l
             PROVE  from[k] <= from[l] /\ (k < l => from[k] < from[l])
  BY DEF K
<1> DEFINE T == {d \in 0 .. l - k : from[k] <= from[k + d] /\ (d > 0 => from[k] < from[k + d])}
<1>4. l - k \in Nat /\ k + (l - k) = l
  BY <1>1
<1>5. 0 \in T
  <2>1. k + 0 = k
    BY <1>1
  <2>2. from[k] <= from[k]
    BY <1>2
  <2> QED
    BY <1>4, <2>1, <2>2
<1>6. ASSUME NEW d \in 0 .. l - k - 1, d \in T PROVE d + 1 \in T
  <2>1. d + 1 \in 0 .. l - k /\ k + d \in 1 .. K /\ k + (d + 1) = (k + d) + 1 /\ k + d \in 1 .. K + 1
    BY <1>1, <1>4
  <2>2. from[k + d] < from[k + (d + 1)] /\ from[k + d] \in Nat /\ from[k] \in Nat
    BY <1>2, <1>3, <2>1
  <2>3. (k + d) + 1 \in 1 .. K + 1
    BY <1>1, <2>1
  <2>4. from[k + (d + 1)] \in Nat
    BY <1>2, <2>1, <2>3
  <2>5. from[k] <= from[k + d]
    BY <1>6
  <2> QED
    BY <2>1, <2>2, <2>4, <2>5
<1>7. l - k \in T
  <2> HIDE DEF T
  <2>1. \A d \in 0 .. l - k : d \in T
    BY <1>4, <1>5, <1>6, Upwards
  <2> QED
    BY <1>4, <2>1
<1>8. from[k] <= from[k + (l - k)] /\ (l - k > 0 => from[k] < from[k + (l - k)])
  BY <1>7
<1> QED
  BY <1>1, <1>4, <1>8

-----------------------------------------------------------------------------
(* The matcher of the code (glob_segment) fills a table from the pattern's *)
(* end; that of git goes part by part.                                     *)

Past(pattern, i) ==
  IF pattern[i] = "**" /\ i < Len(pattern) /\ pattern[i + 1] = "/" THEN i + 2 ELSE i + 1

(* The positions from which on the pattern matches from i on, if rest are  *)
(* those for what follows.                                                 *)
From(pattern, text, i, rest) ==
  {j \in 1 .. Len(text) + 1 :
    CASE pattern[i] = "**" -> \E k \in rest : j <= k
      [] pattern[i] = "*" -> \E k \in rest : j <= k /\ "/" \notin Range(SubSeq(text, j, k - 1))
      [] pattern[i] = "?" -> j + 1 \in rest /\ text[j] # "/"
      [] pattern[i] \in DOMAIN ClassOf -> j + 1 \in rest /\ text[j] \in ClassOf[pattern[i]]
      [] OTHER -> j + 1 \in rest /\ text[j] = pattern[i]}

(* m are the matches of glob_segment.                                      *)
Table(m, pattern, text) ==
  /\ m \in [1 .. Len(pattern) + 1 -> SUBSET (1 .. Len(text) + 1)]
  /\ m[Len(pattern) + 1] = {Len(text) + 1}
  /\ \A i \in 1 .. Len(pattern) : m[i] = From(pattern, text, i, m[Past(pattern, i)])

(* Every step of the table looks at a row further down.                    *)
LEMMA PastIs ==
  ASSUME NEW P, NEW pattern \in Seq(P), NEW i \in 1 .. Len(pattern)
  PROVE  Past(pattern, i) \in i + 1 .. Len(pattern) + 1
<1>1. Len(pattern) \in Nat
  OBVIOUS
<1> QED
  BY <1>1 DEF Past

(* glob_segment fills such a table, and reads its first place.             *)
LEMMA TableIs ==
  ASSUME NEW P, NEW S, NEW pattern \in Seq(P), NEW text \in Seq(S)
  PROVE  \E m : Table(m, pattern, text) /\ (glob_segment(pattern, text) <=> 1 \in m[1])
<1> DEFINE N == Len(pattern)
           Spots == SUBSET (1 .. Len(text) + 1)
           Values == [1 .. N + 1 -> Spots]
           fill(n, t) == [t EXCEPT ![N + 1 - n] = From(pattern, text, N + 1 - n, t[Past(pattern, N + 1 - n)])]
           none == [i \in 1 .. N + 1 |-> {Len(text) + 1}]
           G == [n \in 1 .. N |-> [t \in Values |-> fill(n, t)]]
           row(f, i) == IF i > N THEN {Len(text) + 1} ELSE From(pattern, text, i, f[Past(pattern, i)])
           Is(f) == f = [i \in 1 .. N + 1 |-> row(f, i)]
           m == CHOOSE f : Is(f)
<1>1. N \in Nat /\ Len(text) \in Nat
  OBVIOUS
<1>2. glob_segment(pattern, text) <=> 1 \in m[1]
  BY DEF glob_segment, From, Past
<1>3. \A i, rest : From(pattern, text, i, rest) \in Spots
  BY DEF From
<1>4. none \in Values
  BY <1>1
<1>5. \A n \in 1 .. N : N + 1 - n \in 1 .. N /\ N + 1 - n \in 1 .. N + 1
  BY <1>1
<1>6. \A i \in 1 .. N : Past(pattern, i) \in i + 1 .. N + 1
  BY PastIs
<1>7. \A n \in 1 .. N, t \in Values : fill(n, t) \in Values
  <2> HIDE DEF Spots, N
  <2> QED
    BY <1>3, <1>5
<1>8. \E f : Is(f)
  <2> HIDE DEF N, Values, none, fill
  <2>1. PICK g : Solves(g, N, Values, none, G)
    <3>1. G \in [1 .. N -> [Values -> Values]]
      BY <1>7
    <3> HIDE DEF G
    <3> QED
      BY <1>1, <1>4, <3>1, Recursion
  <2>2. g \in [0 .. N -> Values] /\ g[0] = none /\ \A n \in 1 .. N : g[n] = fill(n, g[n - 1])
    BY <1>1, <2>1, Steps DEF Solves
  <2> DEFINE done(n) == \A i \in 1 .. N + 1 : i >= N + 1 - n => g[n][i] = row(g[n], i)
             T == {n \in 0 .. N : done(n)}
  <2>3. 0 \in T
    <3>1. \A i \in 1 .. N + 1 : i >= N + 1 - 0 => none[i] = row(none, i)
      BY <1>1 DEF none
    <3> HIDE DEF row
    <3> QED
      BY <1>1, <2>2, <3>1
  <2>4. ASSUME NEW n \in 0 .. N - 1, n \in T PROVE n + 1 \in T
    <3>1. n + 1 \in 1 .. N /\ (n + 1) - 1 = n /\ n + 1 \in 0 .. N /\ n \in 0 .. N
      BY <1>1
    <3>2. PICK c : c = N + 1 - (n + 1)
      OBVIOUS
    <3>3. c = N - n /\ c \in 1 .. N /\ c \in 1 .. N + 1
      BY <1>1, <3>2
    <3>4. PICK t \in Values : t = g[n]
      BY <2>2, <3>1
    <3>5. PICK u : u = g[n + 1]
      OBVIOUS
    <3>6. u = [t EXCEPT ![c] = From(pattern, text, c, t[Past(pattern, c)])]
      BY <2>2, <3>1, <3>2, <3>4, <3>5 DEF fill
    <3>7. /\ \A i \in 1 .. N + 1 : i # c => u[i] = t[i]
          /\ u[c] = From(pattern, text, c, t[Past(pattern, c)])
      BY <3>3, <3>4, <3>5, <3>6 DEF Values
    <3>8. \A i \in 1 .. N : i >= c => u[Past(pattern, i)] = t[Past(pattern, i)]
      <4> SUFFICES ASSUME NEW i \in 1 .. N, i >= c PROVE u[Past(pattern, i)] = t[Past(pattern, i)]
        OBVIOUS
      <4>1. Past(pattern, i) \in i + 1 .. N + 1
        BY <1>6
      <4>2. PICK p \in i + 1 .. N + 1 : p = Past(pattern, i)
        BY <4>1
      <4>3. p \in 1 .. N + 1 /\ p # c
        BY <1>1, <3>3, <4>2
      <4> QED
        BY <3>7, <4>2, <4>3
    <3>9. ASSUME NEW i \in 1 .. N + 1, i >= c PROVE u[i] = row(u, i)
      <4>1. CASE i = c
        <5>1. ~ (c > N) /\ c >= c
          BY <1>1, <3>3
        <5> QED
          BY <3>3, <3>7, <3>8, <4>1, <5>1
      <4>2. CASE i # c
        <5>1. i >= N + 1 - n
          BY <1>1, <3>3, <3>9, <4>2
        <5>2. t[i] = row(t, i)
          BY <2>4, <3>4, <3>5, <5>1
        <5>3. CASE i > N
          BY <3>7, <4>2, <5>2, <5>3
        <5>4. CASE ~ (i > N)
          <6>1. i \in 1 .. N
            BY <1>1, <5>4
          <6> QED
            BY <3>7, <3>8, <3>9, <4>2, <5>2, <5>4, <6>1
        <5> QED
          BY <5>3, <5>4
      <4> QED
        BY <4>1, <4>2
    <3> QED
      BY <3>1, <3>2, <3>4, <3>5, <3>9
  <2>5. N \in T
    <3>1. \A n \in 0 .. N - 1 : n \in T => n + 1 \in T
      BY <2>4
    <3> HIDE DEF T
    <3>2. \A n \in 0 .. N : n \in T
      BY <1>1, <2>3, <3>1, Upwards
    <3> QED
      BY <1>1, <3>2, Steps
  <2>6. PICK t \in Values : t = g[N]
    BY <1>1, <2>2
  <2>7. \A i \in 1 .. N + 1 : t[i] = row(t, i)
    <3>1. \A i \in 1 .. N + 1 : i >= N + 1 - N
      BY <1>1
    <3> QED
      BY <2>5, <2>6, <3>1
  <2>8. Is(t)
    BY <2>6, <2>7 DEF Values
  <2> QED
    BY <2>8
<1>9. Is(m)
  <2> HIDE DEF Is
  <2> QED
    BY <1>8
<1> HIDE DEF m
<1>10. \A i \in 1 .. N + 1 : m[i] = row(m, i)
  BY <1>9
<1>11. Table(m, pattern, text)
  <2>1. \A i \in 1 .. N + 1 : row(m, i) \in Spots
    BY <1>1, <1>3
  <2>2. m \in [1 .. N + 1 -> Spots]
    <3> HIDE DEF row, Spots
    <3> QED
      BY <1>9, <2>1
  <2>3. N + 1 \in 1 .. N + 1 /\ N + 1 > N
    BY <1>1
  <2>4. \A i \in 1 .. N : i \in 1 .. N + 1 /\ ~ (i > N)
    BY <1>1
  <2>5. m[N + 1] = {Len(text) + 1}
    BY <1>10, <2>3
  <2>6. \A i \in 1 .. N : m[i] = From(pattern, text, i, m[Past(pattern, i)])
    BY <1>10, <2>4
  <2> QED
    BY <2>2, <2>5, <2>6 DEF Table
<1> QED
  BY <1>2, <1>11

(* A piece of a pattern that stands for one piece.                         *)
Admits(x, y) ==
  IF x = "?" THEN y # "/" ELSE y \in IF x \in DOMAIN ClassOf THEN ClassOf[x] ELSE {x}

(* A piece of a pattern takes the text from j up to k.                     *)
Takes(x, text, j, k) ==
  IF x = "**" THEN j <= k
  ELSE IF x = "*" THEN j <= k /\ \A o \in j .. k - 1 : text[o] # "/"
  ELSE k = j + 1 /\ j <= Len(text) /\ Admits(x, text[j])

(* What a stretch of a text is made of.                                    *)
LEMMA RangeSubSeq ==
  ASSUME NEW S, NEW text \in Seq(S), NEW a \in 1 .. Len(text) + 1, NEW b \in 0 .. Len(text)
  PROVE  Range(SubSeq(text, a, b)) = {text[o] : o \in a .. b}
<1>0. a \in Int /\ b \in Int /\ \A o \in a .. b : text[o] \in S
  OBVIOUS
<1>1. PICK t : t = SubSeq(text, a, b)
  OBVIOUS
<1>2. /\ t \in Seq(S) /\ Len(t) = IF a <= b THEN b - a + 1 ELSE 0
      /\ \A o \in 1 .. b - a + 1 : t[o] = text[a + o - 1]
  BY <1>0, <1>1, SubSeqProperties
<1>3. ASSUME NEW o \in a .. b PROVE \E q \in 1 .. Len(t) : t[q] = text[o]
  <2>1. o - a + 1 \in 1 .. Len(t) /\ o - a + 1 \in 1 .. b - a + 1 /\ a + (o - a + 1) - 1 = o
    BY <1>0, <1>2
  <2> QED
    BY <1>2, <2>1
<1>4. ASSUME NEW q \in 1 .. Len(t) PROVE \E o \in a .. b : t[q] = text[o]
  <2>1. a + q - 1 \in a .. b /\ q \in 1 .. b - a + 1
    BY <1>0, <1>2
  <2> QED
    BY <1>2, <2>1
<1>5. Range(t) = {t[q] : q \in 1 .. Len(t)}
  BY <1>2 DEF Range
<1>6. ASSUME NEW x \in Range(t) PROVE x \in {text[o] : o \in a .. b}
  <2>1. PICK q \in 1 .. Len(t) : x = t[q]
    BY <1>5
  <2> QED
    BY <1>4, <2>1
<1>7. ASSUME NEW x \in {text[o] : o \in a .. b} PROVE x \in Range(t)
  <2>1. PICK o \in a .. b : x = text[o]
    OBVIOUS
  <2>2. PICK q \in 1 .. Len(t) : t[q] = text[o]
    BY <1>3
  <2> QED
    BY <1>5, <2>1, <2>2
<1> QED
  BY <1>1, <1>6, <1>7

(* A row of the table, place by place.                                     *)
LEMMA FromIs ==
  ASSUME NEW S, NEW text \in Seq(S), NEW pattern, NEW i, NEW rest \in SUBSET (1 .. Len(text) + 1),
         NEW j \in 1 .. Len(text) + 1
  PROVE  j \in From(pattern, text, i, rest) <=> \E k \in rest : Takes(pattern[i], text, j, k)
<1>0. PICK x : x = pattern[i]
  OBVIOUS
<1>1. Len(text) \in Nat
  OBVIOUS
<1>2. x \in DOMAIN ClassOf => x \notin {"*", "**", "?"}
  BY AttributesAssumption
<1>3. "*" # "**" /\ "*" # "?" /\ "**" # "?"
  OBVIOUS
<1>4. CASE x = "**"
  <2>1. j \in From(pattern, text, i, rest) <=> \E k \in rest : j <= k
    BY <1>0, <1>2, <1>3, <1>4 DEF From
  <2>2. \A k : Takes(x, text, j, k) <=> j <= k
    BY <1>4 DEF Takes
  <2> QED
    BY <1>0, <2>1, <2>2
<1>5. CASE x = "*"
  <2>1. j \in From(pattern, text, i, rest) <=>
          \E k \in rest : j <= k /\ "/" \notin Range(SubSeq(text, j, k - 1))
    BY <1>0, <1>2, <1>3, <1>5 DEF From
  <2>2. \A k : Takes(x, text, j, k) <=> j <= k /\ \A o \in j .. k - 1 : text[o] # "/"
    BY <1>3, <1>5 DEF Takes
  <2>3. ASSUME NEW k \in rest
        PROVE  "/" \notin Range(SubSeq(text, j, k - 1)) <=> \A o \in j .. k - 1 : text[o] # "/"
    <3>1. k - 1 \in 0 .. Len(text)
      BY <1>1
    <3>2. Range(SubSeq(text, j, k - 1)) = {text[o] : o \in j .. k - 1}
      BY <3>1, RangeSubSeq
    <3> QED
      BY <3>2
  <2> QED
    BY <1>0, <2>1, <2>2, <2>3
<1>6. CASE x \notin {"*", "**"}
  <2>1. j \in From(pattern, text, i, rest) <=> j + 1 \in rest /\ Admits(x, text[j])
    <3>1. CASE x = "?"
      BY <1>0, <1>2, <1>6, <3>1 DEF From, Admits
    <3>2. CASE x \in DOMAIN ClassOf
      BY <1>0, <1>2, <1>6, <3>2 DEF From, Admits
    <3>3. CASE x # "?" /\ x \notin DOMAIN ClassOf
      BY <1>0, <1>6, <3>3 DEF From, Admits
    <3> QED
      BY <3>1, <3>2, <3>3
  <2>2. j + 1 \in rest => j <= Len(text)
    BY <1>1
  <2>3. \A k \in rest : Takes(x, text, j, k) <=> k = j + 1 /\ j <= Len(text) /\ Admits(x, text[j])
    BY <1>6 DEF Takes
  <2> QED
    BY <1>0, <2>1, <2>2, <2>3
<1> QED
  BY <1>4, <1>5, <1>6

(* m[i] is what can be reached: from it, what is past i.                   *)
LEMMA TableTakes ==
  ASSUME NEW P, NEW S, NEW pattern \in Seq(P), NEW text \in Seq(S), NEW m, Table(m, pattern, text),
         NEW i \in 1 .. Len(pattern), NEW j \in 1 .. Len(text) + 1
  PROVE  j \in m[i] <=> \E k \in m[Past(pattern, i)] : Takes(pattern[i], text, j, k)
<1>1. m[Past(pattern, i)] \in SUBSET (1 .. Len(text) + 1)
  <2>1. Past(pattern, i) \in i + 1 .. Len(pattern) + 1
    BY PastIs
  <2>2. Past(pattern, i) \in 1 .. Len(pattern) + 1
    BY <2>1
  <2> QED
    BY <2>2 DEF Table
<1>2. m[i] = From(pattern, text, i, m[Past(pattern, i)])
  BY DEF Table
<1> QED
  BY <1>1, <1>2, FromIs

(* A name of the text, and the part of the pattern that matches it.        *)
Piece(s, from, t) ==
  from + Len(s) <= Len(t) /\ \A o \in 1 .. Len(s) : s[o] = t[from + o] /\ s[o] # "/"

(* It matches from there on, and a ** before that may go on there.         *)
Onward(m, pattern, i, j) ==
  /\ j \in m[i]
  /\ i <= Len(pattern) /\ pattern[i] = "/" => \E k \in m[i + 1] : j <= k

(* If a part matches a name and the matcher can go on behind them, it can  *)
(* go on in front of them.                                                 *)
LEMMA PartMatches ==
  ASSUME NEW P, NEW S, NEW pattern \in Seq(P), NEW text \in Seq(S), NEW m, Table(m, pattern, text),
         NEW p \in Seq(P), NEW q \in Seq(S), NEW a \in Nat, NEW b \in Nat,
         Piece(p, a, pattern), Piece(q, b, text), NameMatches(p, q),
         Onward(m, pattern, a + Len(p) + 1, b + Len(q) + 1)
  PROVE  b + 1 \in m[a + 1]
<1>1. PICK L \in Nat, Q \in Nat, N \in Nat, M \in Nat :
        L = Len(p) /\ Q = Len(q) /\ N = Len(pattern) /\ M = Len(text)
  OBVIOUS
<1>2. /\ a + L <= N /\ \A o \in 1 .. L : p[o] = pattern[a + o] /\ p[o] # "/"
      /\ b + Q <= M /\ \A o \in 1 .. Q : q[o] = text[b + o] /\ q[o] # "/"
  BY <1>1 DEF Piece
<1>a. /\ a + L <= N /\ b + Q <= M
      /\ \A n \in 1 .. L : a + n \in 1 .. N
      /\ \A c \in 0 .. Q : b + c + 1 \in 1 .. M + 1
      /\ \A c \in 1 .. Q : b + c \in 1 .. M
  <2>1. a + L <= N /\ b + Q <= M
    BY <1>2
  <2> QED
    BY ONLY <1>1, <2>1
<1>c. ASSUME NEW c \in 0 .. Q, NEW d \in 0 .. Q, NEW j, j = b + c + 1
      PROVE  /\ (b + d + 1) - 1 = b + d /\ b + d + 1 \in Nat
             /\ d >= c => b + d + 1 >= j /\ j <= b + d + 1 /\ \A k \in Nat : b + Q + 1 <= k => k >= j
             /\ \A o \in j .. b + d : o - b \in 1 .. Q /\ b + (o - b) = o
             /\ d = c + 1 => j = b + d /\ d \in 1 .. Q
  BY ONLY <1>1, <1>c
<1>d. ASSUME NEW n \in 1 .. N, n < N PROVE n + 2 \in 1 .. N + 1
  BY ONLY <1>1, <1>d
<1>3. PICK cut \in [0 .. L -> 0 .. Q] :
        /\ cut[0] = 0 /\ cut[L] = Q
        /\ \A i \in 1 .. L :
             IF p[i] \in {"*", "**"} THEN cut[i] >= cut[i - 1]
             ELSE /\ cut[i] = cut[i - 1] + 1
                  /\ \/ p[i] = "?"
                     \/ q[cut[i]] \in IF p[i] \in DOMAIN ClassOf THEN ClassOf[p[i]] ELSE {p[i]}
  <2>1. DOMAIN p = 1 .. L
    BY <1>1
  <2> QED
    BY ONLY <1>1, <2>1, NameMatches(p, q) DEF NameMatches
<1>b. cut \in [0 .. L -> 0 .. Q] /\ cut[0] = 0 /\ cut[L] = Q
  BY <1>3
<1>0. /\ b + Q + 1 \in m[a + L + 1]
      /\ a + L + 1 <= N /\ pattern[a + L + 1] = "/" => \E k \in m[a + L + 1 + 1] : b + Q + 1 <= k
  BY <1>1 DEF Onward
<1> DEFINE T == {n \in 0 .. L : b + cut[n] + 1 \in m[a + n + 1]}
<1>4. L \in T
  <2>1. L \in 0 .. L
    BY ONLY <1>1
  <2>2. b + cut[L] + 1 \in m[a + L + 1]
    BY <1>0, <1>b
  <2> QED
    BY ONLY <2>1, <2>2
<1>5. ASSUME NEW n \in 1 .. L, n \in T PROVE n - 1 \in T
  <2>0. cut \in [0 .. L -> 0 .. Q] /\ n - 1 \in 0 .. L /\ n \in 0 .. L
    BY <1>3
  <2>1. PICK c \in 0 .. Q, d \in 0 .. Q : c = cut[n - 1] /\ d = cut[n]
    BY ONLY <2>0
  <2>a. a + n \in 1 .. N
    BY <1>a
  <2>b. b + c + 1 \in 1 .. M + 1
    BY <1>a, <2>1
  <2>2. PICK i \in 1 .. N, j \in 1 .. M + 1 : i = a + n /\ j = b + c + 1
    BY ONLY <2>a, <2>b
  <2>3. PICK x : x = p[n] /\ x = pattern[i] /\ x # "/"
    BY <1>2, <2>2
  <2>4. b + d + 1 \in m[i + 1]
    BY <1>5, <2>1, <2>2
  <2>5. j \in m[i] <=> \E k \in m[Past(pattern, i)] : Takes(x, text, j, k)
    <3>1. i \in 1 .. Len(pattern) /\ j \in 1 .. Len(text) + 1
      BY <1>1, <2>2
    <3> QED
      BY ONLY <2>3, <3>1, TableTakes, Table(m, pattern, text)
  <2>6. IF x \in {"*", "**"} THEN d >= c
        ELSE /\ d = c + 1
             /\ \/ x = "?"
                \/ q[d] \in IF x \in DOMAIN ClassOf THEN ClassOf[x] ELSE {x}
    BY <1>3, <2>1, <2>3
  <2>7. \E k \in m[Past(pattern, i)] : Takes(x, text, j, k)
    <3>1. CASE x = "**"
      <4>1. d >= c
        BY <2>6, <3>1
      <4>2. \A k \in Nat : k >= j => Takes(x, text, j, k)
        BY <3>1 DEF Takes
      <4>3. CASE i < N /\ pattern[i + 1] = "/"
        <5>1. n = L
          <6>1. n # L => n + 1 \in 1 .. L /\ a + (n + 1) = i + 1
            BY <1>1, <2>2
          <6> QED
            BY <1>2, <4>3, <6>1
        <5>2. a + L + 1 = i + 1 /\ a + L + 1 <= N /\ a + L + 1 + 1 = i + 2 /\ d = Q
          BY <1>1, <1>3, <2>1, <2>2, <4>3, <5>1
        <5>3. PICK k \in m[i + 2] : b + Q + 1 <= k
          BY <1>0, <4>3, <5>2
        <5>4. Past(pattern, i) = i + 2
          BY <1>1, <2>3, <3>1, <4>3 DEF Past
        <5>5. k \in Nat
          <6>1. i + 2 \in 1 .. N + 1
            BY <1>d, <4>3
          <6>2. m[i + 2] \in SUBSET (1 .. M + 1)
            BY <1>1, <6>1 DEF Table
          <6>3. k \in 1 .. M + 1
            BY ONLY <5>3, <6>2
          <6> QED
            BY ONLY <1>1, <6>3
        <5>6. k >= j
          <6>1. b + Q + 1 <= k
            BY <5>3
          <6> QED
            BY <1>c, <2>2, <4>1, <5>5, <6>1
        <5> QED
          BY <4>2, <5>3, <5>4, <5>5, <5>6
      <4>4. CASE ~ (i < N /\ pattern[i + 1] = "/")
        <5>1. Past(pattern, i) = i + 1
          BY <1>1, <2>3, <4>4 DEF Past
        <5>2. b + d + 1 \in Nat /\ b + d + 1 >= j
          BY <1>c, <2>2, <4>1
        <5> QED
          BY <2>4, <4>2, <5>1, <5>2
      <4> QED
        BY <4>3, <4>4
    <3>2. CASE x # "**"
      <4>1. Past(pattern, i) = i + 1
        BY <2>3, <3>2 DEF Past
      <4>2. Takes(x, text, j, b + d + 1)
        <5>1. CASE x = "*"
          <6>1. d >= c
            BY <2>6, <5>1
          <6>2. ASSUME NEW o \in j .. b + d PROVE text[o] # "/"
            <7>1. o - b \in 1 .. Q /\ b + (o - b) = o
              BY <1>c, <2>2
            <7> QED
              BY <1>2, <7>1
          <6>3. j <= b + d + 1 /\ (b + d + 1) - 1 = b + d
            BY <1>c, <2>2, <6>1
          <6> QED
            BY <5>1, <6>2, <6>3 DEF Takes
        <5>2. CASE x # "*"
          <6>1. d = c + 1 /\ j = b + d /\ d \in 1 .. Q /\ j <= M
            <7>1. d = c + 1
              BY <2>6, <3>2, <5>2
            <7>2. j = b + d /\ d \in 1 .. Q
              BY <1>c, <2>2, <7>1
            <7> QED
              BY ONLY <1>1, <1>a, <7>1, <7>2
          <6>2. text[j] = q[d] /\ text[j] # "/"
            BY <1>2, <6>1
          <6>3. Admits(x, text[j])
            BY <2>6, <3>2, <5>2, <6>1, <6>2 DEF Admits
          <6> QED
            BY <1>1, <3>2, <5>2, <6>1, <6>3 DEF Takes
        <5> QED
          BY <5>1, <5>2
      <4> QED
        BY <2>4, <4>1, <4>2
    <3> QED
      BY <3>1, <3>2
  <2>8. n - 1 \in 0 .. L /\ a + (n - 1) + 1 = i /\ b + cut[n - 1] + 1 = j
    BY <2>1, <2>2
  <2> QED
    BY <2>5, <2>7, <2>8
<1>6. 0 \in T
  <2> HIDE DEF T
  <2>1. \A n \in 0 .. L : n \in T
    BY <1>4, <1>5, Downwards
  <2> QED
    BY <1>1, <2>1
<1>7. b + 0 + 1 = b + 1 /\ a + 0 + 1 = a + 1
  OBVIOUS
<1> QED
  BY <1>3, <1>6, <1>7

(* Where a part of a text is, and what comes after it.                     *)
PartAt(from, parts, text, k, S) ==
  /\ parts[k] \in Seq(S) /\ from[k] \in Nat /\ from[k + 1] \in Nat
  /\ Piece(parts[k], from[k], text)
  /\ from[k + 1] = from[k] + Len(parts[k]) + 1
  /\ k < Len(parts) => from[k + 1] \in 1 .. Len(text) /\ text[from[k + 1]] = "/"
  /\ k = Len(parts) => from[k + 1] = Len(text) + 1
  /\ from[k] < from[k + 1] /\ from[k + 1] <= Len(text) + 1

(* The cuts of a whole text say this of each part.                         *)
LEMMA CutsPart ==
  ASSUME NEW S, NEW text \in Seq(S), NEW from, NEW parts,
         Cuts(from, parts, text, Len(text), "/", S), NEW k \in 1 .. Len(parts)
  PROVE  PartAt(from, parts, text, k, S)
<1>1. PICK K \in Nat, N \in Nat : K = Len(parts) /\ N = Len(text)
  <2>1. Len(parts) \in Nat /\ Len(text) \in Nat
    BY DEF Cuts
  <2> QED
    BY <2>1
<1>2. k \in 1 .. K + 1 /\ k + 1 \in 1 .. K + 1 /\ K + 1 \in 1 .. K + 1 /\ k \in 1 .. K /\ k < k + 1
      /\ k + 1 <= K + 1 /\ (k < K => k + 1 < K + 1)
  BY <1>1
<1>3. /\ from \in [1 .. K + 1 -> 0 .. N + 1] /\ from[K + 1] = N + 1
      /\ parts \in Seq(Seq(S))
      /\ from[k + 1] = from[k] + Len(parts[k]) + 1
      /\ \A o \in 1 .. Len(parts[k]) : parts[k][o] = text[from[k] + o] /\ parts[k][o] # "/"
      /\ k < K => text[from[k + 1]] = "/"
  BY ONLY <1>1, <1>2, Cuts(from, parts, text, Len(text), "/", S) DEF Cuts
<1>4. PICK a \in 0 .. N + 1, b \in 0 .. N + 1, L \in Nat : a = from[k] /\ b = from[k + 1] /\ L = Len(parts[k])
  <2>1. from[k] \in 0 .. N + 1 /\ from[k + 1] \in 0 .. N + 1
    BY ONLY <1>2, <1>3
  <2>2. parts[k] \in Seq(S)
    BY ONLY <1>1, <1>2, <1>3
  <2>3. Len(parts[k]) \in Nat
    BY ONLY <2>2
  <2> QED
    BY ONLY <2>1, <2>3
<1>5. parts[k] \in Seq(S)
  BY ONLY <1>1, <1>2, <1>3
<1>6. a < b /\ b <= N + 1 /\ (k < K => b < N + 1)
  <2>1. \A i, l \in 1 .. K + 1 : i <= l => from[i] <= from[l] /\ (i < l => from[i] < from[l])
    BY ONLY <1>1, Cuts(from, parts, text, Len(text), "/", S), CutsRise
  <2> QED
    BY <1>2, <1>3, <1>4, <2>1
<1>7. b = a + L + 1
  BY <1>3, <1>4
<1>8. a + L <= N /\ (k < K => b \in 1 .. N)
  BY ONLY <1>1, <1>4, <1>6, <1>7
<1>9. Piece(parts[k], from[k], text)
  BY ONLY <1>1, <1>3, <1>4, <1>8 DEF Piece
<1>10. from[k] \in Nat /\ from[k + 1] \in Nat /\ from[k] < from[k + 1] /\ from[k + 1] <= Len(text) + 1
  BY ONLY <1>1, <1>4, <1>6
<1>11. k < Len(parts) => from[k + 1] \in 1 .. Len(text) /\ text[from[k + 1]] = "/"
  BY ONLY <1>1, <1>3, <1>4, <1>8
<1>12. k = Len(parts) => from[k + 1] = Len(text) + 1
  BY ONLY <1>1, <1>3
<1> QED
  BY ONLY <1>3, <1>5, <1>9, <1>10, <1>11, <1>12 DEF PartAt

(* The separators match each other.                                        *)
LEMMA OnwardAfter ==
  ASSUME NEW P, NEW S, NEW pattern \in Seq(P), NEW text \in Seq(S), NEW m, Table(m, pattern, text),
         NEW i \in Nat, NEW j \in Nat,
         \/ i = Len(pattern) + 1 /\ j = Len(text) + 1
         \/ /\ i \in 1 .. Len(pattern) /\ pattern[i] = "/"
            /\ j \in 1 .. Len(text) /\ text[j] = "/"
            /\ j + 1 \in m[i + 1]
  PROVE  Onward(m, pattern, i, j)
<1>1. PICK N \in Nat, M \in Nat : N = Len(pattern) /\ M = Len(text)
  OBVIOUS
<1>2. CASE i = N + 1 /\ j = M + 1
  <2>1. ~ (i <= N)
    BY <1>1, <1>2
  <2>2. m[i] = {M + 1}
    BY <1>1, <1>2 DEF Table
  <2> QED
    BY <1>1, <1>2, <2>1, <2>2 DEF Onward
<1>3. CASE /\ i \in 1 .. N /\ pattern[i] = "/" /\ j \in 1 .. M /\ text[j] = "/" /\ j + 1 \in m[i + 1]
  <2>1. Past(pattern, i) = i + 1
    BY <1>3 DEF Past
  <2>2. Takes("/", text, j, j + 1)
    <3>1. "/" \notin DOMAIN ClassOf
      BY AttributesAssumption
    <3>2. Admits("/", "/")
      BY <3>1 DEF Admits
    <3>3. j <= M
      BY <1>1, <1>3
    <3> QED
      BY <1>1, <1>3, <3>2, <3>3 DEF Takes
  <2>3. i \in 1 .. Len(pattern) /\ j \in 1 .. Len(text) + 1
    BY <1>1, <1>3
  <2>4. j \in m[i] <=> \E k \in m[Past(pattern, i)] : Takes(pattern[i], text, j, k)
    BY ONLY <2>3, Table(m, pattern, text), TableTakes
  <2>5. j \in m[i]
    BY <1>3, <2>1, <2>2, <2>4
  <2>6. \E k \in m[i + 1] : j <= k
    BY <1>3
  <2> QED
    BY <2>5, <2>6 DEF Onward
<1> QED
  BY <1>1, <1>2, <1>3

(* The parts of a pattern match the names of a text, as git means it.      *)
PartsMatch(parts, whole, cut) ==
  /\ cut \in [0 .. Len(parts) -> 0 .. Len(whole)]
  /\ cut[0] = 0 /\ cut[Len(parts)] = Len(whole)
  /\ \A i \in DOMAIN parts :
       IF parts[i] = <<"**">> /\ Len(parts) > 1
         THEN cut[i] >= cut[i - 1] + (IF i = Len(parts) THEN 1 ELSE 0)
         ELSE cut[i] = cut[i - 1] + 1 /\ NameMatches(parts[i], whole[cut[i]])

(* Then the code's matcher takes it too.                                   *)
LEMMA PartsFound ==
  ASSUME NEW P, NEW S, NEW pattern \in Seq(P), NEW text \in Seq(S), NEW m, Table(m, pattern, text),
         NEW pf, NEW parts, Cuts(pf, parts, pattern, Len(pattern), "/", P),
         NEW tf, NEW whole, Cuts(tf, whole, text, Len(text), "/", S),
         NEW cut, PartsMatch(parts, whole, cut)
  PROVE  1 \in m[1]
<1>1. PICK K \in Nat \ {0}, M \in Nat \ {0}, N \in Nat, Z \in Nat :
        K = Len(parts) /\ M = Len(whole) /\ N = Len(pattern) /\ Z = Len(text)
  <2>1. Len(parts) \in Nat \ {0} /\ Len(whole) \in Nat \ {0}
    BY DEF Cuts
  <2> QED
    BY <2>1
<1>2. \A k \in 1 .. K : PartAt(pf, parts, pattern, k, P)
  BY <1>1, CutsPart
<1>3. \A k \in 1 .. M : PartAt(tf, whole, text, k, S)
  BY <1>1, CutsPart
<1>4. /\ cut \in [0 .. K -> 0 .. M] /\ cut[0] = 0 /\ cut[K] = M
      /\ \A i \in 1 .. K :
           IF parts[i] = <<"**">> /\ K > 1
             THEN cut[i] >= cut[i - 1] + (IF i = K THEN 1 ELSE 0)
             ELSE cut[i] = cut[i - 1] + 1 /\ NameMatches(parts[i], whole[cut[i]])
  <2>1. DOMAIN parts = 1 .. K
    BY <1>1 DEF Cuts
  <2> QED
    BY ONLY <1>1, <2>1, PartsMatch(parts, whole, cut) DEF PartsMatch
<1>5. \A i, l \in 1 .. M + 1 : i <= l => tf[i] <= tf[l]
  BY <1>1, CutsRise
<1>6. tf[M + 1] = Z + 1 /\ tf[1] = 0 /\ pf[1] = 0 /\ \A l \in 1 .. M + 1 : tf[l] \in Nat
  <2>1. tf \in [1 .. M + 1 -> 0 .. Z + 1] /\ tf[M + 1] = Z + 1 /\ tf[1] = 0
    BY ONLY <1>1, Cuts(tf, whole, text, Len(text), "/", S) DEF Cuts
  <2>2. pf[1] = 0
    BY ONLY Cuts(pf, parts, pattern, Len(pattern), "/", P) DEF Cuts
  <2>3. 0 .. Z + 1 \subseteq Nat
    OBVIOUS
  <2> QED
    BY ONLY <2>1, <2>2, <2>3
<1> DEFINE After(k) == IF k = K THEN TRUE ELSE cut[k] < M /\ tf[cut[k] + 1] + 1 \in m[pf[k + 1] + 1]
<1>7. ASSUME NEW k \in 1 .. K, After(k)
      PROVE  cut[k - 1] < M /\ tf[cut[k - 1] + 1] + 1 \in m[pf[k] + 1]
  <2>1. k - 1 \in 0 .. K /\ k \in 0 .. K /\ (k < K \/ k = K)
    BY <1>1
  <2>2. PICK c \in 0 .. M, d \in 0 .. M : c = cut[k - 1] /\ d = cut[k]
    BY ONLY <1>4, <2>1
  <2>3. PartAt(pf, parts, pattern, k, P)
    BY <1>2
  <2>4. PICK a \in Nat, b \in Nat : a = pf[k] /\ b = pf[k + 1]
    BY <2>3 DEF PartAt
  <2>5. PICK p \in Seq(P) : p = parts[k]
    BY <2>3 DEF PartAt
  <2>6. /\ Piece(p, a, pattern) /\ b = a + Len(p) + 1
        /\ k < K => b \in 1 .. N /\ pattern[b] = "/"
        /\ k = K => b = N + 1
    BY ONLY <1>1, <2>3, <2>4, <2>5 DEF PartAt
  <2>7. IF p = <<"**">> /\ K > 1
          THEN d >= c + (IF k = K THEN 1 ELSE 0)
          ELSE d = c + 1 /\ NameMatches(p, whole[d])
    BY <1>4, <2>2, <2>5
  <2>8. k < K => d < M /\ tf[d + 1] + 1 \in m[b + 1]
    BY <1>7, <2>2, <2>4
  <2>9. k = K => d = M
    BY <1>4, <2>2
  <2>10. CASE p = <<"**">> /\ K > 1
    <3>1. d >= c + (IF k = K THEN 1 ELSE 0)
      BY <2>7, <2>10
    <3>2. c < M /\ c <= d
      BY ONLY <1>1, <2>2, <2>8, <2>9, <2>1, <3>1
    <3>3. Len(p) = 1 /\ p[1] = "**"
      BY <2>10
    <3>4. a + 1 <= N /\ pattern[a + 1] = "**" /\ b = a + 2
      <4>1. a + 1 <= N /\ p[1] = pattern[a + 1]
        BY <1>1, <2>6, <3>3 DEF Piece
      <4>2. b = a + 1 + 1
        BY <2>6, <3>3
      <4> QED
        BY <3>3, <4>1, <4>2
    <3>5. c + 1 \in 1 .. M + 1 /\ d + 1 \in 1 .. M + 1 /\ c + 1 <= d + 1 /\ M + 1 \in 1 .. M + 1
          /\ c + 1 <= M + 1
      BY ONLY <1>1, <3>2
    <3>6. PICK s \in Nat, t \in Nat : s = tf[c + 1] /\ t = tf[d + 1]
      BY <1>6, <3>5
    <3>7. s <= t /\ s <= Z + 1 /\ c + 1 \in 1 .. M
      <4>1. c + 1 \in 1 .. M
        BY ONLY <1>1, <3>2
      <4> QED
        BY <1>5, <1>6, <3>5, <3>6, <4>1
    <3>8. s + 1 \in 1 .. Z + 1
      <4>1. PartAt(tf, whole, text, c + 1, S)
        BY <1>3, <3>7
      <4>2. PICK u \in Nat : u = tf[c + 1 + 1] /\ s < u /\ u <= Z + 1
        BY <1>1, <3>6, <4>1 DEF PartAt
      <4>3. s < u /\ u <= Z + 1
        BY <4>2
      <4> QED
        BY ONLY <1>1, <4>3
    <3>9. \E x \in m[Past(pattern, a + 1)] : Takes("**", text, s + 1, x)
      <4>1. CASE k < K
        <5>1. t + 1 \in m[b + 1] /\ s + 1 <= t + 1
          <6>1. t + 1 \in m[b + 1]
            BY <2>8, <3>6, <4>1
          <6>2. s <= t
            BY <3>7
          <6>3. s + 1 <= t + 1
            BY ONLY <6>2
          <6> QED
            BY <6>1, <6>3
        <5>2. b \in 1 .. N /\ pattern[b] = "/"
          BY <2>6, <4>1
        <5>3. a + 1 < N /\ (a + 1) + 1 = b /\ (a + 1) + 2 = b + 1
          <6>1. b = a + 2 /\ b \in 1 .. N
            BY <3>4, <5>2
          <6> QED
            BY ONLY <6>1
        <5>4. Past(pattern, a + 1) = b + 1
          BY <1>1, <3>4, <5>2, <5>3 DEF Past
        <5>5. Takes("**", text, s + 1, t + 1)
          BY <5>1 DEF Takes
        <5> QED
          BY <5>1, <5>4, <5>5
      <4>2. CASE k = K
        <5>1. ~ (a + 1 < N) /\ (a + 1) + 1 = N + 1
          BY <1>1, <2>6, <3>4, <4>2
        <5>2. Past(pattern, a + 1) = N + 1
          BY <1>1, <5>1 DEF Past
        <5>3. Z + 1 \in m[N + 1]
          BY <1>1 DEF Table
        <5>4. s + 1 <= Z + 1
          BY <3>8
        <5>5. Takes("**", text, s + 1, Z + 1)
          BY <5>4 DEF Takes
        <5> QED
          BY <5>2, <5>3, <5>5
      <4> QED
        BY <2>1, <4>1, <4>2
    <3>10. s + 1 \in m[a + 1]
      <4>1. a + 1 \in 1 .. Len(pattern) /\ s + 1 \in 1 .. Len(text) + 1
        BY <1>1, <3>4, <3>8
      <4>2. s + 1 \in m[a + 1] <=> \E x \in m[Past(pattern, a + 1)] : Takes(pattern[a + 1], text, s + 1, x)
        BY ONLY <4>1, Table(m, pattern, text), TableTakes
      <4> QED
        BY <3>4, <3>9, <4>2
    <3> QED
      BY <2>2, <2>4, <3>2, <3>6, <3>10
  <2>11. CASE ~ (p = <<"**">> /\ K > 1)
    <3>1. d = c + 1 /\ NameMatches(p, whole[d])
      BY <2>7, <2>11
    <3>2. d \in 1 .. M /\ c < M /\ (d < M \/ d = M)
      BY ONLY <1>1, <2>2, <3>1
    <3>3. PartAt(tf, whole, text, d, S)
      BY <1>3, <3>2
    <3>4. PICK q \in Seq(S), s \in Nat, t \in Nat : q = whole[d] /\ s = tf[d] /\ t = tf[d + 1]
      BY <3>3 DEF PartAt
    <3>5. /\ Piece(q, s, text) /\ t = s + Len(q) + 1
          /\ d < M => t \in 1 .. Z /\ text[t] = "/"
          /\ d = M => t = Z + 1
      BY ONLY <1>1, <3>3, <3>4 DEF PartAt
    <3>6. Onward(m, pattern, b, t)
      <4>1. CASE k = K
        <5>1. b = N + 1 /\ t = Z + 1
          BY <2>6, <2>9, <3>5, <4>1
        <5> QED
          BY <1>1, <5>1, OnwardAfter
      <4>2. CASE k < K
        <5>1. b \in 1 .. N /\ pattern[b] = "/" /\ t \in 1 .. Z /\ text[t] = "/" /\ t + 1 \in m[b + 1]
          BY <2>6, <2>8, <3>4, <3>5, <4>2
        <5> QED
          BY <1>1, <5>1, OnwardAfter
      <4> QED
        BY <2>1, <4>1, <4>2
    <3>7. s + 1 \in m[a + 1]
      <4>1. Onward(m, pattern, a + Len(p) + 1, s + Len(q) + 1) /\ NameMatches(p, q)
        BY <2>6, <3>1, <3>4, <3>5, <3>6
      <4> QED
        BY ONLY <2>6, <3>5, <4>1, Table(m, pattern, text), PartMatches
    <3> QED
      BY <2>2, <2>4, <3>1, <3>2, <3>4, <3>7
  <2> QED
    BY <2>10, <2>11
<1> DEFINE T == {k \in 0 .. K : IF k = K THEN TRUE ELSE After(k)}
<1>8. K \in T
  BY <1>1
<1>9. ASSUME NEW k \in 1 .. K, k \in T PROVE k - 1 \in T
  <2>1. (k - 1) + 1 = k /\ k - 1 \in 0 .. K
    BY <1>1
  <2>2. After(k)
    BY <1>9
  <2>3. cut[k - 1] < M /\ tf[cut[k - 1] + 1] + 1 \in m[pf[k] + 1]
    BY <1>7, <2>2
  <2> QED
    BY <2>1, <2>3
<1>10. 0 \in T
  <2> HIDE DEF T
  <2>1. \A k \in 0 .. K : k \in T
    BY <1>1, <1>8, <1>9, Downwards
  <2> QED
    BY <1>1, <2>1
<1>11. tf[cut[0] + 1] + 1 \in m[pf[0 + 1] + 1]
  BY <1>1, <1>10
<1> QED
  BY <1>4, <1>6, <1>11

(* The text after the first g[i] pieces is what the pattern is to match    *)
(* after its first i.                                                      *)
Aligned(g, pattern, text) ==
  /\ g \in [0 .. Len(pattern) -> 0 .. Len(text)]
  /\ g[0] = 0 /\ g[Len(pattern)] = Len(text)
  /\ \A i \in 1 .. Len(pattern) :
       IF pattern[i] = "*" THEN g[i - 1] <= g[i] /\ \A o \in g[i - 1] + 1 .. g[i] : text[o] # "/"
       ELSE g[i] = g[i - 1] + 1 /\ Admits(pattern[i], text[g[i]])

(* Only * takes more than a piece, and nothing but a / takes a /.          *)
Narrow(pattern) ==
  \A i \in 1 .. Len(pattern) :
    /\ pattern[i] # "**"
    /\ pattern[i] \in DOMAIN ClassOf => "/" \notin ClassOf[pattern[i]]

(* A narrow pattern that matches is aligned with the text, piece by piece. *)
LEMMA Aligns ==
  ASSUME NEW P, NEW S, NEW pattern \in Seq(P), NEW text \in Seq(S), NEW m, Table(m, pattern, text),
         Narrow(pattern), 1 \in m[1]
  PROVE  \E g : Aligned(g, pattern, text)
<1>1. PICK N \in Nat, Z \in Nat : N = Len(pattern) /\ Z = Len(text)
  OBVIOUS
<1>2. m \in [1 .. N + 1 -> SUBSET (1 .. Z + 1)] /\ m[N + 1] = {Z + 1}
  BY ONLY <1>1, Table(m, pattern, text) DEF Table
<1> DEFINE next(n, j) == IF \E k \in m[n + 1] : Takes(pattern[n], text, j, k)
                           THEN CHOOSE k \in m[n + 1] : Takes(pattern[n], text, j, k)
                           ELSE j
           G == [n \in 1 .. N |-> [j \in 1 .. Z + 1 |-> next(n, j)]]
<1>3. G \in [1 .. N -> [1 .. Z + 1 -> 1 .. Z + 1]]
  <2>1. ASSUME NEW n \in 1 .. N, NEW j \in 1 .. Z + 1 PROVE next(n, j) \in 1 .. Z + 1
    <3>1. n + 1 \in 1 .. N + 1
      BY ONLY <1>1
    <3>2. m[n + 1] \subseteq 1 .. Z + 1
      BY ONLY <1>2, <3>1
    <3> QED
      BY ONLY <3>2
  <2> HIDE DEF next
  <2> QED
    BY <2>1
<1>4. PICK h : Solves(h, N, 1 .. Z + 1, 1, G)
  <2>1. 1 \in 1 .. Z + 1
    BY ONLY <1>1
  <2> HIDE DEF G
  <2> QED
    BY ONLY <1>1, <1>3, <2>1, Recursion
<1>5. /\ h \in [0 .. N -> 1 .. Z + 1] /\ h[0] = 1
      /\ \A n \in 1 .. N : h[n - 1] \in 1 .. Z + 1 /\ h[n] = next(n, h[n - 1])
  <2>1. h \in [0 .. N -> 1 .. Z + 1] /\ h[0] = 1 /\ \A n \in 1 .. N : h[n] = G[n][h[n - 1]]
    BY ONLY <1>4 DEF Solves
  <2>2. \A n \in 1 .. N : n - 1 \in 0 .. N
    BY ONLY <1>1
  <2>3. \A n \in 1 .. N, j \in 1 .. Z + 1 : G[n][j] = next(n, j)
    <3> HIDE DEF next
    <3> QED
      OBVIOUS
  <2> HIDE DEF next, G
  <2> QED
    BY ONLY <2>1, <2>2, <2>3
<1>6. ASSUME NEW n \in 1 .. N, h[n - 1] \in m[n]
      PROVE  h[n] \in m[n + 1] /\ Takes(pattern[n], text, h[n - 1], h[n])
  <2>1. PICK j \in 1 .. Z + 1 : j = h[n - 1] /\ h[n] = next(n, j)
    BY <1>5
  <2>2. Past(pattern, n) = n + 1
    BY <1>1 DEF Narrow, Past
  <2>3. n \in 1 .. Len(pattern) /\ j \in 1 .. Len(text) + 1
    BY <1>1
  <2>4. j \in m[n] <=> \E k \in m[Past(pattern, n)] : Takes(pattern[n], text, j, k)
    BY ONLY <2>3, Table(m, pattern, text), TableTakes
  <2>5. \E k \in m[n + 1] : Takes(pattern[n], text, j, k)
    BY <1>6, <2>1, <2>2, <2>4
  <2>6. next(n, j) \in m[n + 1] /\ Takes(pattern[n], text, j, next(n, j))
    BY ONLY <2>5
  <2> HIDE DEF next
  <2> QED
    BY <2>1, <2>6
<1> HIDE DEF next, G
<1> DEFINE T == {n \in 0 .. N : h[n] \in m[n + 1]}
<1>7. \A n \in 0 .. N : n \in T
  <2>1. 0 \in T
    BY <1>1, <1>5
  <2>2. ASSUME NEW n \in 0 .. N - 1, n \in T PROVE n + 1 \in T
    <3>1. n + 1 \in 1 .. N /\ (n + 1) - 1 = n /\ n + 1 \in 0 .. N
      BY ONLY <1>1
    <3>2. h[n] \in m[n + 1]
      BY <2>2
    <3>3. h[n + 1] \in m[(n + 1) + 1]
      BY <1>6, <3>1, <3>2
    <3> QED
      BY <3>1, <3>3
  <2> HIDE DEF T
  <2> QED
    BY ONLY <1>1, <2>1, <2>2, Upwards
<1>8. h[N] = Z + 1
  BY <1>1, <1>2, <1>7
<1> DEFINE g == [n \in 0 .. N |-> h[n] - 1]
<1>9. /\ g \in [0 .. N -> 0 .. Z]
      /\ \A n \in 0 .. N : h[n] = g[n] + 1
  <2>1. \A j \in 1 .. Z + 1 : j - 1 \in 0 .. Z /\ j = (j - 1) + 1
    BY ONLY <1>1
  <2> QED
    BY ONLY <1>5, <2>1
<1>10. g[0] = 0 /\ g[N] = Z
  <2>1. 0 \in 0 .. N /\ N \in 0 .. N /\ (Z + 1) - 1 = Z /\ 1 - 1 = 0
    BY ONLY <1>1
  <2> QED
    BY <1>5, <1>8, <2>1
<1>11. ASSUME NEW i \in 1 .. N
       PROVE  IF pattern[i] = "*" THEN g[i - 1] <= g[i] /\ \A o \in g[i - 1] + 1 .. g[i] : text[o] # "/"
              ELSE g[i] = g[i - 1] + 1 /\ Admits(pattern[i], text[g[i]])
  <2>1. i - 1 \in 0 .. N /\ i \in 0 .. N /\ (i - 1) + 1 = i
    BY ONLY <1>1
  <2>2. Takes(pattern[i], text, h[i - 1], h[i])
    BY <1>6, <1>7, <2>1
  <2>3. PICK c \in 0 .. Z, d \in 0 .. Z : c = g[i - 1] /\ d = g[i] /\ h[i - 1] = c + 1 /\ h[i] = d + 1
    BY <1>9, <2>1
  <2>4. PICK x : x = pattern[i] /\ x # "**"
    BY <1>1 DEF Narrow
  <2>5. Takes(x, text, c + 1, d + 1)
    BY <2>2, <2>3, <2>4
  <2>6. (d + 1) - 1 = d /\ (c + 1 <= d + 1 => c <= d) /\ (d + 1 = c + 1 + 1 => d = c + 1)
    OBVIOUS
  <2>7. CASE x = "*"
    BY <2>3, <2>4, <2>5, <2>6, <2>7 DEF Takes
  <2>8. CASE x # "*"
    <3>1. d + 1 = c + 1 + 1 /\ Admits(x, text[c + 1])
      BY <2>4, <2>5, <2>8 DEF Takes
    <3>2. d = c + 1
      BY <2>6, <3>1
    <3> QED
      BY <2>3, <2>4, <2>8, <3>1, <3>2
  <2> QED
    BY <2>7, <2>8
<1> HIDE DEF g
<1> QED
  BY ONLY <1>1, <1>9, <1>10, <1>11 DEF Aligned

(* Where a text ends, or one of its names.                                 *)
Ended(t, at) == at = Len(t) \/ (at + 1 \in 1 .. Len(t) /\ t[at + 1] = "/")

(* A part and a name that begin aligned end aligned, and match as git      *)
(* means it.                                                               *)
LEMMA PartAsFound ==
  ASSUME NEW P, NEW S, NEW pattern \in Seq(P), NEW text \in Seq(S), NEW g,
         Aligned(g, pattern, text), Narrow(pattern),
         NEW p \in Seq(P), NEW q \in Seq(S), NEW a \in Nat, NEW b \in Nat,
         Piece(p, a, pattern), Piece(q, b, text),
         Ended(pattern, a + Len(p)), Ended(text, b + Len(q)), g[a] = b
  PROVE  g[a + Len(p)] = b + Len(q) /\ NameMatches(p, q)
<1>1. PICK L \in Nat, Q \in Nat, N \in Nat, Z \in Nat :
        L = Len(p) /\ Q = Len(q) /\ N = Len(pattern) /\ Z = Len(text)
  OBVIOUS
<1>2. /\ a + L <= N /\ \A o \in 1 .. L : p[o] = pattern[a + o] /\ p[o] # "/"
      /\ b + Q <= Z /\ \A o \in 1 .. Q : q[o] = text[b + o] /\ q[o] # "/"
  BY <1>1 DEF Piece
<1>3. /\ g \in [0 .. N -> 0 .. Z] /\ g[N] = Z
      /\ \A i \in 1 .. N :
           IF pattern[i] = "*" THEN g[i - 1] <= g[i] /\ \A o \in g[i - 1] + 1 .. g[i] : text[o] # "/"
           ELSE g[i] = g[i - 1] + 1 /\ Admits(pattern[i], text[g[i]])
  BY ONLY <1>1, Aligned(g, pattern, text) DEF Aligned
<1>4. /\ a + L = N \/ (a + L + 1 \in 1 .. N /\ pattern[a + L + 1] = "/")
      /\ b + Q = Z \/ (b + Q + 1 \in 1 .. Z /\ text[b + Q + 1] = "/")
  BY <1>1 DEF Ended
<1>a. /\ \A n \in 1 .. L : a + n \in 1 .. N /\ a + n \in 0 .. N /\ a + (n - 1) \in 0 .. N
                         /\ (a + n) - 1 = a + (n - 1) /\ n - 1 \in 0 .. L
      /\ \A n \in 0 .. L : a + n \in 0 .. N
      /\ a + 0 = a /\ L \in 0 .. L /\ 0 \in 0 .. L
  <2>1. a + L <= N
    BY <1>2
  <2> QED
    BY ONLY <1>1, <2>1
(* No piece of the name takes a /.                                         *)
<1>5. ASSUME NEW n \in 1 .. L
      PROVE  /\ p[n] = "*" => g[a + (n - 1)] <= g[a + n]
             /\ p[n] # "*" => g[a + n] = g[a + (n - 1)] + 1 /\ Admits(p[n], text[g[a + n]])
             /\ \A o \in g[a + (n - 1)] + 1 .. g[a + n] : text[o] # "/"
  <2>1. PICK i, x : i \in 1 .. N /\ i = a + n /\ i - 1 = a + (n - 1) /\ x = p[n] /\ x = pattern[i] /\ x # "/"
    BY <1>2, <1>a
  <2>2. PICK c \in 0 .. Z, d \in 0 .. Z : c = g[i - 1] /\ d = g[i]
    BY <1>3, <1>a, <2>1
  <2>3. IF x = "*" THEN c <= d /\ \A o \in c + 1 .. d : text[o] # "/"
        ELSE d = c + 1 /\ Admits(x, text[d])
    BY <1>3, <2>1, <2>2
  <2>4. ASSUME x # "*", NEW o \in c + 1 .. d PROVE text[o] # "/"
    <3>1. d = c + 1 /\ Admits(x, text[d])
      BY <2>3, <2>4
    <3>2. o = d
      BY ONLY <3>1
    <3>3. x \in DOMAIN ClassOf => "/" \notin ClassOf[x]
      BY <1>1, <2>1 DEF Narrow
    <3>4. text[d] # "/"
      BY <2>1, <3>1, <3>3 DEF Admits
    <3> QED
      BY <3>2, <3>4
  <2> QED
    BY <2>1, <2>2, <2>3, <2>4
<1> DEFINE T == {n \in 0 .. L : b <= g[a + n] /\ g[a + n] <= b + Q}
<1>6. \A n \in 0 .. L : n \in T
  <2>1. 0 \in T
    <3>1. b <= b /\ b <= b + Q
      BY ONLY <1>1
    <3> QED
      BY <1>a, <3>1
  <2>2. ASSUME NEW n \in 0 .. L - 1, n \in T PROVE n + 1 \in T
    <3>1. n + 1 \in 1 .. L /\ (n + 1) - 1 = n /\ n + 1 \in 0 .. L
      BY ONLY <1>1
    <3>2. PICK c \in 0 .. Z, d \in 0 .. Z : c = g[a + n] /\ d = g[a + (n + 1)]
      BY <1>3, <1>a, <3>1
    <3>3. b <= c /\ c <= b + Q
      BY <2>2, <3>2
    <3>4. c <= d
      <4>1. p[n + 1] = "*" => c <= d
        BY <1>5, <3>1, <3>2
      <4>2. p[n + 1] # "*" => d = c + 1
        BY <1>5, <3>1, <3>2
      <4>3. d = c + 1 => c <= d
        OBVIOUS
      <4> QED
        BY <4>1, <4>2, <4>3
    <3>5. \A o \in c + 1 .. d : text[o] # "/"
      BY <1>5, <3>1, <3>2
    <3>6. d <= b + Q
      <4>1. SUFFICES ASSUME d > b + Q PROVE FALSE
        OBVIOUS
      <4>2. b + Q # Z /\ b + Q + 1 \in c + 1 .. d
        BY ONLY <1>1, <3>3, <4>1
      <4> QED
        BY <1>4, <3>5, <4>2
    <3>7. b <= d
      BY ONLY <3>3, <3>4
    <3> QED
      BY <3>1, <3>2, <3>6, <3>7
  <2> HIDE DEF T
  <2> QED
    BY ONLY <1>1, <2>1, <2>2, Upwards
<1>7. g[a + L] = b + Q
  <2>1. PICK e \in 0 .. Z : e = g[a + L]
    BY <1>3, <1>a
  <2>2. b <= e /\ e <= b + Q
    BY <1>6, <1>a, <2>1
  <2>3. CASE a + L = N
    <3>1. e = Z /\ b + Q <= Z
      BY <1>2, <1>3, <2>1, <2>3
    <3> QED
      BY <2>1, <2>2, <3>1
  <2>4. CASE a + L + 1 \in 1 .. N /\ pattern[a + L + 1] = "/"
    <3>1. PICK i \in 1 .. N : i = a + L + 1 /\ i - 1 = a + L
      BY <2>4
    <3>2. g[i] = e + 1 /\ Admits("/", text[e + 1])
      BY <1>3, <2>1, <2>4, <3>1
    <3>3. text[e + 1] = "/"
      BY <3>2, AttributesAssumption DEF Admits
    <3>4. e >= b + Q
      <4>1. SUFFICES ASSUME e < b + Q PROVE FALSE
        OBVIOUS
      <4>2. e + 1 - b \in 1 .. Q /\ b + (e + 1 - b) = e + 1
        BY ONLY <1>1, <2>2, <4>1
      <4>3. PICK o \in 1 .. Q : b + o = e + 1
        BY ONLY <4>2
      <4>4. q[o] = text[e + 1] /\ q[o] # "/"
        BY <1>2, <4>3
      <4> QED
        BY ONLY <3>3, <4>4
    <3>5. e <= b + Q
      BY <2>2
    <3>6. e = b + Q
      BY ONLY <3>4, <3>5
    <3> QED
      BY <2>1, <3>6
  <2> QED
    BY <1>4, <2>3, <2>4
<1> DEFINE cut == [n \in 0 .. L |-> g[a + n] - b]
<1>8. ASSUME NEW n \in 0 .. L PROVE cut[n] \in 0 .. Q /\ g[a + n] = b + cut[n]
  <2>1. PICK e \in 0 .. Z : e = g[a + n]
    BY <1>3, <1>a
  <2>2. b <= e /\ e <= b + Q
    BY <1>6, <2>1
  <2>3. e - b \in 0 .. Q /\ e = b + (e - b)
    BY ONLY <1>1, <2>2
  <2> QED
    BY <2>1, <2>3
<1>9. cut \in [0 .. L -> 0 .. Q] /\ cut[0] = 0 /\ cut[L] = Q
  <2>1. b - b = 0 /\ (b + Q) - b = Q
    BY ONLY <1>1
  <2> QED
    BY <1>7, <1>8, <1>a, <2>1
<1>10. ASSUME NEW n \in 1 .. L
       PROVE  IF p[n] \in {"*", "**"} THEN cut[n] >= cut[n - 1]
              ELSE /\ cut[n] = cut[n - 1] + 1
                   /\ \/ p[n] = "?"
                      \/ q[cut[n]] \in IF p[n] \in DOMAIN ClassOf THEN ClassOf[p[n]] ELSE {p[n]}
  <2>1. n \in 0 .. L /\ n - 1 \in 0 .. L
    BY <1>a
  <2>2. PICK c \in 0 .. Q, d \in 0 .. Q :
          c = cut[n - 1] /\ d = cut[n] /\ g[a + (n - 1)] = b + c /\ g[a + n] = b + d
    BY <1>8, <2>1
  <2>3. PICK x : x = p[n] /\ x # "**"
    BY <1>1, <1>2, <1>a DEF Narrow
  <2>4. CASE x = "*"
    <3>1. b + c <= b + d
      BY <1>5, <2>2, <2>3, <2>4
    <3>2. d >= c
      BY ONLY <3>1
    <3> QED
      BY <2>2, <2>3, <2>4, <3>2
  <2>5. CASE x # "*"
    <3>1. b + d = b + c + 1 /\ Admits(x, text[b + d])
      BY <1>5, <2>2, <2>3, <2>5
    <3>2. d = c + 1 /\ d \in 1 .. Q
      <4>1. b + d = b + c + 1
        BY <3>1
      <4> QED
        BY ONLY <1>1, <4>1
    <3>3. Admits(x, q[d])
      BY <1>2, <3>1, <3>2
    <3>4. x = "?" \/ q[d] \in IF x \in DOMAIN ClassOf THEN ClassOf[x] ELSE {x}
      BY <3>3 DEF Admits
    <3> QED
      BY <2>2, <2>3, <2>5, <3>2, <3>4
  <2> QED
    BY <2>4, <2>5
<1>11. NameMatches(p, q)
  <2>1. DOMAIN p = 1 .. L
    BY <1>1
  <2> HIDE DEF cut
  <2>2. cut \in [0 .. Len(p) -> 0 .. Len(q)] /\ cut[0] = 0 /\ cut[Len(p)] = Len(q)
    BY <1>1, <1>9
  <2> QED
    BY ONLY <1>10, <2>1, <2>2 DEF NameMatches
<1> QED
  BY <1>1, <1>7, <1>11

(* Where a part ends, its text does, or a name of it.                      *)
LEMMA PartEnded ==
  ASSUME NEW S, NEW text \in Seq(S), NEW from, NEW parts, NEW k \in 1 .. Len(parts),
         parts \in Seq(Seq(S)), PartAt(from, parts, text, k, S)
  PROVE  Ended(text, from[k] + Len(parts[k]))
<1>1. PICK K \in Nat, Z \in Nat, a \in Nat, b \in Nat, L \in Nat :
        K = Len(parts) /\ Z = Len(text) /\ a = from[k] /\ b = from[k + 1] /\ L = Len(parts[k])
  <2>1. parts[k] \in Seq(S) /\ from[k] \in Nat /\ from[k + 1] \in Nat
    BY ONLY PartAt(from, parts, text, k, S) DEF PartAt
  <2>2. Len(parts[k]) \in Nat
    BY ONLY <2>1
  <2>3. Len(parts) \in Nat /\ Len(text) \in Nat
    OBVIOUS
  <2> QED
    BY ONLY <2>1, <2>2, <2>3
<1>2. b = a + L + 1 /\ (k < K => b \in 1 .. Z /\ text[b] = "/") /\ (k = K => b = Z + 1)
  BY ONLY <1>1, PartAt(from, parts, text, k, S) DEF PartAt
<1>3. k < K \/ k = K
  BY ONLY <1>1
<1>4. b = Z + 1 => a + L = Z
  <2>1. b = a + L + 1
    BY <1>2
  <2> QED
    BY ONLY <2>1
<1> QED
  BY <1>1, <1>2, <1>3, <1>4 DEF Ended

(* A text that the code matches to a narrow pattern, git does.             *)
LEMMA PartsAsFound ==
  ASSUME NEW P, NEW S, NEW pattern \in Seq(P), NEW text \in Seq(S), NEW m, Table(m, pattern, text),
         Narrow(pattern), 1 \in m[1],
         NEW pf, NEW parts, Cuts(pf, parts, pattern, Len(pattern), "/", P),
         NEW tf, NEW whole, Cuts(tf, whole, text, Len(text), "/", S)
  PROVE  \E cut : PartsMatch(parts, whole, cut)
<1>1. PICK K \in Nat \ {0}, M \in Nat \ {0}, N \in Nat, Z \in Nat :
        K = Len(parts) /\ M = Len(whole) /\ N = Len(pattern) /\ Z = Len(text)
  <2>1. Len(parts) \in Nat \ {0} /\ Len(whole) \in Nat \ {0}
    BY DEF Cuts
  <2> QED
    BY <2>1
<1>2. \A k \in 1 .. K : PartAt(pf, parts, pattern, k, P) /\ Ended(pattern, pf[k] + Len(parts[k]))
  <2>1. parts \in Seq(Seq(P))
    BY DEF Cuts
  <2>2. \A k \in 1 .. K : PartAt(pf, parts, pattern, k, P)
    BY <1>1, CutsPart
  <2> QED
    BY <1>1, <2>1, <2>2, PartEnded
<1>3. \A k \in 1 .. M : PartAt(tf, whole, text, k, S) /\ Ended(text, tf[k] + Len(whole[k]))
  <2>1. whole \in Seq(Seq(S))
    BY DEF Cuts
  <2>2. \A k \in 1 .. M : PartAt(tf, whole, text, k, S)
    BY <1>1, CutsPart
  <2> QED
    BY <1>1, <2>1, <2>2, PartEnded
<1>4. tf[1] = 0 /\ pf[1] = 0
  BY DEF Cuts
<1>5. PICK g : Aligned(g, pattern, text)
  BY Aligns
<1>6. /\ g \in [0 .. N -> 0 .. Z] /\ g[0] = 0 /\ g[N] = Z
      /\ \A i \in 1 .. N : pattern[i] = "/" => g[i] = g[i - 1] + 1 /\ text[g[i]] = "/"
  <2>1. "/" \notin DOMAIN ClassOf
    BY AttributesAssumption
  <2>2. \A y : Admits("/", y) => y = "/"
    BY <2>1 DEF Admits
  <2>3. /\ g \in [0 .. N -> 0 .. Z] /\ g[0] = 0 /\ g[N] = Z
        /\ \A i \in 1 .. N : pattern[i] = "/" => g[i] = g[i - 1] + 1 /\ Admits("/", text[g[i]])
    BY <1>1, <1>5 DEF Aligned
  <2> QED
    BY ONLY <2>2, <2>3
<1> DEFINE Here(k) == k <= M /\ g[pf[k]] = tf[k]
(* Each part is the name at the same place.                                *)
<1>7. ASSUME NEW k \in 1 .. K, Here(k)
      PROVE  /\ NameMatches(parts[k], whole[k])
             /\ k < K => Here(k + 1)
             /\ k = K => k = M
  <2>1. k \in 1 .. M /\ (k < M \/ k = M)
    <3>1. k <= M
      BY <1>7
    <3> QED
      BY ONLY <1>1, <3>1
  <2>2. PartAt(pf, parts, pattern, k, P) /\ PartAt(tf, whole, text, k, S)
    BY <1>2, <1>3, <2>1
  <2>3. PICK a \in Nat, b \in Nat, a1 \in Nat, b1 \in Nat :
          a = pf[k] /\ b = tf[k] /\ a1 = pf[k + 1] /\ b1 = tf[k + 1]
    BY <2>2 DEF PartAt
  <2>4. PICK p \in Seq(P), q \in Seq(S) : p = parts[k] /\ q = whole[k]
    BY <2>2 DEF PartAt
  <2>5. PICK L \in Nat, Q \in Nat : L = Len(p) /\ Q = Len(q)
    OBVIOUS
  <2>6. /\ Piece(p, a, pattern) /\ Piece(q, b, text) /\ a1 = a + L + 1 /\ b1 = b + Q + 1
        /\ k < K => a1 \in 1 .. N /\ pattern[a1] = "/"
        /\ k = K => a1 = N + 1
        /\ k < M => b1 \in 1 .. Z /\ text[b1] = "/"
        /\ k = M => b1 = Z + 1
    BY ONLY <1>1, <2>2, <2>3, <2>4, <2>5 DEF PartAt
  <2>7. Ended(pattern, a + Len(p)) /\ Ended(text, b + Len(q)) /\ g[a] = b
    BY <1>2, <1>3, <1>7, <2>1, <2>3, <2>4
  <2>8. g[a + Len(p)] = b + Len(q) /\ NameMatches(p, q)
    BY ONLY <1>5, <2>6, <2>7, Narrow(pattern), PartAsFound
  <2>9. g[a + L] = b + Q
    BY ONLY <2>5, <2>8
  <2>10. ASSUME k < K PROVE Here(k + 1)
    <3>1. PICK i \in 1 .. N : i = a1 /\ pattern[i] = "/" /\ i - 1 = a + L
      <4>1. a1 - 1 = a + L
        <5>1. a1 = a + L + 1
          BY <2>6
        <5> QED
          BY ONLY <5>1
      <4> QED
        BY <2>6, <2>10, <4>1
    <3>2. PICK e \in 0 .. Z : e = g[i] /\ e = g[i - 1] + 1
      BY <1>6, <3>1
    <3>3. e = b1
      BY <2>6, <2>9, <3>1, <3>2
    <3>4. k # M
      <4>1. e # Z + 1
        BY ONLY <1>1
      <4> QED
        BY <2>6, <3>3, <4>1
    <3>5. k + 1 <= M
      BY ONLY <1>1, <2>1, <3>4
    <3> QED
      BY <2>3, <3>1, <3>2, <3>3, <3>5
  <2>11. ASSUME k = K PROVE k = M
    <3>1. a + L = N
      <4>1. a + L + 1 = N + 1
        BY <2>6, <2>11
      <4> QED
        BY ONLY <1>1, <4>1
    <3>2. b + Q = Z
      BY <1>6, <2>9, <3>1
    <3>3. b1 = Z + 1
      BY <2>6, <3>2
    <3>4. ~ (k < M)
      <4>1. b1 \notin 1 .. Z
        BY ONLY <1>1, <3>3
      <4> QED
        BY <2>6, <4>1
    <3> QED
      BY <2>1, <3>4
  <2> QED
    BY <2>4, <2>8, <2>10, <2>11
<1> DEFINE T == {n \in 0 .. K - 1 : Here(n + 1)}
<1>8. \A n \in 0 .. K - 1 : n \in T
  <2>0. K - 1 \in Nat
    BY ONLY <1>1
  <2>1. 0 \in T
    <3>1. 0 + 1 = 1 /\ 1 <= M /\ 0 \in 0 .. K - 1
      BY ONLY <1>1
    <3> QED
      BY <1>4, <1>6, <3>1
  <2>2. ASSUME NEW n \in 0 .. K - 1 - 1, n \in T PROVE n + 1 \in T
    <3>1. n + 1 \in 1 .. K /\ n + 1 < K /\ n + 1 \in 0 .. K - 1
      BY ONLY <1>1
    <3>2. Here(n + 1)
      BY <2>2
    <3>3. Here(n + 1 + 1)
      BY <1>7, <3>1, <3>2
    <3> QED
      BY <3>1, <3>3
  <2> HIDE DEF T
  <2> QED
    BY ONLY <2>0, <2>1, <2>2, Upwards
<1>9. \A k \in 1 .. K : NameMatches(parts[k], whole[k])
  <2> SUFFICES ASSUME NEW k \in 1 .. K PROVE NameMatches(parts[k], whole[k])
    OBVIOUS
  <2>1. k - 1 \in 0 .. K - 1 /\ (k - 1) + 1 = k
    BY ONLY <1>1
  <2>2. Here(k)
    BY <1>8, <2>1
  <2> QED
    BY <1>7, <2>2
<1>10. K = M
  <2>1. K - 1 \in 0 .. K - 1 /\ (K - 1) + 1 = K /\ K \in 1 .. K
    BY ONLY <1>1
  <2>2. Here(K)
    BY <1>8, <2>1
  <2> QED
    BY <1>7, <2>1, <2>2
<1>11. \A k \in 1 .. K : parts[k] # <<"**">>
  <2> SUFFICES ASSUME NEW k \in 1 .. K, parts[k] = <<"**">> PROVE FALSE
    OBVIOUS
  <2>1. Len(parts[k]) = 1 /\ parts[k][1] = "**"
    OBVIOUS
  <2>2. PICK a \in Nat : a = pf[k] /\ Piece(parts[k], a, pattern)
    BY <1>2 DEF PartAt
  <2>3. a + 1 <= N /\ pattern[a + 1] = "**"
    BY <1>1, <2>1, <2>2 DEF Piece
  <2>4. a + 1 \in 1 .. N
    BY ONLY <2>3, <1>1
  <2> QED
    BY <1>1, <2>3, <2>4 DEF Narrow
<1> DEFINE cut == [k \in 0 .. K |-> k]
<1>12. PartsMatch(parts, whole, cut)
  <2>1. DOMAIN parts = 1 .. K
    BY <1>1 DEF Cuts
  <2>2. cut \in [0 .. K -> 0 .. M] /\ cut[0] = 0 /\ cut[K] = M /\ \A k \in 0 .. K : cut[k] = k
    BY <1>1, <1>10
  <2>3. \A k \in 1 .. K : k - 1 \in 0 .. K /\ k \in 0 .. K /\ k = (k - 1) + 1
    BY ONLY <1>1
  <2> HIDE DEF cut
  <2>4. \A k \in 1 .. K : cut[k] = k /\ cut[k] = cut[k - 1] + 1
    BY ONLY <2>2, <2>3
  <2>5. cut \in [0 .. Len(parts) -> 0 .. Len(whole)] /\ cut[0] = 0 /\ cut[Len(parts)] = Len(whole)
    BY ONLY <1>1, <2>2
  <2> QED
    BY ONLY <1>9, <1>11, <2>1, <2>4, <2>5 DEF PartsMatch
<1> QED
  BY <1>12

(* A text without a slash is one name.                                     *)
LEMMA OneCut ==
  ASSUME NEW S, NEW text \in Seq(S), \A o \in 1 .. Len(text) : text[o] # "/"
  PROVE  \E from : Cuts(from, <<text>>, text, Len(text), "/", S)
<1>1. PICK Z \in Nat : Z = Len(text)
  OBVIOUS
<1> DEFINE from == [k \in 1 .. 2 |-> IF k = 1 THEN 0 ELSE Z + 1]
<1>2. from \in [1 .. 1 + 1 -> 0 .. Z + 1] /\ from[1] = 0 /\ from[2] = Z + 1
  BY ONLY <1>1
<1>3. PICK parts : parts = <<text>>
  OBVIOUS
<1>4. parts \in Seq(Seq(S)) /\ parts # <<>> /\ Len(parts) = 1 /\ parts[1] = text
  BY <1>3
<1> HIDE DEF from
<1>5. \A o \in 1 .. Len(text) : 0 + o = o
  OBVIOUS
<1>6. ASSUME NEW k \in 1 .. 1
      PROVE  /\ from[k + 1] = from[k] + Len(parts[k]) + 1
             /\ \A o \in 1 .. Len(parts[k]) : parts[k][o] = text[from[k] + o] /\ parts[k][o] # "/"
             /\ ~ (k < 1)
  <2>1. k = 1 /\ k + 1 = 2 /\ ~ (k < 1) /\ Z + 1 = 0 + Z + 1
    BY ONLY <1>1
  <2> QED
    BY <1>1, <1>2, <1>4, <1>5, <2>1
<1>7. Cuts(from, parts, text, Len(text), "/", S)
  BY ONLY <1>1, <1>2, <1>4, <1>6 DEF Cuts
<1> QED
  BY <1>3, <1>7

(* The basename has no slash.                                              *)
LEMMA BasenameIs ==
  ASSUME NEW S, NEW text \in Seq(S)
  PROVE  /\ basename(text) \in Seq(S)
         /\ \A o \in 1 .. Len(basename(text)) : basename(text)[o] # "/"
<1>1. PICK Z \in Nat : Z = Len(text) /\ DOMAIN text = 1 .. Z
  OBVIOUS
<1> DEFINE T == {0} \cup {i \in 1 .. Z : text[i] = "/"}
<1>2. PICK l \in 0 .. Z : l = LastOf(text, "/") /\ \A i \in 1 .. Z : text[i] = "/" => i <= l
  <2>1. T \subseteq 0 .. Z /\ T # {}
    BY ONLY <1>1
  <2>2. LastOf(text, "/") = Max(T)
    BY <1>1 DEF LastOf
  <2>3. Max(T) \in T /\ \A i \in T : i <= Max(T)
    <3> HIDE DEF T
    <3> QED
      BY ONLY <1>1, <2>1, GreatestNatural
  <2>4. \A i \in 1 .. Z : text[i] = "/" => i \in T
    OBVIOUS
  <2> HIDE DEF T
  <2>5. Max(T) \in 0 .. Z
    BY ONLY <2>1, <2>3
  <2> QED
    BY ONLY <2>2, <2>3, <2>4, <2>5
<1>3. l + 1 \in Int /\ Z \in Int /\ \A o \in l + 1 .. Z : text[o] \in S
  <2>1. \A o \in l + 1 .. Z : o \in 1 .. Len(text)
    BY ONLY <1>1
  <2> QED
    BY <2>1
<1>4. PICK t : t = basename(text) /\ t = SubSeq(text, l + 1, Z)
  BY <1>1, <1>2 DEF basename
<1>5. /\ t \in Seq(S) /\ Len(t) = IF l + 1 <= Z THEN Z - (l + 1) + 1 ELSE 0
      /\ \A o \in 1 .. Z - (l + 1) + 1 : t[o] = text[l + 1 + o - 1]
  BY <1>3, <1>4, SubSeqProperties
<1>6. ASSUME NEW o \in 1 .. Len(t) PROVE t[o] # "/"
  <2>1. o \in 1 .. Z - (l + 1) + 1 /\ l + 1 + o - 1 \in 1 .. Z /\ ~ (l + 1 + o - 1 <= l)
    <3>1. Len(t) = IF l + 1 <= Z THEN Z - (l + 1) + 1 ELSE 0
      BY <1>5
    <3>2. PICK z : z = Len(t)
      OBVIOUS
    <3>3. o \in 1 .. z /\ z = IF l + 1 <= Z THEN Z - (l + 1) + 1 ELSE 0
      BY <3>1, <3>2
    <3> QED
      BY ONLY <1>1, <3>3
  <2>2. PICK i \in 1 .. Z : i = l + 1 + o - 1
    BY <2>1
  <2>3. t[o] = text[i] /\ ~ (i <= l)
    BY <1>5, <2>1, <2>2
  <2> QED
    BY <1>2, <2>3
<1> QED
  BY <1>4, <1>5, <1>6

(* What is matched: names of a text, and the parts of a pattern.           *)
Matched(pattern, text) == IF "/" \in Range(pattern) THEN text ELSE basename(text)
Rooted(pattern) == IF Head(pattern) = "/" THEN Tail(pattern) ELSE pattern
MatchedNames(pattern, text) == IF "/" \in Range(pattern) THEN names(text) ELSE <<basename(text)>>

(* The names that git matches are the cuts of the text the code matches.   *)
LEMMA MatchedCuts ==
  ASSUME NEW S, NEW text \in Seq(S), text # <<>>, NEW pattern
  PROVE  /\ Matched(pattern, text) \in Seq(S)
         /\ \E tf : Cuts(tf, MatchedNames(pattern, text), Matched(pattern, text), Len(Matched(pattern, text)), "/", S)
<1>1. CASE "/" \in Range(pattern)
  <2>1. Matched(pattern, text) = text /\ MatchedNames(pattern, text) = Split(text, "/")
    BY <1>1 DEF Matched, MatchedNames, names
  <2>2. \E tf : Cuts(tf, Split(text, "/"), text, Len(text), "/", S)
    BY SplitCuts
  <2> QED
    BY <2>1, <2>2
<1>2. CASE "/" \notin Range(pattern)
  <2>1. PICK b \in Seq(S) : b = basename(text) /\ \A o \in 1 .. Len(b) : b[o] # "/"
    BY BasenameIs
  <2>2. Matched(pattern, text) = b /\ MatchedNames(pattern, text) = <<b>>
    BY <1>2, <2>1 DEF Matched, MatchedNames
  <2>3. \E tf : Cuts(tf, <<b>>, b, Len(b), "/", S)
    BY <2>1, OneCut
  <2> QED
    BY <2>2, <2>3
<1> QED
  BY <1>1, <1>2

(* The same for the parts of the pattern, which all come from it.          *)
LEMMA RootedCuts ==
  ASSUME NEW P, NEW pattern \in Seq(P), pattern # <<>>, Last(pattern) # "/"
  PROVE  /\ Rooted(pattern) \in Seq(P)
         /\ \A i \in 1 .. Len(Rooted(pattern)) : Rooted(pattern)[i] \in Range(pattern)
         /\ \E pf : Cuts(pf, names(Rooted(pattern)), Rooted(pattern), Len(Rooted(pattern)), "/", P)
<1>1. PICK r : r = Rooted(pattern)
  OBVIOUS
<1>2. PICK N \in Nat \ {0} : N = Len(pattern)
  OBVIOUS
<1>3. CASE Head(pattern) = "/"
  <2>1. r = Tail(pattern)
    BY <1>1, <1>3 DEF Rooted
  <2>2. N # 1
    BY <1>2, <1>3 DEF Last
  <2>3. r \in Seq(P) /\ Len(r) = N - 1 /\ r # <<>> /\ \A i \in 1 .. Len(r) : r[i] = pattern[i + 1]
    <3>1. r \in Seq(P) /\ Len(r) = N - 1 /\ \A i \in 1 .. Len(r) : r[i] = pattern[i + 1]
      BY <1>2, <2>1, HeadTailProperties
    <3>2. N - 1 # 0
      BY ONLY <2>2, <1>2
    <3> QED
      BY <3>1, <3>2
  <2>4. \A i \in 1 .. Len(r) : r[i] \in Range(pattern)
    <3>1. ASSUME NEW i \in 1 .. Len(r) PROVE r[i] = pattern[i + 1] /\ i + 1 \in DOMAIN pattern
      BY <1>2, <2>3
    <3> QED
      BY <3>1 DEF Range
  <2>5. \E pf : Cuts(pf, Split(r, "/"), r, Len(r), "/", P)
    BY <2>3, SplitCuts
  <2> QED
    BY <1>1, <2>3, <2>4, <2>5 DEF names
<1>4. CASE Head(pattern) # "/"
  <2>1. r = pattern
    BY <1>1, <1>4 DEF Rooted
  <2>2. \A i \in 1 .. Len(pattern) : pattern[i] \in Range(pattern)
    BY DEF Range
  <2>3. \E pf : Cuts(pf, Split(pattern, "/"), pattern, Len(pattern), "/", P)
    BY SplitCuts
  <2> QED
    BY <1>1, <2>1, <2>2, <2>3 DEF names
<1> QED
  BY <1>3, <1>4

(* The code's matcher takes every path that git's takes, and no other      *)
(* unless the pattern is lenient (glob_matches, GitMatches).               *)
THEOREM GlobAsGit ==
  ASSUME NEW P, NEW S, NEW pattern \in Seq(P), pattern # <<>>, NEW text \in Seq(S), text # <<>>
  PROVE  /\ GitMatches(pattern, text) => glob_matches(pattern, text)
         /\ ~ Lenient(pattern) /\ glob_matches(pattern, text) => GitMatches(pattern, text)
<1> SUFFICES ASSUME Last(pattern) # "/"
             PROVE  /\ GitMatches(pattern, text) => glob_matches(pattern, text)
                    /\ ~ Lenient(pattern) /\ glob_matches(pattern, text) => GitMatches(pattern, text)
  BY DEF GitMatches, glob_matches
<1>1. PICK r \in Seq(P) : /\ r = Rooted(pattern) /\ \A i \in 1 .. Len(r) : r[i] \in Range(pattern)
                          /\ \E pf : Cuts(pf, names(r), r, Len(r), "/", P)
  BY RootedCuts
<1>2. PICK t \in Seq(S) : /\ t = Matched(pattern, text)
                          /\ \E tf : Cuts(tf, MatchedNames(pattern, text), t, Len(t), "/", S)
  BY MatchedCuts
<1>3. PICK parts, whole : parts = names(r) /\ whole = MatchedNames(pattern, text)
  OBVIOUS
<1>4. PICK pf, tf : Cuts(pf, parts, r, Len(r), "/", P) /\ Cuts(tf, whole, t, Len(t), "/", S)
  BY <1>1, <1>2, <1>3
<1>5. GitMatches(pattern, text) <=> \E cut : PartsMatch(parts, whole, cut)
  <2>1. names(IF Head(pattern) = "/" THEN Tail(pattern) ELSE pattern) = parts
    BY <1>1, <1>3 DEF Rooted
  <2>2. (IF "/" \in Range(pattern) THEN names(text) ELSE <<basename(text)>>) = whole
    BY <1>3 DEF MatchedNames
  <2> QED
    BY <2>1, <2>2 DEF GitMatches, PartsMatch
<1>6. PICK m : Table(m, r, t) /\ (glob_segment(r, t) <=> 1 \in m[1])
  BY TableIs
<1>7. glob_matches(pattern, text) <=> 1 \in m[1]
  BY <1>1, <1>2, <1>6 DEF glob_matches, Rooted, Matched
<1>8. GitMatches(pattern, text) => 1 \in m[1]
  BY <1>4, <1>5, <1>6, PartsFound
<1>9. ~ Lenient(pattern) => Narrow(r)
  BY <1>1 DEF Lenient, Narrow
<1>10. Narrow(r) /\ 1 \in m[1] => GitMatches(pattern, text)
  BY <1>4, <1>5, <1>6, PartsAsFound
<1> QED
  BY <1>7, <1>8, <1>9, <1>10

-----------------------------------------------------------------------------
(* Flattened sequences: the code collects its rules in them.               *)

(* Where the elements of a flattened sequence come from: at[w] is the      *)
(* sequence, and off[w] the place in it, of element w.                     *)
FlatAt(at, off, flat, seqs, n) ==
  /\ at \in [1 .. Len(flat) -> 1 .. n] /\ off \in [1 .. Len(flat) -> Nat]
  /\ \A w \in 1 .. Len(flat) : off[w] \in 1 .. Len(seqs[at[w]]) /\ flat[w] = seqs[at[w]][off[w]]
  /\ \A k \in 1 .. n : \A o \in 1 .. Len(seqs[k]) : \E w \in 1 .. Len(flat) : at[w] = k /\ off[w] = o
  /\ \A w, v \in 1 .. Len(flat) : w < v => at[w] < at[v] \/ (at[w] = at[v] /\ off[w] < off[v])

Joined(u, s, t, S) ==
  /\ u \in Seq(S) /\ Len(u) = Len(s) + Len(t)
  /\ \A i \in 1 .. Len(s) : u[i] = s[i]
  /\ \A i \in 1 .. Len(t) : u[Len(s) + i] = t[i]

(* Concatenation joins.                                                    *)
LEMMA ConcatJoins ==
  ASSUME NEW S, NEW s \in Seq(S), NEW t \in Seq(S)
  PROVE  Joined(s \o t, s, t, S)
<1>1. PICK u : u = s \o t
  OBVIOUS
<1>2. PICK K \in Nat, L \in Nat : K = Len(s) /\ L = Len(t)
  OBVIOUS
<1>3. u \in Seq(S) /\ Len(u) = K + L /\ \A i \in 1 .. K + L : u[i] = IF i <= K THEN s[i] ELSE t[i - K]
  BY <1>1, <1>2, ConcatProperties
<1>4. \A i \in 1 .. K : i \in 1 .. K + L /\ i <= K
  BY ONLY <1>2
<1>5. \A i \in 1 .. L : K + i \in 1 .. K + L /\ ~ (K + i <= K) /\ (K + i) - K = i
  BY ONLY <1>2
<1>6. Joined(u, s, t, S)
  <2>1. \A i \in 1 .. K : u[i] = s[i]
    BY ONLY <1>3, <1>4
  <2>2. \A i \in 1 .. L : u[K + i] = t[i]
    <3> SUFFICES ASSUME NEW i \in 1 .. L PROVE u[K + i] = t[i]
      OBVIOUS
    <3>1. PICK j \in 1 .. K + L : j = K + i /\ ~ (j <= K) /\ j - K = i
      BY ONLY <1>5
    <3>2. u[j] = t[j - K]
      BY <1>3, <3>1
    <3> QED
      BY ONLY <3>1, <3>2
  <2> QED
    BY ONLY <1>2, <1>3, <2>1, <2>2 DEF Joined
<1> QED
  BY <1>1, <1>6

(* One sequence more keeps the places of the elements before it.           *)
LEMMA FlatLonger ==
  ASSUME NEW S, NEW n \in Nat, NEW flat \in Seq(S), NEW seqs, NEW x \in Seq(S), seqs[n + 1] = x,
         NEW at, NEW off, FlatAt(at, off, flat, seqs, n),
         NEW u, Joined(u, flat, x, S)
  PROVE  \E a, o : FlatAt(a, o, u, seqs, n + 1)
<1>1. PICK L \in Nat, Q \in Nat : L = Len(flat) /\ Q = Len(x)
  OBVIOUS
<1>2. /\ at \in [1 .. L -> 1 .. n] /\ off \in [1 .. L -> Nat]
      /\ \A w \in 1 .. L : off[w] \in 1 .. Len(seqs[at[w]]) /\ flat[w] = seqs[at[w]][off[w]]
      /\ \A k \in 1 .. n : \A o \in 1 .. Len(seqs[k]) : \E w \in 1 .. L : at[w] = k /\ off[w] = o
      /\ \A w, v \in 1 .. L : w < v => at[w] < at[v] \/ (at[w] = at[v] /\ off[w] < off[v])
  BY ONLY <1>1, FlatAt(at, off, flat, seqs, n) DEF FlatAt
<1>3. /\ Len(u) = L + Q /\ \A w \in 1 .. L : u[w] = flat[w]
      /\ \A o \in 1 .. Q : u[L + o] = x[o]
  BY ONLY <1>1, Joined(u, flat, x, S) DEF Joined
<1> DEFINE a == [w \in 1 .. L + Q |-> IF w <= L THEN at[w] ELSE n + 1]
           b == [w \in 1 .. L + Q |-> IF w <= L THEN off[w] ELSE w - L]
<1>4. \A w \in 1 .. L : w <= L /\ w \in 1 .. L + Q
  BY ONLY <1>1
<1>5. \A w \in 1 .. L + Q : (w \in 1 .. L /\ w <= L) \/ (~ (w <= L) /\ w - L \in 1 .. Q /\ L + (w - L) = w /\ w - L \in Nat)
  BY ONLY <1>1
<1>6. /\ a \in [1 .. L + Q -> 1 .. n + 1] /\ b \in [1 .. L + Q -> Nat]
      /\ \A w \in 1 .. L : a[w] = at[w] /\ b[w] = off[w]
      /\ \A w \in 1 .. L + Q : ~ (w <= L) => a[w] = n + 1 /\ b[w] = w - L
  <2>1. \A k \in 1 .. n : k \in 1 .. n + 1
    OBVIOUS
  <2>2. n + 1 \in 1 .. n + 1
    OBVIOUS
  <2> QED
    BY ONLY <1>2, <1>4, <1>5, <2>1, <2>2
<1> HIDE DEF a, b
<1>7. \A w \in 1 .. L + Q : b[w] \in 1 .. Len(seqs[a[w]]) /\ u[w] = seqs[a[w]][b[w]]
  <2> SUFFICES ASSUME NEW w \in 1 .. L + Q
               PROVE  b[w] \in 1 .. Len(seqs[a[w]]) /\ u[w] = seqs[a[w]][b[w]]
    OBVIOUS
  <2>1. CASE w \in 1 .. L
    BY <1>2, <1>3, <1>6, <2>1
  <2>2. CASE ~ (w <= L) /\ w - L \in 1 .. Q /\ L + (w - L) = w
    <3>1. a[w] = n + 1 /\ b[w] = w - L
      BY <1>6, <2>2
    <3>2. PICK o \in 1 .. Q : o = w - L /\ L + o = w
      BY <2>2
    <3>3. u[w] = x[o]
      BY <1>3, <3>2
    <3> QED
      BY <1>1, <3>1, <3>2, <3>3
  <2> QED
    BY <1>5, <2>1, <2>2
<1>8. ASSUME NEW k \in 1 .. n + 1, NEW o \in 1 .. Len(seqs[k])
      PROVE  \E w \in 1 .. L + Q : a[w] = k /\ b[w] = o
  <2>1. CASE k \in 1 .. n
    <3>1. PICK w \in 1 .. L : at[w] = k /\ off[w] = o
      BY <1>2, <2>1
    <3> QED
      BY <1>4, <1>6, <3>1
  <2>2. CASE k = n + 1
    <3>1. o \in 1 .. Q
      BY <1>1, <2>2
    <3>2. L + o \in 1 .. L + Q /\ ~ (L + o <= L) /\ (L + o) - L = o
      BY ONLY <1>1, <3>1
    <3> QED
      BY <1>6, <2>2, <3>2
  <2>3. k \in 1 .. n \/ k = n + 1
    OBVIOUS
  <2> QED
    BY <2>1, <2>2, <2>3
<1>9. ASSUME NEW w \in 1 .. L + Q, NEW v \in 1 .. L + Q, w < v
      PROVE  a[w] < a[v] \/ (a[w] = a[v] /\ b[w] < b[v])
  <2>1. CASE v \in 1 .. L
    <3>1. w \in 1 .. L
      BY ONLY <1>1, <1>9, <2>1
    <3> QED
      BY <1>2, <1>6, <1>9, <2>1, <3>1
  <2>2. CASE ~ (v <= L) /\ w \in 1 .. L
    <3>1. PICK k \in 1 .. n : k = at[w]
      BY <1>2, <2>2
    <3>2. k < n + 1
      OBVIOUS
    <3> QED
      BY <1>6, <2>2, <3>1, <3>2
  <2>3. CASE ~ (v <= L) /\ ~ (w <= L)
    <3>1. a[w] = n + 1 /\ a[v] = n + 1 /\ b[w] = w - L /\ b[v] = v - L
      BY <1>6, <2>3
    <3>2. w - L < v - L
      BY ONLY <1>1, <1>9
    <3> QED
      BY <3>1, <3>2
  <2> QED
    BY <1>5, <2>1, <2>2, <2>3
<1>10. FlatAt(a, b, u, seqs, n + 1)
  BY ONLY <1>3, <1>6, <1>7, <1>8, <1>9 DEF FlatAt
<1> QED
  BY <1>10

(* In a flattened sequence every element has its place, in order.          *)
LEMMA FlatPlaces ==
  ASSUME NEW S, NEW seqs \in Seq(Seq(S))
  PROVE  FlattenSeq(seqs) \in Seq(S) /\ \E at, off : FlatAt(at, off, FlattenSeq(seqs), seqs, Len(seqs))
<1>1. PICK K \in Nat : K = Len(seqs)
  OBVIOUS
<1>2. CASE K = 0
  <2>0. Len(seqs) = 0
    BY <1>1, <1>2
  <2>1. seqs = <<>> /\ FlattenSeq(seqs) = seqs
    <3>1. seqs = <<>>
      BY <2>0
    <3>2. FlattenSeq(seqs) = seqs
      BY ONLY <2>0 DEF FlattenSeq
    <3> QED
      BY <3>1, <3>2
  <2>2. <<>> \in Seq(S)
    OBVIOUS
  <2>3. FlatAt([w \in 1 .. 0 |-> w], [w \in 1 .. 0 |-> w], <<>>, seqs, 0)
    BY DEF FlatAt
  <2> QED
    BY <1>1, <1>2, <2>1, <2>2, <2>3
<1>3. CASE K # 0
  <2> DEFINE Is(f) == f = [i \in 1 .. K |-> IF i = 1 THEN seqs[i] ELSE f[i - 1] \o seqs[i]]
             flatten == CHOOSE f : Is(f)
             G == [n \in 1 .. K |-> [t \in Seq(S) |-> IF n = 1 THEN seqs[n] ELSE t \o seqs[n]]]
  <2>1. FlattenSeq(seqs) = flatten[K]
    BY <1>1, <1>3 DEF FlattenSeq
  <2>2. \A k \in 1 .. K : seqs[k] \in Seq(S)
    BY <1>1
  <2>3. PICK f : Solves(f, K, Seq(S), <<>>, G)
    <3>1. \A n \in 1 .. K, t \in Seq(S) : (IF n = 1 THEN seqs[n] ELSE t \o seqs[n]) \in Seq(S)
      BY <2>2
    <3>2. G \in [1 .. K -> [Seq(S) -> Seq(S)]]
      BY <3>1
    <3>3. <<>> \in Seq(S)
      OBVIOUS
    <3> HIDE DEF G
    <3> QED
      BY <1>1, <3>2, <3>3, Recursion
  <2>4. /\ f \in [0 .. K -> Seq(S)]
        /\ \A n \in 1 .. K : f[n] = IF n = 1 THEN seqs[n] ELSE f[n - 1] \o seqs[n]
    BY <1>1, <2>3, Steps DEF Solves
  <2>5. Is(flatten)
    <3>1. Is([i \in 1 .. K |-> f[i]])
      <4>1. \A i \in 1 .. K : i # 1 => i - 1 \in 1 .. K
        BY ONLY <1>1
      <4> QED
        BY <2>4, <4>1
    <3> HIDE DEF Is
    <3> QED
      BY <3>1
  <2> HIDE DEF flatten
  <2>6. \A n \in 1 .. K : flatten[n] = IF n = 1 THEN seqs[n] ELSE flatten[n - 1] \o seqs[n]
    BY <2>5
  <2> DEFINE Good(n) == flatten[n] \in Seq(S) /\ \E at, off : FlatAt(at, off, flatten[n], seqs, n)
             T == {n \in 0 .. K - 1 : Good(n + 1)}
  <2>7. 0 \in T
    <3>1. flatten[1] = seqs[1] /\ seqs[1] \in Seq(S) /\ 0 + 1 = 1 /\ 0 \in 0 .. K - 1
      BY <1>1, <1>3, <2>2, <2>6
    <3>2. PICK x \in Seq(S), L \in Nat : x = seqs[1] /\ L = Len(x)
      BY <3>1
    <3>3. FlatAt([w \in 1 .. L |-> 1], [w \in 1 .. L |-> w], x, seqs, 1)
      BY <3>2 DEF FlatAt
    <3> QED
      BY <3>1, <3>2, <3>3
  <2>8. ASSUME NEW n \in 0 .. K - 1 - 1, n \in T PROVE n + 1 \in T
    <3>1. n + 1 \in Nat /\ n + 1 + 1 \in 1 .. K /\ n + 1 + 1 # 1 /\ (n + 1 + 1) - 1 = n + 1 /\ n + 1 \in 0 .. K - 1
      BY ONLY <1>1
    <3>2. PICK flat \in Seq(S) : flat = flatten[n + 1] /\ \E at, off : FlatAt(at, off, flat, seqs, n + 1)
      BY <2>8
    <3>0. PICK at, off : FlatAt(at, off, flat, seqs, n + 1)
      BY <3>2
    <3>3. PICK x \in Seq(S) : x = seqs[n + 1 + 1]
      BY <2>2, <3>1
    <3>4. PICK u : u = flatten[n + 1 + 1] /\ u = flat \o x
      BY <2>6, <3>1, <3>2, <3>3
    <3>5. Joined(u, flat, x, S)
      BY <3>4, ConcatJoins
    <3>6. \E a, o : FlatAt(a, o, u, seqs, n + 1 + 1)
      BY ONLY <3>0, <3>1, <3>3, <3>5, FlatLonger
    <3>7. u \in Seq(S)
      BY <3>5 DEF Joined
    <3> QED
      BY <3>1, <3>4, <3>6, <3>7
  <2>9. K - 1 \in T
    <3>1. K - 1 \in Nat /\ K - 1 \in 0 .. K - 1
      BY ONLY <1>1, <1>3
    <3> HIDE DEF T
    <3>2. \A n \in 0 .. K - 1 : n \in T
      BY ONLY <3>1, <2>7, <2>8, Upwards
    <3> QED
      BY <3>1, <3>2
  <2>10. (K - 1) + 1 = K
    BY ONLY <1>1
  <2> QED
    BY <1>1, <2>1, <2>9, <2>10
<1> QED
  BY <1>2, <1>3

-----------------------------------------------------------------------------
(* The paths of .gitattributes, and how deep they are.                     *)

(* The .gitattributes of a directory below the root.                       *)
Beside(p, d, S) ==
  /\ p \in Seq(S) /\ Len(p) = Len(d) + 2
  /\ \A i \in 1 .. Len(d) : p[i] = d[i]
  /\ p[Len(d) + 1] = "/" /\ p[Len(d) + 2] = ".gitattributes"

(* GitAttributes names the file beside the entries of its directory.       *)
LEMMA BesideIs ==
  ASSUME NEW S, NEW d \in Seq(S), d # <<>>
  PROVE  Beside(GitAttributes(d), d, S \cup {"/", ".gitattributes"})
<1>1. PICK U : U = S \cup {"/", ".gitattributes"}
  OBVIOUS
<1>2. PICK a, b : a = <<"/">> /\ b = <<".gitattributes">>
  OBVIOUS
<1>3. /\ a \in Seq(U) /\ Len(a) = 1 /\ a[1] = "/"
      /\ b \in Seq(U) /\ Len(b) = 1 /\ b[1] = ".gitattributes"
  BY <1>1, <1>2
<1>4. d \in Seq(U)
  BY <1>1
<1>5. PICK n \in Nat : n = Len(d)
  OBVIOUS
<1>6. PICK e : e = d \o a /\ Joined(e, d, a, U)
  BY <1>3, <1>4, ConcatJoins
<1>7. e \in Seq(U) /\ Len(e) = n + 1 /\ (\A i \in 1 .. n : e[i] = d[i]) /\ e[n + 1] = "/"
  <2>1. 1 \in 1 .. 1
    OBVIOUS
  <2> QED
    BY ONLY <1>3, <1>5, <1>6, <2>1 DEF Joined
<1>8. PICK p : p = e \o b /\ Joined(p, e, b, U)
  BY <1>3, <1>7, ConcatJoins
<1>9. p \in Seq(U) /\ Len(p) = n + 1 + 1 /\ (\A i \in 1 .. n + 1 : p[i] = e[i]) /\ p[n + 1 + 1] = ".gitattributes"
  <2>1. 1 \in 1 .. 1
    OBVIOUS
  <2> QED
    BY ONLY <1>3, <1>7, <1>8, <2>1 DEF Joined
<1>10. n + 1 + 1 = n + 2 /\ n + 1 \in 1 .. n + 1 /\ \A i \in 1 .. n : i \in 1 .. n + 1
  BY ONLY <1>5
<1>11. Beside(p, d, U)
  BY ONLY <1>5, <1>7, <1>9, <1>10 DEF Beside
<1>12. p = GitAttributes(d)
  BY <1>2, <1>6, <1>8 DEF GitAttributes, Join
<1> QED
  BY <1>1, <1>11, <1>12

(* Its directory, and the directories above it.                            *)
LEMMA AboveAttributes ==
  ASSUME NEW S, NEW d \in Seq(S)
  PROVE  /\ GitAttributes(d) # <<>> /\ GitAttributes(d)[Len(GitAttributes(d))] = ".gitattributes"
         /\ directory(GitAttributes(d)) = d
         /\ {<<>>} \cup Parents(GitAttributes(d)) = {<<>>, d} \cup Parents(d)
         /\ d # <<>> => d \in Parents(GitAttributes(d))
<1>1. CASE d = <<>>
  <2>1. PICK p : p = GitAttributes(d) /\ p = <<".gitattributes">>
    BY <1>1 DEF GitAttributes, Join
  <2>2. p # <<>> /\ Len(p) = 1 /\ p[1] = ".gitattributes" /\ DOMAIN p = {1} /\ p \in Seq({".gitattributes"})
    BY <2>1
  <2>3. Parents(p) = {} /\ Parents(d) = {}
    BY <1>1, <2>2 DEF Parents
  <2>4. LastOf(p, "/") = 0
    <3>1. {0} \cup {i \in DOMAIN p : p[i] = "/"} = {0}
      BY <2>2
    <3>2. Max({0}) = 0
      BY MaxIs
    <3> QED
      BY <3>1, <3>2 DEF LastOf
  <2>5. directory(p) = <<>>
    BY <2>2, <2>4 DEF directory
  <2> QED
    BY <1>1, <2>1, <2>2, <2>3, <2>5
<1>2. CASE d # <<>>
  <2>0. PICK U : U = S \cup {"/", ".gitattributes"}
    OBVIOUS
  <2>1. PICK p : p = GitAttributes(d) /\ Beside(p, d, U)
    BY <1>2, <2>0, BesideIs
  <2>2. PICK n \in Nat : n = Len(d)
    OBVIOUS
  <2>3. /\ p \in Seq(U) /\ Len(p) = n + 2 /\ \A i \in 1 .. n : p[i] = d[i]
        /\ p[n + 1] = "/" /\ p[n + 2] = ".gitattributes"
    BY ONLY <2>1, <2>2 DEF Beside
  <2>4. DOMAIN p = 1 .. n + 2 /\ DOMAIN d = 1 .. n /\ p # <<>>
    BY <2>2, <2>3
  <2>5. LastOf(p, "/") = n + 1
    <3> DEFINE T == {0} \cup {i \in DOMAIN p : p[i] = "/"}
    <3>1. T \subseteq Int /\ n + 1 \in T
      BY <2>3, <2>4
    <3>2. ASSUME NEW i \in T PROVE i <= n + 1
      <4>1. CASE i = 0
        BY <4>1
      <4>2. CASE i \in 1 .. n + 2 /\ p[i] = "/"
        <5>1. i # n + 2
          BY <2>3, <4>2
        <5> QED
          BY ONLY <4>2, <5>1
      <4> QED
        BY <2>4, <4>1, <4>2
    <3>3. LastOf(p, "/") = Max(T)
      BY DEF LastOf
    <3> HIDE DEF T
    <3> QED
      BY <3>1, <3>2, <3>3, MaxIs
  <2>6. \A i \in 1 .. n + 1 : SubSeq(p, 1, i - 1) = SubSeq(d, 1, i - 1)
    BY <2>2, <2>3
  <2>7. SubSeq(p, 1, n) = d
    BY <2>2, <2>3
  <2>8. directory(p) = d
    BY <2>5, <2>7 DEF directory
  <2>9. d \in Parents(p)
    <3>1. n + 1 \in DOMAIN p /\ (n + 1) - 1 = n
      BY <2>4
    <3> QED
      BY <2>3, <2>7, <3>1 DEF Parents
  <2>10. ASSUME NEW x \in Parents(p) PROVE x \in {d} \cup Parents(d)
    <3>1. PICK i \in 1 .. n + 2 : p[i] = "/" /\ x = SubSeq(p, 1, i - 1)
      BY <2>4 DEF Parents
    <3>2. i # n + 2
      BY <2>3, <3>1
    <3>3. CASE i = n + 1
      <4>1. i - 1 = n
        BY <3>3
      <4> QED
        BY <2>7, <3>1, <4>1
    <3>4. CASE i \in 1 .. n
      <4>1. d[i] = "/" /\ x = SubSeq(d, 1, i - 1)
        BY <2>3, <2>6, <3>1, <3>4
      <4> QED
        BY <2>4, <3>4, <4>1 DEF Parents
    <3> QED
      BY <3>2, <3>3, <3>4
  <2>11. ASSUME NEW x \in Parents(d) PROVE x \in Parents(p)
    <3>1. PICK i \in 1 .. n : d[i] = "/" /\ x = SubSeq(d, 1, i - 1)
      BY <2>4 DEF Parents
    <3>2. i \in 1 .. n + 1 /\ i \in 1 .. n + 2
      BY ONLY <2>2
    <3>3. p[i] = "/" /\ x = SubSeq(p, 1, i - 1)
      BY <2>3, <2>6, <3>1, <3>2
    <3> QED
      BY <2>4, <3>2, <3>3 DEF Parents
  <2>12. Parents(p) = {d} \cup Parents(d)
    BY <2>9, <2>10, <2>11
  <2>13. p[Len(p)] = ".gitattributes"
    BY <2>3
  <2> QED
    BY <2>1, <2>4, <2>8, <2>9, <2>12, <2>13
<1> QED
  BY <1>1, <1>2

(* The directories a path is under are the root and those above it.        *)
LEMMA UnderIs ==
  ASSUME NEW S, NEW path \in Seq(S), path # <<>>, path[Len(path)] # "/", NEW d \in Seq(S)
  PROVE  (path # d /\ under(path, d)) <=> d \in {<<>>} \cup Parents(path)
<1>1. CASE d = <<>>
  BY <1>1 DEF under
<1>2. CASE d # <<>>
  <2>0. PICK U : U = S \cup {"/"}
    OBVIOUS
  <2>1. PICK n \in Nat, N \in Nat : n = Len(d) /\ N = Len(path)
    OBVIOUS
  <2>2. PICK e : e = d \o <<"/">> /\ Joined(e, d, <<"/">>, U)
    <3>1. <<"/">> \in Seq(U) /\ d \in Seq(U)
      BY <2>0
    <3> QED
      BY <3>1, ConcatJoins
  <2>3. e \in Seq(U) /\ Len(e) = n + 1 /\ (\A i \in 1 .. n : e[i] = d[i]) /\ e[n + 1] = "/"
    <3>1. Len(<<"/">>) = 1 /\ <<"/">>[1] = "/" /\ 1 \in 1 .. 1
      OBVIOUS
    <3> QED
      BY ONLY <2>1, <2>2, <3>1 DEF Joined
  <2>4. Starts(path, e) <=> n + 1 <= N /\ \A i \in 1 .. n + 1 : e[i] = path[i]
    <3>1. Starts(path, e) <=> n + 1 <= N /\ SubSeq(e, 1, n + 1) = SubSeq(path, 1, n + 1)
      BY <2>1, <2>3 DEF Starts, IsPrefix
    <3>2. ASSUME n + 1 <= N
          PROVE  SubSeq(e, 1, n + 1) = SubSeq(path, 1, n + 1) <=> \A i \in 1 .. n + 1 : e[i] = path[i]
      <4>1. PICK s : s = SubSeq(e, 1, n + 1)
        OBVIOUS
      <4>2. PICK t : t = SubSeq(path, 1, n + 1)
        OBVIOUS
      <4>3. s \in Seq(U) /\ Len(s) = n + 1 /\ \A i \in 1 .. n + 1 : s[i] = e[i]
        BY <2>3, <4>1
      <4>4. t \in Seq(S) /\ Len(t) = n + 1 /\ \A i \in 1 .. n + 1 : t[i] = path[i]
        BY <2>1, <3>2, <4>2
      <4>5. s = t <=> \A i \in 1 .. n + 1 : s[i] = t[i]
        BY <4>3, <4>4
      <4> QED
        BY <4>1, <4>2, <4>3, <4>4, <4>5
    <3> QED
      BY <3>1, <3>2
  <2>5. ASSUME path # d, under(path, d) PROVE d \in Parents(path)
    <3>1. Starts(path, e)
      BY <1>2, <2>2, <2>5 DEF under
    <3>2. n + 1 <= N /\ (\A i \in 1 .. n : d[i] = path[i]) /\ path[n + 1] = "/"
      <4>1. n + 1 \in 1 .. n + 1 /\ \A i \in 1 .. n : i \in 1 .. n + 1
        BY ONLY <2>1
      <4> QED
        BY <2>3, <2>4, <3>1, <4>1
    <3>3. n + 1 \in DOMAIN path /\ (n + 1) - 1 = n
      BY <2>1, <3>2
    <3>4. SubSeq(path, 1, n) = d
      BY <2>1, <3>2
    <3> QED
      BY <3>2, <3>3, <3>4 DEF Parents
  <2>6. ASSUME d \in Parents(path) PROVE path # d /\ under(path, d)
    <3>1. PICK i \in 1 .. N : path[i] = "/" /\ d = SubSeq(path, 1, i - 1)
      BY <2>1, <2>6 DEF Parents
    <3>2. n = i - 1 /\ \A j \in 1 .. n : d[j] = path[j]
      BY <2>1, <3>1
    <3>3. n + 1 = i /\ n + 1 <= N
      BY <2>1, <3>2
    <3>4. ASSUME NEW j \in 1 .. n + 1 PROVE e[j] = path[j]
      <4>1. CASE j \in 1 .. n
        BY <2>3, <3>2, <4>1
      <4>2. CASE j = n + 1
        BY <2>3, <3>1, <3>3, <4>2
      <4> QED
        BY <2>1, <4>1, <4>2
    <3>5. Starts(path, e)
      BY <2>4, <3>3, <3>4
    <3>6. path # d
      BY <2>1, <3>3
    <3> QED
      BY <2>2, <3>5, <3>6 DEF under
  <2> QED
    BY <1>2, <2>5, <2>6
<1> QED
  BY <1>1, <1>2

(* A longer text has no fewer parts, and more if a separator was passed.   *)
LEMMA PartsGrow ==
  ASSUME NEW S, NEW text \in Seq(S), NEW piece, NEW f, Splits(f, text, piece, S),
         NEW m \in 0 .. Len(text), NEW n \in 0 .. Len(text), m < n
  PROVE  Len(f[m]) <= Len(f[n]) /\ (text[m + 1] = piece => Len(f[m]) < Len(f[n]))
<1>1. PICK N \in Nat : N = Len(text)
  OBVIOUS
<1>2. /\ \A k \in 0 .. N : Len(f[k]) \in Nat
      /\ \A k \in 0 .. N - 1 : Len(f[k + 1]) = IF text[k + 1] = piece THEN Len(f[k]) + 1 ELSE Len(f[k])
  <2>1. /\ \A k \in 0 .. N : f[k] \in Seq(Seq(S)) /\ f[k] # <<>>
        /\ \A k \in 1 .. N : f[k] = Longer(f[k - 1], text[k], piece)
    BY ONLY <1>1, Splits(f, text, piece, S) DEF Splits
  <2>2. ASSUME NEW k \in 0 .. N - 1
        PROVE  Len(f[k + 1]) = IF text[k + 1] = piece THEN Len(f[k]) + 1 ELSE Len(f[k])
    <3>1. k + 1 \in 1 .. N /\ (k + 1) - 1 = k /\ k \in 0 .. N
      BY ONLY <1>1
    <3>2. f[k + 1] = Longer(f[k], text[k + 1], piece)
      BY <2>1, <3>1
    <3>3. PICK s : s = f[k] /\ s \in Seq(Seq(S)) /\ s # <<>>
      BY <2>1, <3>1
    <3>4. CASE text[k + 1] = piece
      <4>1. f[k + 1] = Append(s, <<>>)
        BY <3>2, <3>3, <3>4 DEF Longer
      <4>2. Len(Append(s, <<>>)) = Len(s) + 1
        BY <3>3
      <4> QED
        BY <3>3, <3>4, <4>1, <4>2
    <3>5. CASE text[k + 1] # piece
      <4>1. f[k + 1] = [s EXCEPT ![Len(s)] = Append(@, text[k + 1])]
        BY <3>2, <3>3, <3>5 DEF Longer
      <4>2. Len([s EXCEPT ![Len(s)] = Append(@, text[k + 1])]) = Len(s)
        BY <3>3
      <4> QED
        BY <3>3, <3>5, <4>1, <4>2
    <3> QED
      BY <3>4, <3>5
  <2> QED
    BY <2>1, <2>2
<1> DEFINE T == {d \in 0 .. n - (m + 1) : Len(f[m + 1]) <= Len(f[m + 1 + d])}
<1>3. n - (m + 1) \in Nat /\ m + 1 + (n - (m + 1)) = n /\ m \in 0 .. N - 1 /\ m \in 0 .. N /\ m + 1 \in 0 .. N
      /\ n \in 0 .. N
  BY ONLY <1>1, m < n
<1>4. \A d \in 0 .. n - (m + 1) : d \in T
  <2>1. 0 \in T
    <3>1. m + 1 + 0 = m + 1 /\ 0 \in 0 .. n - (m + 1)
      BY ONLY <1>3
    <3>2. PICK c \in Nat : c = Len(f[m + 1])
      BY <1>2, <1>3
    <3> QED
      BY <3>1, <3>2
  <2>2. ASSUME NEW d \in 0 .. n - (m + 1) - 1, d \in T PROVE d + 1 \in T
    <3>1. /\ m + 1 + (d + 1) = (m + 1 + d) + 1 /\ m + 1 + d \in 0 .. N - 1 /\ m + 1 + d \in 0 .. N
          /\ (m + 1 + d) + 1 \in 0 .. N /\ d + 1 \in 0 .. n - (m + 1)
      BY ONLY <1>1, <1>3
    <3>2. PICK a \in Nat, b \in Nat, c \in Nat :
            a = Len(f[m + 1]) /\ b = Len(f[m + 1 + d]) /\ c = Len(f[(m + 1 + d) + 1])
      BY <1>2, <1>3, <3>1
    <3>3. a <= b /\ (c = b \/ c = b + 1)
      BY <1>2, <2>2, <3>1, <3>2
    <3>4. a <= c
      BY ONLY <3>3
    <3> QED
      BY <3>1, <3>2, <3>4
  <2> HIDE DEF T
  <2> QED
    BY ONLY <1>3, <2>1, <2>2, Upwards
<1>5. PICK a \in Nat, b \in Nat, c \in Nat : a = Len(f[m]) /\ b = Len(f[m + 1]) /\ c = Len(f[n])
  BY <1>2, <1>3
<1>6. b <= c
  <2>1. n - (m + 1) \in T
    <3>1. n - (m + 1) \in 0 .. n - (m + 1)
      BY ONLY <1>3
    <3> QED
      BY <1>4, <3>1
  <2> QED
    BY <1>3, <1>5, <2>1
<1>7. b = IF text[m + 1] = piece THEN a + 1 ELSE a
  BY <1>2, <1>3, <1>5
<1>8. a <= c /\ (b = a + 1 => a < c)
  BY <1>6, <1>7
<1> QED
  BY <1>5, <1>7, <1>8

(* The recursion for the beginning of a text is that for the text.         *)
LEMMA SplitsPrefix ==
  ASSUME NEW S, NEW text \in Seq(S), NEW piece, NEW f, Splits(f, text, piece, S),
         NEW n \in 0 .. Len(text)
  PROVE  Split(SubSeq(text, 1, n), piece) = f[n]
<1>1. PICK u : u = SubSeq(text, 1, n)
  OBVIOUS
<1>2. u \in Seq(S) /\ Len(u) = n /\ \A i \in 1 .. n : u[i] = text[i]
  BY <1>1
<1>3. PICK g : Splits(g, u, piece, S)
  BY <1>2, SplitRecursion
<1>4. /\ g[0] = <<<<>>>> /\ \A k \in 1 .. n : g[k] = Longer(g[k - 1], u[k], piece)
      /\ Split(u, piece) = g[n]
  BY ONLY <1>2, <1>3 DEF Splits
<1>5. f[0] = <<<<>>>> /\ \A k \in 1 .. n : f[k] = Longer(f[k - 1], text[k], piece)
  <2>1. \A k \in 1 .. n : k \in 1 .. Len(text)
    OBVIOUS
  <2> QED
    BY ONLY <2>1, Splits(f, text, piece, S) DEF Splits
<1> DEFINE T == {k \in 0 .. n : f[k] = g[k]}
<1>6. 0 \in T
  BY <1>4, <1>5
<1>7. ASSUME NEW k \in 0 .. n - 1, k \in T PROVE k + 1 \in T
  <2>1. k + 1 \in 1 .. n /\ (k + 1) - 1 = k /\ k + 1 \in 0 .. n
    OBVIOUS
  <2> QED
    BY <1>2, <1>4, <1>5, <1>7, <2>1
<1>8. \A k \in 0 .. n : k \in T
  <2> HIDE DEF T
  <2> QED
    BY <1>6, <1>7, Upwards
<1> QED
  BY <1>1, <1>4, <1>8

(* Of the directories above a path no two are at the same depth.           *)
LEMMA DepthTells ==
  ASSUME NEW S, NEW path \in Seq(S), NEW a \in {<<>>} \cup Parents(path), NEW b \in {<<>>} \cup Parents(path)
  PROVE  Depth(a) \in Nat /\ Depth(b) \in Nat /\ (Depth(a) = Depth(b) => a = b)
<1>1. PICK N \in Nat : N = Len(path) /\ DOMAIN path = 1 .. N
  OBVIOUS
<1>2. PICK f : Splits(f, path, "/", S)
  BY SplitRecursion
<1>3. Depth(<<>>) = 0
  BY DEF Depth, names
<1>4. ASSUME NEW d \in {<<>>} \cup Parents(path), d # <<>>
      PROVE  \E n \in 1 .. N : /\ d = SubSeq(path, 1, n) /\ n + 1 \in 1 .. N /\ path[n + 1] = "/"
                               /\ Depth(d) = Len(f[n]) /\ Depth(d) \in Nat \ {0}
  <2>1. PICK i \in 1 .. N : path[i] = "/" /\ d = SubSeq(path, 1, i - 1)
    BY <1>1, <1>4 DEF Parents
  <2>2. i # 1
    BY <1>4, <2>1
  <2>3. i - 1 \in 1 .. N /\ (i - 1) + 1 = i /\ i - 1 \in 0 .. Len(path)
    BY ONLY <1>1, <2>2
  <2>4. Split(d, "/") = f[i - 1]
    BY <1>2, <2>1, <2>3, SplitsPrefix
  <2>5. Depth(d) = Len(f[i - 1])
    BY <1>4, <2>4 DEF Depth, names
  <2>6. f[i - 1] \in Seq(Seq(S)) \ {<<>>}
    BY <1>2, <2>3 DEF Splits
  <2>7. Len(f[i - 1]) \in Nat \ {0}
    BY <2>6
  <2> QED
    BY <2>1, <2>3, <2>5, <2>7
<1>5. ASSUME NEW c \in {<<>>} \cup Parents(path), NEW d \in {<<>>} \cup Parents(path), c # <<>>, d # <<>>,
             Depth(c) = Depth(d)
      PROVE  c = d
  <2>1. PICK m \in 1 .. N : /\ c = SubSeq(path, 1, m) /\ m + 1 \in 1 .. N /\ path[m + 1] = "/"
                            /\ Depth(c) = Len(f[m]) /\ Depth(c) \in Nat \ {0}
    BY <1>4, <1>5
  <2>2. PICK n \in 1 .. N : /\ d = SubSeq(path, 1, n) /\ n + 1 \in 1 .. N /\ path[n + 1] = "/"
                            /\ Depth(d) = Len(f[n]) /\ Depth(d) \in Nat \ {0}
    BY <1>4, <1>5
  <2>3. m \in 0 .. Len(path) /\ n \in 0 .. Len(path) /\ (m = n \/ m < n \/ n < m)
    BY ONLY <1>1
  <2>4. ~ (m < n)
    <3> SUFFICES ASSUME m < n PROVE FALSE
      OBVIOUS
    <3>1. Len(f[m]) < Len(f[n])
      BY <1>2, <2>1, <2>3, PartsGrow
    <3> QED
      BY <1>5, <2>1, <2>2, <3>1
  <2>5. ~ (n < m)
    <3> SUFFICES ASSUME n < m PROVE FALSE
      OBVIOUS
    <3>1. Len(f[n]) < Len(f[m])
      BY <1>2, <2>2, <2>3, PartsGrow
    <3> QED
      BY <1>5, <2>1, <2>2, <3>1
  <2> QED
    BY <2>1, <2>2, <2>3, <2>4, <2>5
<1>6. \A d \in {<<>>} \cup Parents(path) : d # <<>> => Depth(d) \in Nat \ {0}
  BY <1>4
<1> QED
  BY <1>3, <1>5, <1>6

(* What is below a directory of a path.                                    *)
Below(d, path) == IF d = <<>> THEN path ELSE SubSeq(path, Len(d) + 2, Len(path))

(* It is a path of its own: what a pattern of that directory is matched    *)
(* to.                                                                     *)
LEMMA BelowIs ==
  ASSUME NEW S, NEW path \in Seq(S), path # <<>>, path[Len(path)] # "/", NEW d \in {<<>>} \cup Parents(path)
  PROVE  Below(d, path) \in Seq(S) /\ Below(d, path) # <<>> /\ d \in Seq(S)
<1>1. PICK N \in Nat : N = Len(path) /\ DOMAIN path = 1 .. N
  OBVIOUS
<1>2. CASE d = <<>>
  BY <1>2 DEF Below
<1>3. CASE d # <<>>
  <2>1. PICK i \in 1 .. N : path[i] = "/" /\ d = SubSeq(path, 1, i - 1)
    BY <1>1, <1>3 DEF Parents
  <2>2. d \in Seq(S) /\ Len(d) = i - 1
    BY <1>1, <2>1
  <2>3. i # N
    BY <1>1, <2>1
  <2>4. (i - 1) + 2 \in 1 .. N /\ (i - 1) + 2 <= N
    BY ONLY <1>1, <2>3
  <2>5. PICK c : c = (i - 1) + 2 /\ c \in 1 .. N
    BY <2>4
  <2>6. Below(d, path) = SubSeq(path, c, N)
    BY <1>1, <1>3, <2>2, <2>5 DEF Below
  <2>7. SubSeq(path, c, N) \in Seq(S) /\ SubSeq(path, c, N) # <<>>
    <3>1. \A k \in c .. N : k \in 1 .. N
      BY ONLY <1>1, <2>5
    <3>2. /\ SubSeq(path, c, N) \in Seq(S)
          /\ Len(SubSeq(path, c, N)) = IF c <= N THEN N - c + 1 ELSE 0
      BY <1>1, <2>5, <3>1, SubSeqProperties
    <3>3. c <= N /\ N - c + 1 # 0
      BY ONLY <1>1, <2>5
    <3>4. \A s \in Seq(S) : Len(s) # 0 => s # <<>>
      OBVIOUS
    <3> QED
      BY <3>2, <3>3, <3>4
  <2> QED
    BY <2>2, <2>6, <2>7
<1> QED
  BY <1>2, <1>3

-----------------------------------------------------------------------------
(* What the lines of one .gitattributes file say, token by token.          *)

RuleOf(dir, lines, n, t, a) ==
  [directory |-> dir, line |-> n, pattern |-> lines[n].pattern, attribute |-> a,
   set |-> attribute_state(lines[n].tokens[t], a) = {TRUE}]

SaidBy(dir, lines, n, t) ==
  {RuleOf(dir, lines, n, t, a) :
     a \in {b \in ATTRIBUTE_NAMES : attribute_state(lines[n].tokens[t], b) # {}}}

(* A token speaks of one attribute.                                        *)
LEMMA SpeaksOfOne ==
  ASSUME NEW token, NEW a \in ATTRIBUTE_NAMES, NEW b \in ATTRIBUTE_NAMES,
         attribute_state(token, a) # {}, attribute_state(token, b) # {}
  PROVE  a = b
<1>1. ASSUME NEW c \in ATTRIBUTE_NAMES, attribute_state(token, c) # {}
      PROVE  token.name = IF c = "filter=lfs" THEN "filter" ELSE c
  <2>1. CASE c = "filter=lfs"
    <3>1. \E s, v : token = [sign |-> s, name |-> "filter", value |-> v]
      BY <1>1, <2>1 DEF attribute_state
    <3> QED
      BY <2>1, <3>1
  <2>2. CASE c # "filter=lfs"
    BY <1>1, <2>2 DEF attribute_state
  <2> QED
    BY <2>1, <2>2
<1>2. \A c \in ATTRIBUTE_NAMES : c # "filter"
  BY DEF ATTRIBUTE_NAMES
<1> QED
  BY <1>1, <1>2

(* A set of one thing at most is a sequence in one way.                    *)
LEMMA SingleSeq ==
  ASSUME NEW T, \A x, y \in T : x = y
  PROVE  /\ SetToSeq(T) \in Seq(T)
         /\ \A x \in T : Len(SetToSeq(T)) = 1 /\ SetToSeq(T)[1] = x
<1>1. CASE T = {}
  <2>1. Cardinality(T) = 0
    BY <1>1, FS_EmptySet
  <2>2. SetToSeq(T) = CHOOSE f \in [1 .. 0 -> T] : IsInjective(f)
    BY <2>1 DEF SetToSeq
  <2>3. <<>> \in [1 .. 0 -> T] /\ IsInjective(<<>>)
    BY DEF IsInjective
  <2>4. SetToSeq(T) \in [1 .. 0 -> T]
    BY <2>2, <2>3
  <2>5. \A f \in [1 .. 0 -> T] : f \in Seq(T)
    OBVIOUS
  <2> QED
    BY <1>1, <2>4, <2>5
<1>2. CASE T # {}
  <2>1. PICK r : T = {r}
    BY <1>2
  <2>2. Cardinality(T) = 1
    BY <2>1, FS_Singleton
  <2>3. SetToSeq(T) = CHOOSE f \in [1 .. 1 -> T] : IsInjective(f)
    BY <2>2 DEF SetToSeq
  <2>4. [i \in 1 .. 1 |-> r] \in [1 .. 1 -> T] /\ IsInjective([i \in 1 .. 1 |-> r])
    BY <2>1 DEF IsInjective
  <2>5. SetToSeq(T) \in [1 .. 1 -> T]
    BY <2>3, <2>4
  <2>6. ASSUME NEW f \in [1 .. 1 -> T] PROVE f \in Seq(T) /\ Len(f) = 1 /\ f[1] \in T
    <3>1. f \in Seq(T)
      BY 1 \in Nat, SeqDef
    <3>2. DOMAIN f = 1 .. 1 /\ f[1] \in T
      OBVIOUS
    <3> QED
      BY ONLY <3>1, <3>2
  <2> QED
    BY <2>1, <2>5, <2>6
<1> QED
  BY <1>1, <1>2

(* u is what k sets of one thing at most hold, at[w] the set of the w-th.  *)
Marked(at, u, said, k) ==
  /\ at \in [1 .. Len(u) -> 1 .. k]
  /\ \A w \in 1 .. Len(u) : u[w] \in said[at[w]]
  /\ \A t \in 1 .. k : \A x \in said[t] : \E w \in 1 .. Len(u) : u[w] = x /\ at[w] = t
  /\ \A w, v \in 1 .. Len(u) : w < v => at[w] < at[v]

(* Flattened, such sets keep their order, and each element the set it is   *)
(* of.                                                                     *)
LEMMA SetsMarked ==
  ASSUME NEW S, NEW k \in Nat, NEW said \in [1 .. k -> SUBSET S],
         \A t \in 1 .. k : \A x, y \in said[t] : x = y,
         NEW u, u = FlattenSeq([t \in 1 .. k |-> SetToSeq(said[t])])
  PROVE  u \in Seq(S) /\ \E at : Marked(at, u, said, k)
<1>1. PICK seqs : seqs = [t \in 1 .. k |-> SetToSeq(said[t])]
  OBVIOUS
<1>2. \A t \in 1 .. k : /\ seqs[t] \in Seq(said[t]) /\ seqs[t] \in Seq(S)
                        /\ \A x \in said[t] : Len(seqs[t]) = 1 /\ seqs[t][1] = x
  <2> SUFFICES ASSUME NEW t \in 1 .. k
               PROVE  /\ seqs[t] \in Seq(said[t]) /\ seqs[t] \in Seq(S)
                      /\ \A x \in said[t] : Len(seqs[t]) = 1 /\ seqs[t][1] = x
    OBVIOUS
  <2>1. PICK T : T = said[t]
    OBVIOUS
  <2>2. T \in SUBSET S /\ \A x, y \in T : x = y
    BY <2>1
  <2>3. seqs[t] = SetToSeq(T)
    BY <1>1, <2>1
  <2>4. seqs[t] \in Seq(T) /\ \A x \in T : Len(seqs[t]) = 1 /\ seqs[t][1] = x
    BY <2>2, <2>3, SingleSeq
  <2>5. seqs[t] \in Seq(S)
    BY ONLY <2>2, <2>4
  <2> QED
    BY <2>1, <2>4, <2>5
<1>3. seqs \in Seq(Seq(S)) /\ Len(seqs) = k
  BY <1>1, <1>2
<1>4. u \in Seq(S) /\ \E at, off : FlatAt(at, off, u, seqs, k)
  BY <1>1, <1>3, FlatPlaces
<1>5. PICK at, off : FlatAt(at, off, u, seqs, k)
  BY <1>4
<1>6. PICK L \in Nat : L = Len(u)
  BY <1>4
<1>7. /\ at \in [1 .. L -> 1 .. k]
      /\ \A w \in 1 .. L : off[w] \in 1 .. Len(seqs[at[w]]) /\ u[w] = seqs[at[w]][off[w]]
      /\ \A t \in 1 .. k : \A o \in 1 .. Len(seqs[t]) : \E w \in 1 .. L : at[w] = t /\ off[w] = o
      /\ \A w, v \in 1 .. L : w < v => at[w] < at[v] \/ (at[w] = at[v] /\ off[w] < off[v])
  BY ONLY <1>5, <1>6 DEF FlatAt
<1>8. \A t \in 1 .. k : \A o \in 1 .. Len(seqs[t]) : o = 1 /\ seqs[t][o] \in said[t]
  <2> SUFFICES ASSUME NEW t \in 1 .. k, NEW o \in 1 .. Len(seqs[t])
               PROVE  o = 1 /\ seqs[t][o] \in said[t]
    OBVIOUS
  <2>1. seqs[t][o] \in said[t]
    BY <1>2
  <2>2. Len(seqs[t]) = 1
    BY <1>2, <2>1
  <2> QED
    BY <2>1, <2>2
<1>9. \A w \in 1 .. L : off[w] = 1 /\ u[w] \in said[at[w]]
  <2> SUFFICES ASSUME NEW w \in 1 .. L PROVE off[w] = 1 /\ u[w] \in said[at[w]]
    OBVIOUS
  <2>1. PICK t \in 1 .. k : t = at[w]
    BY <1>7
  <2>2. PICK o \in 1 .. Len(seqs[t]) : o = off[w] /\ u[w] = seqs[t][o]
    BY <1>7, <2>1
  <2> QED
    BY <1>8, <2>1, <2>2
<1>10. \A t \in 1 .. k : \A x \in said[t] : \E w \in 1 .. L : u[w] = x /\ at[w] = t
  <2> SUFFICES ASSUME NEW t \in 1 .. k, NEW x \in said[t] PROVE \E w \in 1 .. L : u[w] = x /\ at[w] = t
    OBVIOUS
  <2>1. Len(seqs[t]) = 1 /\ seqs[t][1] = x /\ 1 \in 1 .. Len(seqs[t])
    BY <1>2
  <2>2. PICK w \in 1 .. L : at[w] = t /\ off[w] = 1
    BY <1>7, <2>1
  <2> QED
    BY <1>7, <2>1, <2>2
<1>11. \A w, v \in 1 .. L : w < v => at[w] < at[v]
  <2> SUFFICES ASSUME NEW w \in 1 .. L, NEW v \in 1 .. L, w < v PROVE at[w] < at[v]
    OBVIOUS
  <2>1. at[w] < at[v] \/ (at[w] = at[v] /\ off[w] < off[v])
    BY ONLY <1>7, w < v
  <2>2. off[w] = 1 /\ off[v] = 1
    BY ONLY <1>9
  <2> QED
    BY ONLY <2>1, <2>2
<1> QED
  <2>1. at \in [1 .. L -> 1 .. k]
    BY <1>7
  <2>2. Marked(at, u, said, k)
    BY ONLY <1>6, <1>9, <1>10, <1>11, <2>1 DEF Marked
  <2> QED
    BY <1>4, <2>2

Lines(lines) ==
  lines \in Seq(Range(lines)) /\ \A n \in 1 .. Len(lines) : lines[n].tokens \in Seq(Range(lines[n].tokens))

Says(dir, lines, r, n, t) ==
  n \in 1 .. Len(lines) /\ t \in 1 .. Len(lines[n].tokens) /\ r \in SaidBy(dir, lines, n, t)

LineRules(dir, lines, n) ==
  FlattenSeq([t \in 1 .. Len(lines[n].tokens) |-> SetToSeq(SaidBy(dir, lines, n, t))])

(* parse_attributes says what its lines say, line by line.                 *)
LEMMA ParseIs ==
  ASSUME NEW dir, NEW lines, Lines(lines)
  PROVE  parse_attributes(dir, lines) = FlattenSeq([n \in 1 .. Len(lines) |-> LineRules(dir, lines, n)])
<1>1. DOMAIN lines = 1 .. Len(lines) /\ \A n \in DOMAIN lines : DOMAIN lines[n].tokens = 1 .. Len(lines[n].tokens)
  BY DEF Lines
<1>2. parse_attributes(dir, lines) =
        FlattenSeq([n \in DOMAIN lines |->
          FlattenSeq([t \in DOMAIN lines[n].tokens |-> SetToSeq(SaidBy(dir, lines, n, t))])])
  BY DEF parse_attributes, SaidBy, RuleOf
<1>3. ASSUME NEW n \in DOMAIN lines
      PROVE  FlattenSeq([t \in DOMAIN lines[n].tokens |-> SetToSeq(SaidBy(dir, lines, n, t))])
               = LineRules(dir, lines, n)
  BY <1>1 DEF LineRules
<1>4. [n \in DOMAIN lines |->
          FlattenSeq([t \in DOMAIN lines[n].tokens |-> SetToSeq(SaidBy(dir, lines, n, t))])]
        = [n \in 1 .. Len(lines) |-> LineRules(dir, lines, n)]
  BY <1>1, <1>3
<1> QED
  BY <1>2, <1>4

LineMarks(at, dir, lines, n) ==
  Marked(at, LineRules(dir, lines, n), [t \in 1 .. Len(lines[n].tokens) |-> SaidBy(dir, lines, n, t)],
         Len(lines[n].tokens))

(* One line says what its tokens say, in their order.                      *)
LEMMA LineMarked ==
  ASSUME NEW S, NEW dir, NEW lines, NEW n, Len(lines[n].tokens) \in Nat,
         \A t \in 1 .. Len(lines[n].tokens) : SaidBy(dir, lines, n, t) \subseteq S
  PROVE  LineRules(dir, lines, n) \in Seq(S) /\ \E at : LineMarks(at, dir, lines, n)
<1>1. PICK k \in Nat : k = Len(lines[n].tokens)
  OBVIOUS
<1>2. PICK said : said = [t \in 1 .. k |-> SaidBy(dir, lines, n, t)]
  OBVIOUS
<1>3. said \in [1 .. k -> SUBSET S]
  BY <1>1, <1>2
<1>4. ASSUME NEW t \in 1 .. k PROVE \A x, y \in said[t] : x = y
  <2>1. \A x, y \in SaidBy(dir, lines, n, t) : x = y
    BY SpeaksOfOne DEF SaidBy
  <2> QED
    BY <1>2, <2>1
<1>5. PICK u : u = LineRules(dir, lines, n)
  OBVIOUS
<1>6. u = FlattenSeq([t \in 1 .. k |-> SetToSeq(said[t])])
  <2>1. [t \in 1 .. k |-> SetToSeq(said[t])] = [t \in 1 .. k |-> SetToSeq(SaidBy(dir, lines, n, t))]
    BY <1>2
  <2> QED
    BY <1>1, <1>5, <2>1 DEF LineRules
<1>7. u \in Seq(S) /\ \E at : Marked(at, u, said, k)
  BY ONLY <1>1, <1>3, <1>4, <1>6, SetsMarked
<1> QED
  BY <1>1, <1>2, <1>5, <1>7 DEF LineMarks

(* ln[w] and tk[w] are the line and the token that say the w-th rule.      *)
Parsed(ln, tk, rules, dir, lines) ==
  /\ ln \in [1 .. Len(rules) -> Nat] /\ tk \in [1 .. Len(rules) -> Nat]
  /\ \A w \in 1 .. Len(rules) : Says(dir, lines, rules[w], ln[w], tk[w])
  /\ \A n, t : \A r : Says(dir, lines, r, n, t) =>
       \E w \in 1 .. Len(rules) : rules[w] = r /\ ln[w] = n /\ tk[w] = t
  /\ \A w, v \in 1 .. Len(rules) : w < v => ln[w] < ln[v] \/ (ln[w] = ln[v] /\ tk[w] < tk[v])

(* parse_attributes finds what the tokens say, all of it, and in their     *)
(* order.                                                                  *)
LEMMA ParsedRules ==
  ASSUME NEW dir, NEW lines, Lines(lines), NEW rules, rules = parse_attributes(dir, lines)
  PROVE  /\ \E S : rules \in Seq(S)
         /\ \E ln, tk : Parsed(ln, tk, rules, dir, lines)
<1>1. PICK K \in Nat : K = Len(lines)
  BY DEF Lines
<1>2. PICK k : k = [n \in 1 .. K |-> Len(lines[n].tokens)]
  OBVIOUS
<1>3. \A n \in 1 .. K : k[n] = Len(lines[n].tokens) /\ k[n] \in Nat
  BY <1>1, <1>2 DEF Lines
<1>4. PICK S : S = UNION {UNION {SaidBy(dir, lines, n, t) : t \in Nat} : n \in 1 .. K}
  OBVIOUS
<1>5. PICK seqs : seqs = [n \in 1 .. K |-> LineRules(dir, lines, n)]
  OBVIOUS
<1>6. PICK mk : mk = [n \in 1 .. K |-> CHOOSE at : LineMarks(at, dir, lines, n)]
  OBVIOUS
<1>7. \A n \in 1 .. K : seqs[n] \in Seq(S) /\ LineMarks(mk[n], dir, lines, n)
  <2> SUFFICES ASSUME NEW n \in 1 .. K PROVE seqs[n] \in Seq(S) /\ LineMarks(mk[n], dir, lines, n)
    OBVIOUS
  <2>1. \A t \in 1 .. Len(lines[n].tokens) : SaidBy(dir, lines, n, t) \subseteq S
    BY <1>3, <1>4
  <2>2. LineRules(dir, lines, n) \in Seq(S) /\ \E at : LineMarks(at, dir, lines, n)
    BY <1>3, <2>1, LineMarked
  <2>3. seqs[n] = LineRules(dir, lines, n) /\ mk[n] = CHOOSE at : LineMarks(at, dir, lines, n)
    BY <1>5, <1>6
  <2> QED
    BY <2>2, <2>3
<1>8. \A n \in 1 .. K :
        /\ Len(seqs[n]) \in Nat
        /\ mk[n] \in [1 .. Len(seqs[n]) -> 1 .. k[n]]
        /\ \A o \in 1 .. Len(seqs[n]) : seqs[n][o] \in SaidBy(dir, lines, n, mk[n][o])
        /\ \A t \in 1 .. k[n] : \A x \in SaidBy(dir, lines, n, t) :
             \E o \in 1 .. Len(seqs[n]) : seqs[n][o] = x /\ mk[n][o] = t
        /\ \A o, p \in 1 .. Len(seqs[n]) : o < p => mk[n][o] < mk[n][p]
  <2> SUFFICES ASSUME NEW n \in 1 .. K
               PROVE  /\ Len(seqs[n]) \in Nat
                      /\ mk[n] \in [1 .. Len(seqs[n]) -> 1 .. k[n]]
                      /\ \A o \in 1 .. Len(seqs[n]) : seqs[n][o] \in SaidBy(dir, lines, n, mk[n][o])
                      /\ \A t \in 1 .. k[n] : \A x \in SaidBy(dir, lines, n, t) :
                           \E o \in 1 .. Len(seqs[n]) : seqs[n][o] = x /\ mk[n][o] = t
                      /\ \A o, p \in 1 .. Len(seqs[n]) : o < p => mk[n][o] < mk[n][p]
    OBVIOUS
  <2>1. PICK u, m, q : u = seqs[n] /\ m = mk[n] /\ q = k[n]
    OBVIOUS
  <2>2. u \in Seq(S) /\ q = Len(lines[n].tokens) /\ u = LineRules(dir, lines, n)
    BY <1>3, <1>5, <1>7, <2>1
  <2>3. PICK said : said = [t \in 1 .. q |-> SaidBy(dir, lines, n, t)]
    OBVIOUS
  <2>4. Marked(m, u, said, q)
    BY <1>7, <2>1, <2>2, <2>3 DEF LineMarks
  <2>5. /\ m \in [1 .. Len(u) -> 1 .. q]
        /\ \A w \in 1 .. Len(u) : u[w] \in said[m[w]]
        /\ \A t \in 1 .. q : \A x \in said[t] : \E w \in 1 .. Len(u) : u[w] = x /\ m[w] = t
        /\ \A w, v \in 1 .. Len(u) : w < v => m[w] < m[v]
    BY ONLY <2>4 DEF Marked
  <2>6. \A t \in 1 .. q : said[t] = SaidBy(dir, lines, n, t)
    BY ONLY <2>3
  <2>7. Len(u) \in Nat
    BY <2>2
  <2>8. \A w \in 1 .. Len(u) : u[w] \in SaidBy(dir, lines, n, m[w])
    BY ONLY <2>5, <2>6
  <2>9. \A t \in 1 .. q : \A x \in SaidBy(dir, lines, n, t) : \E w \in 1 .. Len(u) : u[w] = x /\ m[w] = t
    BY ONLY <2>5, <2>6
  <2> QED
    BY ONLY <2>1, <2>5, <2>7, <2>8, <2>9
<1>9. seqs \in Seq(Seq(S)) /\ Len(seqs) = K
  BY <1>5, <1>7
<1>10. rules = FlattenSeq(seqs)
  BY <1>1, <1>5, ParseIs
<1>11. rules \in Seq(S) /\ \E at, off : FlatAt(at, off, rules, seqs, K)
  BY <1>9, <1>10, FlatPlaces
<1>12. PICK L \in Nat : L = Len(rules)
  BY <1>11
<1>13. PICK ln, off : FlatAt(ln, off, rules, seqs, K)
  BY <1>11
<1>14. /\ ln \in [1 .. L -> 1 .. K] /\ off \in [1 .. L -> Nat]
       /\ \A w \in 1 .. L : off[w] \in 1 .. Len(seqs[ln[w]]) /\ rules[w] = seqs[ln[w]][off[w]]
       /\ \A n \in 1 .. K : \A o \in 1 .. Len(seqs[n]) : \E w \in 1 .. L : ln[w] = n /\ off[w] = o
       /\ \A w, v \in 1 .. L : w < v => ln[w] < ln[v] \/ (ln[w] = ln[v] /\ off[w] < off[v])
  BY ONLY <1>12, <1>13 DEF FlatAt
<1>15. PICK tk : tk = [w \in 1 .. L |-> mk[ln[w]][off[w]]]
  OBVIOUS
<1>16. \A w \in 1 .. L : /\ ln[w] \in 1 .. K /\ off[w] \in 1 .. Len(seqs[ln[w]])
                         /\ tk[w] = mk[ln[w]][off[w]] /\ tk[w] \in 1 .. k[ln[w]]
                         /\ rules[w] \in SaidBy(dir, lines, ln[w], tk[w])
  <2> SUFFICES ASSUME NEW w \in 1 .. L
               PROVE  /\ ln[w] \in 1 .. K /\ off[w] \in 1 .. Len(seqs[ln[w]])
                      /\ tk[w] = mk[ln[w]][off[w]] /\ tk[w] \in 1 .. k[ln[w]]
                      /\ rules[w] \in SaidBy(dir, lines, ln[w], tk[w])
    OBVIOUS
  <2>1. PICK n \in 1 .. K : n = ln[w]
    BY <1>14
  <2>2. PICK o \in 1 .. Len(seqs[n]) : o = off[w] /\ rules[w] = seqs[n][o]
    BY <1>14, <2>1
  <2>3. tk[w] = mk[n][o]
    BY <1>15, <2>1, <2>2
  <2>4. mk[n][o] \in 1 .. k[n] /\ seqs[n][o] \in SaidBy(dir, lines, n, mk[n][o])
    BY <1>8
  <2> QED
    BY <2>1, <2>2, <2>3, <2>4
<1>17. ln \in [1 .. L -> Nat] /\ tk \in [1 .. L -> Nat]
  <2>1. \A w \in 1 .. L : ln[w] \in Nat /\ tk[w] \in Nat
    BY <1>3, <1>16
  <2>2. ln = [w \in 1 .. L |-> ln[w]] /\ tk = [w \in 1 .. L |-> tk[w]]
    BY <1>14, <1>15
  <2> QED
    BY ONLY <2>1, <2>2
<1>18. \A w \in 1 .. L : Says(dir, lines, rules[w], ln[w], tk[w])
  BY <1>1, <1>3, <1>16 DEF Says
<1>19. ASSUME NEW n, NEW t, NEW r, Says(dir, lines, r, n, t)
       PROVE  \E w \in 1 .. L : rules[w] = r /\ ln[w] = n /\ tk[w] = t
  <2>1. n \in 1 .. K /\ t \in 1 .. k[n] /\ r \in SaidBy(dir, lines, n, t)
    BY <1>1, <1>3, <1>19 DEF Says
  <2>2. PICK o \in 1 .. Len(seqs[n]) : seqs[n][o] = r /\ mk[n][o] = t
    BY <1>8, <2>1
  <2>3. PICK w \in 1 .. L : ln[w] = n /\ off[w] = o
    BY <1>14, <2>1
  <2>4. rules[w] = seqs[ln[w]][off[w]] /\ tk[w] = mk[ln[w]][off[w]]
    BY <1>14, <1>15
  <2> QED
    BY <2>2, <2>3, <2>4
<1>20. ASSUME NEW w \in 1 .. L, NEW v \in 1 .. L, w < v
       PROVE  ln[w] < ln[v] \/ (ln[w] = ln[v] /\ tk[w] < tk[v])
  <2>1. CASE ln[w] < ln[v]
    BY <2>1
  <2>2. CASE ln[w] = ln[v] /\ off[w] < off[v]
    <3>1. PICK n \in 1 .. K : n = ln[w] /\ n = ln[v]
      BY <1>16, <2>2
    <3>2. PICK o \in 1 .. Len(seqs[n]), p \in 1 .. Len(seqs[n]) : o = off[w] /\ p = off[v]
      BY <1>16, <3>1
    <3>3. mk[n][o] < mk[n][p]
      BY <1>8, <2>2, <3>2
    <3> QED
      BY <1>16, <2>2, <3>1, <3>2, <3>3
  <2> QED
    BY <1>14, <1>20, <2>1, <2>2
<1>21. Parsed(ln, tk, rules, dir, lines)
  BY ONLY <1>12, <1>17, <1>18, <1>19, <1>20 DEF Parsed
<1> QED
  BY <1>11, <1>21

(* Finitely many naturals have a bound.                                    *)
LEMMA Bounded ==
  ASSUME NEW L \in Nat, NEW h, \A i \in 1 .. L : h[i] \in Nat
  PROVE  \E b \in Nat : \A i \in 1 .. L : h[i] <= b
<1> DEFINE T == {n \in 0 .. L : \E b \in Nat : \A i \in 1 .. n : h[i] <= b}
<1>1. 0 \in T
  OBVIOUS
<1>2. ASSUME NEW n \in 0 .. L - 1, n \in T PROVE n + 1 \in T
  <2>1. PICK b \in Nat : \A i \in 1 .. n : h[i] <= b
    BY <1>2
  <2>2. n + 1 \in 1 .. L /\ n + 1 \in 0 .. L /\ \A i \in 1 .. n + 1 : i = n + 1 \/ i \in 1 .. n
    OBVIOUS
  <2>3. PICK c \in Nat : c = h[n + 1]
    BY <2>2
  <2>4. \A i \in 1 .. n : i \in 1 .. L
    OBVIOUS
  <2>5. \A i \in 1 .. n + 1 : h[i] <= b + c
    <3> SUFFICES ASSUME NEW i \in 1 .. n + 1 PROVE h[i] <= b + c
      OBVIOUS
    <3>1. CASE i = n + 1
      BY <2>3, <3>1
    <3>2. CASE i \in 1 .. n
      <4>1. PICK a \in Nat : a = h[i] /\ a <= b
        BY <2>1, <2>4, <3>2
      <4> QED
        BY <4>1
    <3> QED
      BY <2>2, <3>1, <3>2
  <2> QED
    BY <2>2, <2>5
<1>3. \A n \in 0 .. L : n \in T
  <2> HIDE DEF T
  <2> QED
    BY <1>1, <1>2, Upwards
<1>4. L \in 0 .. L
  OBVIOUS
<1> QED
  BY <1>3, <1>4

(* place[w] is where the w-th of the rules was among those found.          *)
ByDepth(place, sorted, rules) ==
  /\ place \in [1 .. Len(sorted) -> 1 .. Len(rules)]
  /\ \A w \in 1 .. Len(sorted) : sorted[w] = rules[place[w]]
  /\ \A i \in 1 .. Len(rules) : \E w \in 1 .. Len(sorted) : place[w] = i
  /\ \A w, v \in 1 .. Len(sorted) : w < v =>
       \/ Depth(sorted[w].directory) < Depth(sorted[v].directory)
       \/ Depth(sorted[w].directory) = Depth(sorted[v].directory) /\ place[w] < place[v]

(* by_precedence loses no rule, puts the deeper ones later, and keeps the  *)
(* order of those of one depth.                                            *)
LEMMA SortedByDepth ==
  ASSUME NEW S, NEW rules \in Seq(S), \A i \in 1 .. Len(rules) : Depth(rules[i].directory) \in Nat,
         NEW sorted, sorted = by_precedence(rules)
  PROVE  sorted \in Seq(S) /\ \E place : ByDepth(place, sorted, rules)
<1>1. PICK L \in Nat : L = Len(rules)
  OBVIOUS
<1>2. PICK h : h = [i \in 1 .. L |-> Depth(rules[i].directory)]
  OBVIOUS
<1>3. \A i \in 1 .. L : h[i] = Depth(rules[i].directory) /\ h[i] \in Nat
  BY <1>1, <1>2
<1>4. PICK b \in Nat : \A i \in 1 .. L : h[i] <= b
  BY <1>3, Bounded
<1>5. PICK D : D = {0} \cup {h[i] : i \in 1 .. L}
  OBVIOUS
<1>6. PICK M \in Nat : M = Max(D) /\ \A i \in 1 .. L : h[i] \in 0 .. M
  <2>1. D \subseteq 0 .. b /\ D # {}
    BY <1>3, <1>4, <1>5
  <2>2. Max(D) \in D /\ \A n \in D : n <= Max(D)
    BY <2>1, GreatestNatural
  <2>3. PICK m : m = Max(D)
    OBVIOUS
  <2>4. m \in D /\ (\A n \in D : n <= m) /\ \A i \in 1 .. L : h[i] \in D
    BY <1>5, <2>2, <2>3
  <2>5. m \in Nat
    BY ONLY <2>1, <2>4, b \in Nat
  <2>6. \A i \in 1 .. L : h[i] \in 0 .. m
    BY ONLY <1>3, <2>4, <2>5
  <2> QED
    BY ONLY <2>3, <2>5, <2>6
<1>7. D = {0} \cup {Depth(rules[i].directory) : i \in DOMAIN rules}
  BY <1>1, <1>3, <1>5
<1>8. PICK P : P = [d \in 1 .. M + 1 |-> {i \in 1 .. L : h[i] = d - 1}]
  OBVIOUS
<1>9. PICK seqs : seqs = [d \in 1 .. M + 1 |-> Picked(rules, P[d])]
  OBVIOUS
<1>10. sorted = FlattenSeq(seqs)
  <2>1. \A d \in 1 .. 1 + Max(D) : {i \in DOMAIN rules : Depth(rules[i].directory) = d - 1} = P[d]
    BY <1>1, <1>3, <1>6, <1>8
  <2>0. 1 .. 1 + Max(D) = 1 .. M + 1
    <3>1. PICK m : m = Max(D)
      OBVIOUS
    <3> QED
      BY <1>6, <3>1
  <2>2. [d \in 1 .. 1 + Max(D) |-> Picked(rules, {i \in DOMAIN rules : Depth(rules[i].directory) = d - 1})] = seqs
    BY <1>9, <2>0, <2>1
  <2> QED
    BY <1>7, <2>2 DEF by_precedence
<1>11. PICK pl : pl = [d \in 1 .. M + 1 |-> CHOOSE place : Places(place, Picked(rules, P[d]), rules, P[d], L)]
  OBVIOUS
<1>12. \A d \in 1 .. M + 1 :
         /\ seqs[d] \in Seq(S) /\ Len(seqs[d]) \in Nat
         /\ pl[d] \in [1 .. Len(seqs[d]) -> 1 .. L]
         /\ \A o \in 1 .. Len(seqs[d]) : seqs[d][o] = rules[pl[d][o]] /\ h[pl[d][o]] = d - 1
         /\ \A i \in 1 .. L : h[i] = d - 1 => \E o \in 1 .. Len(seqs[d]) : pl[d][o] = i
         /\ \A o, p \in 1 .. Len(seqs[d]) : o < p => pl[d][o] < pl[d][p]
  <2> SUFFICES ASSUME NEW d \in 1 .. M + 1
               PROVE  /\ seqs[d] \in Seq(S) /\ Len(seqs[d]) \in Nat
                      /\ pl[d] \in [1 .. Len(seqs[d]) -> 1 .. L]
                      /\ \A o \in 1 .. Len(seqs[d]) : seqs[d][o] = rules[pl[d][o]] /\ h[pl[d][o]] = d - 1
                      /\ \A i \in 1 .. L : h[i] = d - 1 => \E o \in 1 .. Len(seqs[d]) : pl[d][o] = i
                      /\ \A o, p \in 1 .. Len(seqs[d]) : o < p => pl[d][o] < pl[d][p]
    OBVIOUS
  <2>1. PICK Q : Q = P[d] /\ Q = {i \in 1 .. L : h[i] = d - 1}
    BY <1>8
  <2>2. PICK u : u = Picked(rules, Q) /\ u \in Seq(S)
    BY PickedPlaces
  <2>3. \E place : Places(place, u, rules, Q, L)
    BY <1>1, <2>2, PickedPlaces
  <2>4. PICK g : g = CHOOSE place : Places(place, u, rules, Q, L)
    OBVIOUS
  <2>5. Places(g, u, rules, Q, L)
    BY <2>3, <2>4
  <2>6. seqs[d] = u /\ pl[d] = g
    BY <1>9, <1>11, <2>1, <2>2, <2>4
  <2>7. /\ g \in [1 .. Len(u) -> Q \cap (1 .. L)]
        /\ \A o \in 1 .. Len(u) : u[o] = rules[g[o]]
        /\ \A i \in Q \cap (1 .. L) : \E o \in 1 .. Len(u) : g[o] = i
        /\ \A o, p \in 1 .. Len(u) : o < p => g[o] < g[p]
    BY ONLY <2>5 DEF Places
  <2>8. PICK m \in Nat : m = Len(u)
    BY <2>2
  <2>9. /\ g \in [1 .. m -> 1 .. L] /\ \A o \in 1 .. m : g[o] \in 1 .. L /\ h[g[o]] = d - 1
    BY <2>1, <2>7, <2>8
  <2>10. \A i \in 1 .. L : h[i] = d - 1 => \E o \in 1 .. m : g[o] = i
    BY <2>1, <2>7, <2>8
  <2> QED
    BY ONLY <2>2, <2>6, <2>7, <2>8, <2>9, <2>10
<1>13. seqs \in Seq(Seq(S)) /\ Len(seqs) = M + 1
  BY <1>9, <1>12
<1>14. sorted \in Seq(S) /\ \E at, off : FlatAt(at, off, sorted, seqs, M + 1)
  BY <1>10, <1>13, FlatPlaces
<1>15. PICK N \in Nat : N = Len(sorted)
  BY <1>14
<1>16. PICK at, off : FlatAt(at, off, sorted, seqs, M + 1)
  BY <1>14
<1>17. /\ at \in [1 .. N -> 1 .. M + 1] /\ off \in [1 .. N -> Nat]
       /\ \A w \in 1 .. N : off[w] \in 1 .. Len(seqs[at[w]]) /\ sorted[w] = seqs[at[w]][off[w]]
       /\ \A n \in 1 .. M + 1 : \A o \in 1 .. Len(seqs[n]) : \E w \in 1 .. N : at[w] = n /\ off[w] = o
       /\ \A w, v \in 1 .. N : w < v => at[w] < at[v] \/ (at[w] = at[v] /\ off[w] < off[v])
  BY ONLY <1>15, <1>16 DEF FlatAt
<1>18. PICK place : place = [w \in 1 .. N |-> pl[at[w]][off[w]]]
  OBVIOUS
<1>19. \A w \in 1 .. N : /\ at[w] \in 1 .. M + 1 /\ off[w] \in 1 .. Len(seqs[at[w]])
                         /\ place[w] = pl[at[w]][off[w]] /\ place[w] \in 1 .. L
                         /\ sorted[w] = rules[place[w]] /\ h[place[w]] = at[w] - 1
                         /\ Depth(sorted[w].directory) = at[w] - 1
  <2> SUFFICES ASSUME NEW w \in 1 .. N
               PROVE  /\ at[w] \in 1 .. M + 1 /\ off[w] \in 1 .. Len(seqs[at[w]])
                      /\ place[w] = pl[at[w]][off[w]] /\ place[w] \in 1 .. L
                      /\ sorted[w] = rules[place[w]] /\ h[place[w]] = at[w] - 1
                      /\ Depth(sorted[w].directory) = at[w] - 1
    OBVIOUS
  <2>1. PICK d \in 1 .. M + 1 : d = at[w]
    BY <1>17
  <2>2. PICK o \in 1 .. Len(seqs[d]) : o = off[w] /\ sorted[w] = seqs[d][o]
    BY <1>17, <2>1
  <2>3. place[w] = pl[d][o]
    BY <1>18, <2>1, <2>2
  <2>4. pl[d][o] \in 1 .. L /\ seqs[d][o] = rules[pl[d][o]] /\ h[pl[d][o]] = d - 1
    BY <1>12
  <2>5. Depth(rules[pl[d][o]].directory) = d - 1
    BY <1>3, <2>4
  <2> QED
    BY <2>1, <2>2, <2>3, <2>4, <2>5
<1>20. place \in [1 .. N -> 1 .. L]
  BY <1>18, <1>19
<1>21. ASSUME NEW i \in 1 .. L PROVE \E w \in 1 .. N : place[w] = i
  <2>1. PICK d \in 1 .. M + 1 : h[i] = d - 1
    <3>1. PICK c \in 0 .. M : c = h[i]
      BY <1>6
    <3>2. c + 1 \in 1 .. M + 1 /\ (c + 1) - 1 = c
      BY ONLY <1>6
    <3> QED
      BY <3>1, <3>2
  <2>2. PICK o \in 1 .. Len(seqs[d]) : pl[d][o] = i
    BY <1>12, <2>1
  <2>3. PICK w \in 1 .. N : at[w] = d /\ off[w] = o
    BY <1>17
  <2> QED
    BY <1>19, <2>2, <2>3
<1>22. ASSUME NEW w \in 1 .. N, NEW v \in 1 .. N, w < v
       PROVE  \/ Depth(sorted[w].directory) < Depth(sorted[v].directory)
              \/ Depth(sorted[w].directory) = Depth(sorted[v].directory) /\ place[w] < place[v]
  <2>1. PICK d \in 1 .. M + 1, e \in 1 .. M + 1 : d = at[w] /\ e = at[v]
    BY <1>19
  <2>2. Depth(sorted[w].directory) = d - 1 /\ Depth(sorted[v].directory) = e - 1
    BY <1>19, <2>1
  <2>3. CASE d < e
    BY ONLY <1>6, <2>2, <2>3
  <2>4. CASE d = e /\ off[w] < off[v]
    <3>1. PICK o \in 1 .. Len(seqs[d]), p \in 1 .. Len(seqs[d]) : o = off[w] /\ p = off[v]
      BY <1>19, <2>1, <2>4
    <3>2. pl[d][o] < pl[d][p]
      BY <1>12, <2>4, <3>1
    <3> QED
      BY <1>19, <2>1, <2>2, <2>4, <3>1, <3>2
  <2> QED
    BY <1>17, <1>22, <2>1, <2>3, <2>4
<1>23. ByDepth(place, sorted, rules)
  BY ONLY <1>1, <1>15, <1>19, <1>20, <1>21, <1>22 DEF ByDepth
<1> QED
  BY <1>14, <1>23

(* What stands at w was said by the lines, and whatever they say later     *)
(* stands later.                                                           *)
Follows(rules, w, dir, lines) ==
  \E n \in Nat : \E t \in Nat :
    /\ Says(dir, lines, rules[w], n, t)
    /\ \A m, q \in Nat : \A r :
         Says(dir, lines, r, m, q) /\ (n < m \/ (n = m /\ t < q)) =>
           \E v \in 1 .. Len(rules) : w < v /\ rules[v] = r

(* A rule is of the directory whose file says it.                          *)
LEMMA SaidOf ==
  ASSUME NEW dir, NEW lines, NEW r, NEW n, NEW t, Says(dir, lines, r, n, t)
  PROVE  r.directory = dir
<1>1. PICK a : r = RuleOf(dir, lines, n, t, a)
  BY DEF Says, SaidBy
<1> QED
  BY <1>1 DEF RuleOf

(* So it is in the rules of one file,                                      *)
LEMMA ParsedFollows ==
  ASSUME NEW S, NEW rules \in Seq(S), NEW dir, NEW lines, NEW ln, NEW tk, Parsed(ln, tk, rules, dir, lines),
         NEW w \in 1 .. Len(rules)
  PROVE  Follows(rules, w, dir, lines)
<1>1. PICK L \in Nat : L = Len(rules)
  OBVIOUS
<1>2. /\ ln \in [1 .. L -> Nat] /\ tk \in [1 .. L -> Nat]
      /\ \A k \in 1 .. L : Says(dir, lines, rules[k], ln[k], tk[k])
      /\ \A n, t : \A r : Says(dir, lines, r, n, t) => \E k \in 1 .. L : rules[k] = r /\ ln[k] = n /\ tk[k] = t
      /\ \A k, v \in 1 .. L : k < v => ln[k] < ln[v] \/ (ln[k] = ln[v] /\ tk[k] < tk[v])
  BY ONLY <1>1, Parsed(ln, tk, rules, dir, lines) DEF Parsed
<1>3. PICK n \in Nat, t \in Nat : n = ln[w] /\ t = tk[w]
  BY <1>1, <1>2
<1>4. w \in 1 .. L /\ Says(dir, lines, rules[w], n, t)
  BY <1>1, <1>2, <1>3
<1>5. ASSUME NEW m \in Nat, NEW q \in Nat, NEW r, Says(dir, lines, r, m, q), n < m \/ (n = m /\ t < q)
      PROVE  \E v \in 1 .. L : w < v /\ rules[v] = r
  <2>1. PICK v \in 1 .. L : rules[v] = r /\ ln[v] = m /\ tk[v] = q
    BY <1>2, <1>5
  <2>2. v # w
    BY <1>3, <1>5, <2>1
  <2>3. ~ (v < w)
    <3> SUFFICES ASSUME v < w PROVE FALSE
      OBVIOUS
    <3>1. ln[v] < ln[w] \/ (ln[v] = ln[w] /\ tk[v] < tk[w])
      BY <1>2, <1>4
    <3>2. m < n \/ (m = n /\ q < t)
      BY <1>3, <2>1, <3>1
    <3> QED
      BY ONLY <1>5, <3>2
  <2>4. w < v
    BY ONLY <1>1, <1>4, <2>2, <2>3
  <2> QED
    BY <2>1, <2>4
<1> QED
  BY ONLY <1>1, <1>4, <1>5 DEF Follows

(* in those of one file after another,                                     *)
LEMMA JoinedFollows ==
  ASSUME NEW S, NEW a \in Seq(S), NEW b \in Seq(S), NEW u, Joined(u, a, b, S), NEW dir, NEW lines
  PROVE  /\ \A w \in 1 .. Len(a) : Follows(a, w, dir, lines) => Follows(u, w, dir, lines)
         /\ \A w \in 1 .. Len(b) : Follows(b, w, dir, lines) => Follows(u, Len(a) + w, dir, lines)
<1>1. PICK K \in Nat, L \in Nat : K = Len(a) /\ L = Len(b)
  OBVIOUS
<1>2. Len(u) = K + L /\ (\A i \in 1 .. K : u[i] = a[i]) /\ \A i \in 1 .. L : u[K + i] = b[i]
  BY ONLY <1>1, Joined(u, a, b, S) DEF Joined
<1>3. ASSUME NEW w \in 1 .. K, Follows(a, w, dir, lines) PROVE Follows(u, w, dir, lines)
  <2>1. PICK n \in Nat, t \in Nat :
          /\ Says(dir, lines, a[w], n, t)
          /\ \A m, q \in Nat : \A r :
               Says(dir, lines, r, m, q) /\ (n < m \/ (n = m /\ t < q)) =>
                 \E v \in 1 .. K : w < v /\ a[v] = r
    BY ONLY <1>1, <1>3 DEF Follows
  <2>2. Says(dir, lines, u[w], n, t)
    BY <1>2, <2>1
  <2>3. ASSUME NEW m \in Nat, NEW q \in Nat, NEW r, Says(dir, lines, r, m, q), n < m \/ (n = m /\ t < q)
        PROVE  \E v \in 1 .. K + L : w < v /\ u[v] = r
    <3>1. PICK v \in 1 .. K : w < v /\ a[v] = r
      BY <2>1, <2>3
    <3>2. v \in 1 .. K + L
      BY ONLY <1>1
    <3> QED
      BY <1>2, <3>1, <3>2
  <2> QED
    BY ONLY <1>2, <2>2, <2>3 DEF Follows
<1>4. ASSUME NEW w \in 1 .. L, Follows(b, w, dir, lines) PROVE Follows(u, K + w, dir, lines)
  <2>1. PICK n \in Nat, t \in Nat :
          /\ Says(dir, lines, b[w], n, t)
          /\ \A m, q \in Nat : \A r :
               Says(dir, lines, r, m, q) /\ (n < m \/ (n = m /\ t < q)) =>
                 \E v \in 1 .. L : w < v /\ b[v] = r
    BY ONLY <1>1, <1>4 DEF Follows
  <2> DEFINE z == K + w
  <2>2. Says(dir, lines, u[z], n, t)
    BY <1>2, <2>1
  <2>3. ASSUME NEW m \in Nat, NEW q \in Nat, NEW r, Says(dir, lines, r, m, q), n < m \/ (n = m /\ t < q)
        PROVE  \E v \in 1 .. K + L : z < v /\ u[v] = r
    <3>1. PICK v \in 1 .. L : w < v /\ b[v] = r
      BY <2>1, <2>3
    <3>2. K + v \in 1 .. K + L /\ K + w < K + v
      BY ONLY <1>1, <3>1
    <3> QED
      BY <1>2, <3>1, <3>2
  <2> HIDE DEF z
  <2>4. Len(u) = K + L
    BY <1>2
  <2>5. Follows(u, z, dir, lines)
    BY ONLY <2>2, <2>3, <2>4 DEF Follows
  <2> QED
    BY <2>5 DEF z
<1> QED
  BY <1>1, <1>3, <1>4

(* and by precedence.                                                      *)
LEMMA SortedFollows ==
  ASSUME NEW S, NEW rules \in Seq(S), NEW sorted \in Seq(S), NEW place, ByDepth(place, sorted, rules),
         NEW w \in 1 .. Len(sorted), NEW dir, NEW lines, Follows(rules, place[w], dir, lines), Depth(dir) \in Nat
  PROVE  Follows(sorted, w, dir, lines)
<1>1. PICK K \in Nat, L \in Nat : K = Len(rules) /\ L = Len(sorted)
  OBVIOUS
<1>2. /\ place \in [1 .. L -> 1 .. K]
      /\ \A k \in 1 .. L : sorted[k] = rules[place[k]]
      /\ \A i \in 1 .. K : \E k \in 1 .. L : place[k] = i
      /\ \A k, v \in 1 .. L : k < v =>
           \/ Depth(sorted[k].directory) < Depth(sorted[v].directory)
           \/ Depth(sorted[k].directory) = Depth(sorted[v].directory) /\ place[k] < place[v]
  BY ONLY <1>1, ByDepth(place, sorted, rules) DEF ByDepth
<1>3. PICK x \in 1 .. K : x = place[w]
  BY <1>1, <1>2
<1>4. PICK n \in Nat, t \in Nat :
        /\ Says(dir, lines, rules[x], n, t)
        /\ \A m, q \in Nat : \A r :
             Says(dir, lines, r, m, q) /\ (n < m \/ (n = m /\ t < q)) =>
               \E v \in 1 .. K : x < v /\ rules[v] = r
  BY <1>1, <1>3 DEF Follows
<1>5. w \in 1 .. L /\ sorted[w] = rules[x] /\ rules[x].directory = dir
  BY <1>1, <1>2, <1>3, <1>4, SaidOf
<1>6. ASSUME NEW m \in Nat, NEW q \in Nat, NEW r, Says(dir, lines, r, m, q), n < m \/ (n = m /\ t < q)
      PROVE  \E v \in 1 .. L : w < v /\ sorted[v] = r
  <2>1. PICK y \in 1 .. K : x < y /\ rules[y] = r
    BY <1>4, <1>6
  <2>2. PICK v \in 1 .. L : place[v] = y
    BY <1>2
  <2>3. sorted[v] = r /\ r.directory = dir
    BY <1>2, <1>6, <2>1, <2>2, SaidOf
  <2>4. v # w
    BY <1>3, <2>1, <2>2
  <2>5. ~ (v < w)
    <3> SUFFICES ASSUME v < w PROVE FALSE
      OBVIOUS
    <3>1. \/ Depth(sorted[v].directory) < Depth(sorted[w].directory)
          \/ Depth(sorted[v].directory) = Depth(sorted[w].directory) /\ place[v] < place[w]
      BY <1>2, <1>5
    <3>2. Depth(dir) < Depth(dir) \/ y < x
      BY <1>3, <1>5, <2>2, <2>3, <3>1
    <3>3. PICK d \in Nat : d = Depth(dir)
      OBVIOUS
    <3>4. d < d \/ y < x
      BY <3>2, <3>3
    <3> QED
      BY ONLY <1>1, <2>1, <3>4
  <2>6. w < v
    BY ONLY <1>1, <1>5, <2>4, <2>5
  <2> QED
    BY <2>3, <2>6
<1> QED
  BY ONLY <1>1, <1>4, <1>5, <1>6 DEF Follows

-----------------------------------------------------------------------------
(* The walk that reads them.                                               *)

(* The directories there may be; a .gitattributes in one that stood        *)
(* throughout and is read; its lines.                                      *)
WalkDirs == {<<>>} \cup PathSet

Pieces == UNION {Range(p) : p \in PathSet}

Watched(d) == GitAttributes(d) \in PathSet /\ Stood(GitAttributes(d)) /\ Reads(GitAttributes(d))

AttributeLines(d) == tree[GitAttributes(d)].lines

Included(rules, d) ==
  \A n, t \in Nat : \A r : Says(d, AttributeLines(d), r, n, t) => \E w \in 1 .. Len(rules) : rules[w] = r

Deep(rules) ==
  \A w, v \in 1 .. Len(rules) : w < v => Depth(rules[w].directory) <= Depth(rules[v].directory)

AsItStands(rules, w) ==
  LET d == rules[w].directory
  IN  /\ d \in WalkDirs
      /\ Untouched(GitAttributes(d)) =>
           Reads(GitAttributes(d)) /\ Follows(rules, w, d, AttributeLines(d))

(***************************************************************************)
(* The inductive invariant of the walk for .gitattributes: each rule that  *)
(* was found is still said where it was read, with those that follow it;   *)
(* and as long as the walk is complete it will come to each file that      *)
(* stands, or has it.                                                      *)
(***************************************************************************)
ContentShape ==
  /\ DOMAIN tree = PathSet
  /\ \A p \in PathSet : tree[p] \in GateEntries[p]
  /\ content = [pc |-> content.pc, pending |-> content.pending, visited |-> content.visited,
                files |-> content.files, attributes |-> content.attributes,
                submodules |-> content.submodules, incomplete |-> content.incomplete]
  /\ content.pending \subseteq WalkDirs /\ content.files \subseteq WalkDirs
  /\ content.attributes \in Seq(Range(content.attributes))

RulesStand == \A w \in 1 .. Len(content.attributes) : AsItStands(content.attributes, w)

Coming(d) ==
  \/ d \in content.files \/ Included(content.attributes, d)
  \/ \E e \in {GitAttributes(d)} \cup Parents(GitAttributes(d)) : directory(e) \in content.pending

ContentCovers ==
  content.pc = "walk" /\ ~ content.incomplete => \A d \in WalkDirs : Watched(d) => Coming(d)

ContentDone ==
  content.pc = "built" =>
    /\ Deep(content.attributes)
    /\ ~ content.incomplete => \A d \in WalkDirs : Watched(d) => Included(content.attributes, d)

ContentInv == ContentShape /\ RulesStand /\ ContentCovers /\ ContentDone

(* Directories are texts, and have a depth.                                *)
LEMMA WalkDirsAre ==
  ASSUME NEW d \in WalkDirs
  PROVE  d \in Seq(Pieces) /\ Depth(d) \in Nat
<1>1. d \in Seq(Pieces)
  <2>1. CASE d = <<>>
    BY <2>1
  <2>2. CASE d \in PathSet
    <3>1. d \in Seq(Range(d)) /\ Range(d) \subseteq Pieces
      BY <2>2, TreeAssumption DEF Pieces
    <3> QED
      BY <3>1
  <2> QED
    BY <2>1, <2>2 DEF WalkDirs
<1>2. CASE d = <<>>
  <2>1. names(d) = <<>> /\ Len(<<>>) = 0
    BY <1>2 DEF names
  <2> QED
    BY <1>1, <2>1 DEF Depth
<1>3. CASE d # <<>>
  <2>1. PICK f : Splits(f, d, "/", Pieces)
    BY <1>1, SplitRecursion
  <2>2. PICK N \in Nat : N = Len(d)
    BY <1>1
  <2>3. f \in [0 .. N -> Seq(Seq(Pieces)) \ {<<>>}] /\ Split(d, "/") = f[N]
    BY ONLY <2>1, <2>2 DEF Splits
  <2>4. N \in 0 .. N
    BY ONLY <2>2
  <2>5. PICK s \in Seq(Seq(Pieces)) : s = names(d)
    BY <1>3, <2>3, <2>4 DEF names
  <2>6. Len(s) \in Nat
    OBVIOUS
  <2> QED
    BY <1>1, <2>5, <2>6 DEF Depth
<1> QED
  BY <1>2, <1>3

(* The lines of a .gitattributes are a sequence, and so are their tokens.  *)
LEMMA LinesAre ==
  ASSUME \A p \in PathSet : tree[p] \in GateEntries[p], NEW d \in WalkDirs, GitAttributes(d) \in PathSet
  PROVE  Lines(AttributeLines(d))
<1>1. PICK p \in PathSet : p = GitAttributes(d)
  OBVIOUS
<1>2. p # <<>> /\ p[Len(p)] = ".gitattributes"
  BY <1>1, AboveAttributes, WalkDirsAre
<1>3. PICK thing \in GateEntries[p] : thing = tree[p]
  OBVIOUS
<1>4. /\ thing.lines \in Seq(Range(thing.lines))
      /\ \A line \in Range(thing.lines) : line.tokens \in Seq(Range(line.tokens))
  BY <1>2, AttributesAssumption
<1>5. PICK lines : lines = AttributeLines(d) /\ lines = thing.lines
  BY <1>1, <1>3 DEF AttributeLines
<1>6. \A n \in 1 .. Len(lines) : lines[n] \in Range(lines)
  BY <1>4, <1>5 DEF Range
<1> QED
  BY <1>4, <1>5, <1>6 DEF Lines

(* What the tree decides stays while the tree does.                        *)
LEMMA StillWatched ==
  ASSUME UNCHANGED <<tree, aux_moved>>
  PROVE  \A d : /\ Watched(d)' = Watched(d) /\ AttributeLines(d)' = AttributeLines(d)
                /\ \A rules : Included(rules, d)' = Included(rules, d)
                /\ \A rules : AsItStands(rules, d)' = AsItStands(rules, d)
<1>1. \A f : Stood(f)' = Stood(f) /\ Untouched(f)' = Untouched(f) /\ Reads(f)' = Reads(f)
  BY DEF Stood, Untouched, Standing, Elsewhere, Reads, Present
<1>2. \A d : Watched(d)' = Watched(d)
  BY <1>1 DEF Watched
<1>3. \A d : AttributeLines(d)' = AttributeLines(d)
  BY DEF AttributeLines
<1>4. \A d, rules : Included(rules, d)' = Included(rules, d)
  BY <1>3 DEF Included
<1>5. \A w, rules : AsItStands(rules, w)' = AsItStands(rules, w)
  BY <1>1, <1>3 DEF AsItStands
<1> QED
  BY <1>2, <1>3, <1>4, <1>5

(* The same of the rules there are then.                                   *)
LEMMA RulesThen ==
  ASSUME UNCHANGED <<tree, aux_moved>>, NEW u, u = content'.attributes
  PROVE  /\ \A d : Included(content.attributes, d)' <=> Included(u, d)
         /\ \A w : AsItStands(content.attributes, w)' <=> AsItStands(u, w)
         /\ Deep(content.attributes)' <=> Deep(u)
<1>1. \A d : AttributeLines(d)' = AttributeLines(d)
  BY StillWatched
<1>2. \A f : Untouched(f)' = Untouched(f) /\ Reads(f)' = Reads(f)
  BY DEF Untouched, Standing, Reads, Present
<1>3. \A d : Included(content.attributes, d)' <=> Included(u, d)
  BY <1>1 DEF Included
<1>4. \A w : AsItStands(content.attributes, w)' <=> AsItStands(u, w)
  BY <1>1, <1>2 DEF AsItStands
<1>5. Deep(content.attributes)' <=> Deep(u)
  BY DEF Deep
<1> QED
  BY <1>3, <1>4, <1>5

(* A step of the walk that found no rule.                                  *)
LEMMA NoRuleFound ==
  ASSUME ContentInv, UNCHANGED <<tree, aux_moved>>, content'.attributes = content.attributes
  PROVE  /\ RulesStand'
         /\ \A d : Included(content.attributes, d)' <=> Included(content.attributes, d)
<1>1. PICK u : u = content'.attributes /\ u = content.attributes
  OBVIOUS
<1>2. \A w : AsItStands(content.attributes, w)' <=> AsItStands(content.attributes, w)
  BY <1>1, RulesThen
<1>3. \A d : Included(content.attributes, d)' <=> Included(content.attributes, d)
  BY <1>1, RulesThen
<1> QED
  BY <1>2, <1>3 DEF ContentInv, RulesStand

(* A listed directory: its .gitattributes is among the files, or was none  *)
(* that stood.                                                             *)
LEMMA DescendKeeps ==
  ASSUME ContentInv, NEW dir \in content.pending, descend(dir)
  PROVE  ContentInv'
<1> DEFINE found == Range(Listed(dir))
           inside == {p \in found : tree[p].type = "dir" /\ ~ stops_the_walk(classify(tree[p].marks))}
           visited == content.visited + Cardinality(found)
           files == {d \in {dir} : GitAttributes(d) \in found /\ tree[GitAttributes(d)].type # "dir"}
<1>1. /\ content.pc = "walk" /\ ~ content.incomplete /\ UNCHANGED <<tree, aux_moved>> /\ dir \in WalkDirs
      /\ content' = IF visited > EntryLimit
           THEN [content EXCEPT !.incomplete = TRUE, !.visited = EntryLimit + 1]
           ELSE [content EXCEPT !.pending = (@ \ {dir}) \cup inside, !.visited = visited,
                                !.files = @ \cup files]
  BY DEF descend, treeVars, ContentInv, ContentShape
<1>2. found \subseteq PathSet
  <2>1. PICK s \in Seq(PathSet) : s = Listed(dir)
    BY ListedHas
  <2> QED
    BY <2>1 DEF Range
<1>3. \A p \in PathSet : directory(p) = dir /\ tree[p].type # "none" => p \in found
  BY ListedHas
<1>4. inside \subseteq WalkDirs /\ files \subseteq WalkDirs
  BY <1>1, <1>2 DEF WalkDirs
<1>5. \A p \in found : tree[p].type = "dir" /\ ~ stops_the_walk(classify(tree[p].marks)) => p \in inside
  OBVIOUS
<1>6. GitAttributes(dir) \in found /\ tree[GitAttributes(dir)].type # "dir" => dir \in files
  OBVIOUS
<1> HIDE DEF found, inside, visited, files
<1>7. content'.pc = "walk" /\ content'.attributes = content.attributes
  BY <1>1 DEF ContentInv, ContentShape
<1>8. ContentShape'
  <2>1. content' = [pc |-> content'.pc, pending |-> content'.pending, visited |-> content'.visited,
                    files |-> content'.files, attributes |-> content'.attributes,
                    submodules |-> content'.submodules, incomplete |-> content'.incomplete]
    BY <1>1 DEF ContentInv, ContentShape
  <2>2. content'.pending \subseteq WalkDirs /\ content'.files \subseteq WalkDirs
    BY <1>1, <1>4 DEF ContentInv, ContentShape
  <2> QED
    BY <1>1, <1>7, <2>1, <2>2 DEF ContentInv, ContentShape
<1>9. RulesStand' /\ \A d : Included(content.attributes, d)' <=> Included(content.attributes, d)
  BY <1>1, <1>7, NoRuleFound
<1>10. ContentDone'
  BY <1>7 DEF ContentDone
<1>11. CASE visited > EntryLimit
  <2>1. content'.incomplete
    BY <1>1, <1>11 DEF ContentInv, ContentShape
  <2> QED
    BY <1>8, <1>9, <1>10, <2>1 DEF ContentInv, ContentCovers
<1>12. CASE ~ (visited > EntryLimit)
  <2>1. /\ content'.pending = (content.pending \ {dir}) \cup inside
        /\ content'.files = content.files \cup files
    BY <1>1, <1>12 DEF ContentInv, ContentShape
  <2>2. ASSUME NEW d \in WalkDirs, Watched(d)
        PROVE  \/ d \in content'.files \/ Included(content.attributes, d)
               \/ \E e \in {GitAttributes(d)} \cup Parents(GitAttributes(d)) : directory(e) \in content'.pending
    <3>1. Coming(d)
      BY <1>1, <2>2 DEF ContentInv, ContentCovers
    <3>2. CASE d \in content.files \/ Included(content.attributes, d)
      BY <2>1, <3>2
    <3>3. ASSUME NEW e \in {GitAttributes(d)} \cup Parents(GitAttributes(d)), directory(e) \in content.pending
          PROVE  \/ d \in content'.files
                 \/ \E c \in {GitAttributes(d)} \cup Parents(GitAttributes(d)) : directory(c) \in content'.pending
      <4>1. PICK f \in PathSet : f = GitAttributes(d)
        BY <2>2 DEF Watched
      <4>2. f \in Seq(Range(f)) /\ Parents(f) \subseteq PathSet
        BY TreeAssumption
      <4>3. Stood(f) /\ Reads(f)
        BY <2>2, <4>1 DEF Watched
      <4>4. CASE directory(e) # dir
        BY <2>1, <3>3, <4>4
      <4>5. CASE directory(e) = dir /\ e = f
        <5>1. d = dir
          BY <4>1, <4>5, AboveAttributes, WalkDirsAre
        <5>2. tree[f].type \in {"file", "link"}
          BY <4>3 DEF Reads
        <5>3. f \in found
          BY <1>3, <4>5, <5>2
        <5> QED
          BY <1>6, <2>1, <4>1, <5>1, <5>2, <5>3
      <4>6. CASE directory(e) = dir /\ e # f
        <5>1. e \in Parents(f) /\ e \in PathSet
          BY <3>3, <4>1, <4>2, <4>6
        <5>2. tree[e].type = "dir" /\ ~ stops_the_walk(classify(tree[e].marks))
          BY <4>3, <5>1 DEF Stood, Standing, Elsewhere
        <5>3. e \in found
          BY <1>3, <4>6, <5>1, <5>2
        <5>4. e \in inside
          BY <1>5, <5>2, <5>3
        <5>5. \E c \in {f} \cup Parents(f) : directory(c) = e
          BY <4>2, <5>1, LevelBelow
        <5> QED
          BY <2>1, <4>1, <5>4, <5>5
      <4> QED
        BY <3>3, <4>1, <4>4, <4>5, <4>6
    <3> QED
      BY <3>1, <3>2, <3>3 DEF Coming
  <2>3. ContentCovers'
    BY <1>1, <1>9, <2>2, StillWatched DEF ContentCovers, Coming
  <2> QED
    BY <1>8, <1>9, <1>10, <2>3 DEF ContentInv
<1> QED
  BY <1>11, <1>12

(* A directory that cannot be listed leaves the walk incomplete.           *)
LEMMA DescendFailsKeeps ==
  ASSUME ContentInv, NEW dir, descend_fails(dir)
  PROVE  ContentInv'
<1>1. /\ content.pc = "walk" /\ UNCHANGED <<tree, aux_moved>>
      /\ content' = [content EXCEPT !.incomplete = TRUE]
  BY DEF descend_fails, treeVars
<1>2. /\ content'.pc = "walk" /\ content'.attributes = content.attributes /\ content'.incomplete
      /\ content'.pending = content.pending /\ content'.files = content.files
  BY <1>1 DEF ContentInv, ContentShape
<1>3. ContentShape'
  <2>1. content' = [pc |-> content'.pc, pending |-> content'.pending, visited |-> content'.visited,
                    files |-> content'.files, attributes |-> content'.attributes,
                    submodules |-> content'.submodules, incomplete |-> content'.incomplete]
    BY <1>1 DEF ContentInv, ContentShape
  <2> QED
    BY <1>1, <1>2, <2>1 DEF ContentInv, ContentShape
<1>4. RulesStand'
  BY <1>1, <1>2, NoRuleFound
<1> QED
  BY <1>2, <1>3, <1>4 DEF ContentInv, ContentCovers, ContentDone

(* A file that is read adds what its lines say.                            *)
LEMMA ReadKeeps ==
  ASSUME ContentInv, NEW dir \in content.files, read_attributes(dir)
  PROVE  ContentInv'
<1>1. /\ content.pc = "walk" /\ UNCHANGED <<tree, aux_moved>> /\ dir \in WalkDirs
      /\ content' = IF Reads(GitAttributes(dir))
           THEN [content EXCEPT !.files = @ \ {dir},
                                !.attributes = @ \o parse_attributes(dir, tree[GitAttributes(dir)].lines)]
           ELSE [content EXCEPT !.files = @ \ {dir}, !.incomplete = TRUE]
  BY DEF read_attributes, treeVars, ContentInv, ContentShape
<1>2. /\ content'.pc = "walk" /\ content'.pending = content.pending
      /\ content'.files = content.files \ {dir}
      /\ content' = [pc |-> content'.pc, pending |-> content'.pending, visited |-> content'.visited,
                     files |-> content'.files, attributes |-> content'.attributes,
                     submodules |-> content'.submodules, incomplete |-> content'.incomplete]
  BY <1>1 DEF ContentInv, ContentShape
<1>3. ContentDone'
  BY <1>2 DEF ContentDone
<1>4. /\ DOMAIN tree' = PathSet /\ \A p \in PathSet : tree'[p] \in GateEntries[p]
      /\ content'.pending \subseteq WalkDirs /\ content'.files \subseteq WalkDirs
  BY <1>1, <1>2 DEF ContentInv, ContentShape
<1>5. CASE ~ Reads(GitAttributes(dir))
  <2>1. content'.attributes = content.attributes /\ content'.incomplete
    BY <1>1, <1>5 DEF ContentInv, ContentShape
  <2>2. RulesStand'
    BY <1>1, <2>1, NoRuleFound
  <2>3. ContentShape'
    BY <1>2, <1>4, <2>1 DEF ContentInv, ContentShape
  <2> QED
    BY <1>3, <2>1, <2>2, <2>3 DEF ContentInv, ContentCovers
<1>6. CASE Reads(GitAttributes(dir))
  <2>1. PICK a, lines, b : /\ a = content.attributes /\ lines = AttributeLines(dir)
                           /\ b = parse_attributes(dir, lines)
    OBVIOUS
  <2>2. PICK u : u = a \o b
    OBVIOUS
  <2>3. content'.attributes = u /\ content'.incomplete = content.incomplete
    BY <1>1, <1>6, <2>1, <2>2 DEF AttributeLines, ContentInv, ContentShape
  <2>4. GitAttributes(dir) \in PathSet
    BY <1>6 DEF Reads, Present
  <2>5. Lines(lines)
    BY <1>1, <2>1, <2>4, LinesAre DEF ContentInv, ContentShape
  <2>6. PICK S, ln, tk : b \in Seq(S) /\ Parsed(ln, tk, b, dir, lines)
    BY <2>1, <2>5, ParsedRules
  <2>7. PICK T : T = S \cup Range(a)
    OBVIOUS
  <2>8. a \in Seq(T) /\ b \in Seq(T)
    <3>1. a \in Seq(Range(a))
      BY <2>1 DEF ContentInv, ContentShape
    <3> QED
      BY <2>6, <2>7, <3>1
  <2>9. Joined(u, a, b, T) /\ u \in Seq(T)
    BY <2>2, <2>8, ConcatJoins DEF Joined
  <2>10. PICK K \in Nat, L \in Nat : K = Len(a) /\ L = Len(b)
    BY <2>8
  <2>11. Len(u) = K + L /\ (\A i \in 1 .. K : u[i] = a[i]) /\ \A i \in 1 .. L : u[K + i] = b[i]
    BY <2>9, <2>10 DEF Joined
  <2>12. ContentShape'
    <3>1. u \in Seq(Range(u))
      BY <2>9 DEF Range
    <3> QED
      BY <1>2, <1>4, <2>3, <3>1 DEF ContentShape
  <2>13. ASSUME NEW w \in 1 .. K PROVE AsItStands(u, w)
    <3>1. AsItStands(a, w) /\ u[w] = a[w]
      BY <2>1, <2>10, <2>11 DEF ContentInv, RulesStand
    <3>2. \A d : Follows(a, w, d, AttributeLines(d)) => Follows(u, w, d, AttributeLines(d))
      BY <2>8, <2>9, <2>10, JoinedFollows
    <3> QED
      BY <3>1, <3>2 DEF AsItStands
  <2>14. ASSUME NEW w \in 1 .. L PROVE AsItStands(u, K + w)
    <3>1. Follows(b, w, dir, lines)
      BY <2>6, <2>10, ParsedFollows
    <3>2. Follows(u, K + w, dir, lines)
      BY <2>8, <2>9, <2>10, <3>1, JoinedFollows
    <3>3. Says(dir, lines, b[w], ln[w], tk[w])
      BY <2>6, <2>10 DEF Parsed
    <3>4. u[K + w].directory = dir
      BY <2>11, <3>3, SaidOf
    <3> QED
      BY <1>1, <1>6, <2>1, <3>2, <3>4 DEF AsItStands
  <2>15. \A w \in 1 .. Len(u) : AsItStands(u, w)
    <3> SUFFICES ASSUME NEW w \in 1 .. K + L PROVE AsItStands(u, w)
      BY <2>11
    <3>1. w \in 1 .. K \/ (w - K \in 1 .. L /\ K + (w - K) = w)
      BY ONLY <2>10
    <3>2. CASE w \in 1 .. K
      BY <2>13, <3>2
    <3>3. CASE w - K \in 1 .. L /\ K + (w - K) = w
      <4>1. AsItStands(u, K + (w - K))
        BY <2>14, <3>3
      <4> QED
        BY <3>3, <4>1
    <3> QED
      BY <3>1, <3>2, <3>3
  <2>16. RulesStand'
    BY <1>1, <2>3, <2>15, RulesThen DEF RulesStand
  <2>17. ASSUME NEW d, Included(a, d) PROVE Included(u, d)
    <3> SUFFICES ASSUME NEW n \in Nat, NEW t \in Nat, NEW r, Says(d, AttributeLines(d), r, n, t)
                 PROVE  \E w \in 1 .. Len(u) : u[w] = r
      BY DEF Included
    <3>1. PICK w \in 1 .. K : a[w] = r
      BY <2>10, <2>17 DEF Included
    <3>2. w \in 1 .. K + L
      BY ONLY <2>10
    <3> QED
      BY <2>11, <3>1, <3>2
  <2>18. Included(u, dir)
    <3> SUFFICES ASSUME NEW n \in Nat, NEW t \in Nat, NEW r, Says(dir, lines, r, n, t)
                 PROVE  \E w \in 1 .. Len(u) : u[w] = r
      BY <2>1 DEF Included
    <3>1. PICK w \in 1 .. L : b[w] = r
      BY <2>6, <2>10 DEF Parsed
    <3>2. K + w \in 1 .. K + L
      BY ONLY <2>10
    <3> QED
      BY <2>11, <3>1, <3>2
  <2>19. ASSUME NEW d, Coming(d)
         PROVE  \/ d \in content'.files \/ Included(u, d)
                \/ \E e \in {GitAttributes(d)} \cup Parents(GitAttributes(d)) : directory(e) \in content'.pending
    BY <1>2, <2>1, <2>17, <2>18, <2>19 DEF Coming
  <2>20. ContentCovers'
    <3> SUFFICES ASSUME ~ content.incomplete, NEW d \in WalkDirs, Watched(d)
                 PROVE  \/ d \in content'.files \/ Included(u, d)
                        \/ \E e \in {GitAttributes(d)} \cup Parents(GitAttributes(d)) :
                             directory(e) \in content'.pending
      BY <1>1, <2>3, RulesThen, StillWatched DEF ContentCovers, Coming
    <3> QED
      BY <1>1, <2>19 DEF ContentInv, ContentCovers
  <2> QED
    BY <1>3, <2>12, <2>16, <2>20 DEF ContentInv
<1> QED
  BY <1>5, <1>6

(* When the walk is over, the rules are put in their order of precedence.  *)
LEMMA SubmodulesKeep ==
  ASSUME ContentInv, read_submodules
  PROVE  ContentInv'
<1>1. /\ content.pc = "walk" /\ UNCHANGED <<tree, aux_moved>>
      /\ content.pending = {} \/ content.incomplete
      /\ content.files = {}
      /\ \/ content' = [content EXCEPT !.pc = "error"]
         \/ \E declared : content' = [content EXCEPT !.pc = "built", !.attributes = by_precedence(@),
                                                     !.submodules = declared]
  BY DEF read_submodules, treeVars
<1>2. /\ content'.pending = content.pending /\ content'.files = content.files
      /\ content'.incomplete = content.incomplete
      /\ content' = [pc |-> content'.pc, pending |-> content'.pending, visited |-> content'.visited,
                     files |-> content'.files, attributes |-> content'.attributes,
                     submodules |-> content'.submodules, incomplete |-> content'.incomplete]
  BY <1>1 DEF ContentInv, ContentShape
<1>3. /\ DOMAIN tree' = PathSet /\ \A p \in PathSet : tree'[p] \in GateEntries[p]
      /\ content'.pending \subseteq WalkDirs /\ content'.files \subseteq WalkDirs
  BY <1>1, <1>2 DEF ContentInv, ContentShape
<1>4. CASE content' = [content EXCEPT !.pc = "error"]
  <2>1. content'.attributes = content.attributes /\ content'.pc = "error"
    BY <1>4 DEF ContentInv, ContentShape
  <2>2. RulesStand'
    BY <1>1, <2>1, NoRuleFound
  <2>3. ContentShape'
    BY <1>2, <1>3, <2>1 DEF ContentInv, ContentShape
  <2> QED
    BY <2>1, <2>2, <2>3 DEF ContentInv, ContentCovers, ContentDone
<1>5. ASSUME NEW declared,
             content' = [content EXCEPT !.pc = "built", !.attributes = by_precedence(@), !.submodules = declared]
      PROVE  ContentInv'
  <2>1. PICK a : a = content.attributes
    OBVIOUS
  <2>2. PICK u : u = by_precedence(a)
    OBVIOUS
  <2>3. content'.attributes = u /\ content'.pc = "built"
    BY <1>5, <2>1, <2>2 DEF ContentInv, ContentShape
  <2>4. PICK S : S = Range(a) /\ a \in Seq(S)
    BY <2>1 DEF ContentInv, ContentShape
  <2>5. PICK K \in Nat : K = Len(a)
    BY <2>4
  <2>6. \A i \in 1 .. K : AsItStands(a, i)
    BY <2>1, <2>5 DEF ContentInv, RulesStand
  <2>7. \A i \in 1 .. K : Depth(a[i].directory) \in Nat
    BY <2>6, WalkDirsAre DEF AsItStands
  <2>8. u \in Seq(S) /\ \E place : ByDepth(place, u, a)
    BY <2>2, <2>4, <2>5, <2>7, SortedByDepth
  <2>9. PICK place : ByDepth(place, u, a)
    BY <2>8
  <2>10. PICK L \in Nat : L = Len(u)
    BY <2>8
  <2>11. /\ place \in [1 .. L -> 1 .. K]
         /\ \A k \in 1 .. L : u[k] = a[place[k]]
         /\ \A i \in 1 .. K : \E k \in 1 .. L : place[k] = i
         /\ \A k, v \in 1 .. L : k < v =>
              \/ Depth(u[k].directory) < Depth(u[v].directory)
              \/ Depth(u[k].directory) = Depth(u[v].directory) /\ place[k] < place[v]
    BY ONLY <2>5, <2>9, <2>10 DEF ByDepth
  <2>12. ContentShape'
    <3>1. u \in Seq(Range(u))
      BY <2>8 DEF Range
    <3> QED
      BY <1>2, <1>3, <2>3, <3>1 DEF ContentShape
  <2>13. ASSUME NEW w \in 1 .. L PROVE AsItStands(u, w)
    <3>1. PICK x \in 1 .. K : x = place[w] /\ u[w] = a[x]
      BY <2>11
    <3>2. PICK d : d = u[w].directory
      OBVIOUS
    <3>3. d \in WalkDirs /\ (Untouched(GitAttributes(d)) =>
                               Reads(GitAttributes(d)) /\ Follows(a, x, d, AttributeLines(d)))
      BY <2>6, <3>1, <3>2 DEF AsItStands
    <3>4. Follows(a, x, d, AttributeLines(d)) => Follows(u, w, d, AttributeLines(d))
      BY <2>4, <2>8, <2>9, <2>10, <3>1, <3>3, WalkDirsAre, SortedFollows
    <3> QED
      BY <3>2, <3>3, <3>4 DEF AsItStands
  <2>14. RulesStand'
    BY <1>1, <2>3, <2>10, <2>13, RulesThen DEF RulesStand
  <2>15. Deep(u)
    <3> SUFFICES ASSUME NEW w \in 1 .. L, NEW v \in 1 .. L, w < v
                 PROVE  Depth(u[w].directory) <= Depth(u[v].directory)
      BY <2>10 DEF Deep
    <3>1. \A k \in 1 .. L : Depth(u[k].directory) \in Nat
      <4> SUFFICES ASSUME NEW k \in 1 .. L PROVE Depth(u[k].directory) \in Nat
        OBVIOUS
      <4>1. PICK i \in 1 .. K : i = place[k] /\ u[k] = a[i]
        BY <2>11
      <4> QED
        BY <2>7, <4>1
    <3>2. PICK m \in Nat, n \in Nat : m = Depth(u[w].directory) /\ n = Depth(u[v].directory)
      BY <3>1
    <3>3. m < n \/ m = n
      BY <2>11, <3>2
    <3>4. m <= n
      BY ONLY <3>3
    <3> QED
      BY <3>2, <3>4
  <2>16. ASSUME NEW d, Included(a, d) PROVE Included(u, d)
    <3> SUFFICES ASSUME NEW n \in Nat, NEW t \in Nat, NEW r, Says(d, AttributeLines(d), r, n, t)
                 PROVE  \E w \in 1 .. Len(u) : u[w] = r
      BY DEF Included
    <3>1. PICK i \in 1 .. K : a[i] = r
      BY <2>5, <2>16 DEF Included
    <3>2. PICK w \in 1 .. L : place[w] = i
      BY <2>11
    <3> QED
      BY <2>10, <2>11, <3>1, <3>2
  <2>17. ASSUME ~ content.incomplete, NEW d \in WalkDirs, Watched(d) PROVE Included(u, d)
    <3>1. Coming(d)
      BY <1>1, <2>17 DEF ContentInv, ContentCovers
    <3>2. Included(a, d)
      BY <1>1, <2>1, <2>17, <3>1 DEF Coming
    <3> QED
      BY <2>16, <3>2
  <2>18. ContentDone'
    BY <1>1, <1>2, <2>3, <2>15, <2>17, RulesThen, StillWatched DEF ContentDone
  <2> QED
    BY <2>3, <2>12, <2>14, <2>18 DEF ContentInv, ContentCovers
<1> QED
  BY <1>1, <1>4, <1>5

(* So every step of the walk keeps the invariant.                          *)
LEMMA BuildKeeps == ContentInv /\ build => ContentInv'
BY DescendKeeps, DescendFailsKeeps, ReadKeeps, SubmodulesKeep DEF build

(* A file that no one touches is read as it was.                           *)
LEMMA MoveKeepsContent ==
  ASSUME ContentInv, NEW moved \in PathSet, Move(moved), UNCHANGED content
  PROVE  ContentInv'
<1>1. PICK thing \in GateEntries[moved] :
        tree' = [tree EXCEPT ![moved] = thing] /\ aux_moved' = aux_moved \cup {moved}
  BY DEF Move
<1>2. DOMAIN tree = PathSet /\ DOMAIN tree' = PathSet
  BY <1>1 DEF ContentInv, ContentShape
<1>3. \A p \in PathSet : tree'[p] \in GateEntries[p]
  BY <1>1, <1>2 DEF ContentInv, ContentShape
<1>4. ASSUME NEW f \in PathSet, Untouched(f)'
      PROVE  Untouched(f) /\ \A p \in {f} \cup Parents(f) : p \in PathSet /\ tree'[p] = tree[p]
  <2>1. Untouched(f) /\ moved \notin {f} \cup Parents(f)
    BY <1>1, <1>4 DEF Untouched
  <2>2. \A p \in {f} \cup Parents(f) : p \in PathSet /\ tree'[p] = tree[p]
    BY <1>1, <1>2, <2>1, TreeAssumption
  <2> QED
    BY <2>1, <2>2
<1>5. ASSUME NEW f \in PathSet, Untouched(f)'
      PROVE  Reads(f)' = Reads(f) /\ (Stood(f)' => Stood(f))
  BY <1>4, <1>5 DEF Reads, Present, Standing, Stood, Elsewhere
<1>6. ASSUME NEW d, GitAttributes(d) \in PathSet, Untouched(GitAttributes(d))'
      PROVE  AttributeLines(d)' = AttributeLines(d)
  BY <1>4, <1>6 DEF AttributeLines
<1>7. ASSUME NEW d, Watched(d)'
      PROVE  Watched(d) /\ \A rules : Included(rules, d)' <=> Included(rules, d)
  <2>1. GitAttributes(d) \in PathSet /\ Untouched(GitAttributes(d))' /\ Stood(GitAttributes(d))'
        /\ Reads(GitAttributes(d))'
    BY <1>7 DEF Watched, Stood
  <2>2. Watched(d)
    BY <1>5, <2>1 DEF Watched
  <2>3. \A rules : Included(rules, d)' <=> Included(rules, d)
    BY <1>6, <2>1 DEF Included
  <2> QED
    BY <2>2, <2>3
<1>8. ASSUME NEW w \in 1 .. Len(content.attributes)
      PROVE  AsItStands(content.attributes, w)'
  <2>1. PICK d : d = content.attributes[w].directory
    OBVIOUS
  <2>2. d \in WalkDirs /\ (Untouched(GitAttributes(d)) =>
          Reads(GitAttributes(d)) /\ Follows(content.attributes, w, d, AttributeLines(d)))
    BY <2>1 DEF ContentInv, RulesStand, AsItStands
  <2>3. ASSUME Untouched(GitAttributes(d))'
        PROVE  Reads(GitAttributes(d))' /\ Follows(content.attributes, w, d, AttributeLines(d))'
    <3>1. Untouched(GitAttributes(d))
      BY <1>1, <2>3 DEF Untouched
    <3>2. GitAttributes(d) \in PathSet
      BY <2>2, <3>1 DEF Reads, Present
    <3>3. Reads(GitAttributes(d))' /\ AttributeLines(d)' = AttributeLines(d)
      BY <1>5, <1>6, <2>2, <2>3, <3>1, <3>2
    <3> QED
      BY <2>2, <3>1, <3>3
  <2> QED
    BY <2>1, <2>2, <2>3 DEF AsItStands
<1>9. ContentShape'
  BY <1>2, <1>3 DEF ContentInv, ContentShape
<1>10. RulesStand'
  BY <1>8 DEF RulesStand
<1>11. \A d : Coming(d) /\ Watched(d)' => Coming(d)'
  BY <1>7 DEF Coming
<1>12. ContentCovers'
  BY <1>7, <1>11 DEF ContentInv, ContentCovers
<1>13. ContentDone'
  BY <1>7 DEF ContentInv, ContentDone, Deep
<1> QED
  BY <1>9, <1>10, <1>12, <1>13 DEF ContentInv

(* Steps of the analyses leave the walk alone.                             *)
LEMMA StillContent ==
  ASSUME ContentInv, UNCHANGED <<tree, aux_moved, content>>
  PROVE  ContentInv'
<1>1. RulesStand' /\ \A d : Included(content.attributes, d)' <=> Included(content.attributes, d)
  BY NoRuleFound
<1>2. ContentShape'
  BY DEF ContentInv, ContentShape
<1>3. ContentCovers'
  BY <1>1, StillWatched DEF ContentInv, ContentCovers, Coming
<1>4. ContentDone'
  BY <1>1, StillWatched DEF ContentInv, ContentDone, Deep
<1> QED
  BY <1>1, <1>2, <1>3, <1>4 DEF ContentInv

-----------------------------------------------------------------------------
(* The claims that are judged by what was read.                            *)

WellSpelled(claim) ==
  /\ claim = [kind |-> claim.kind, site |-> claim.site, spelling |-> claim.spelling]
  /\ claim.site # {} => \E path \in claim.site :
       /\ claim.site = {path} /\ path \in Seq(Range(path))
       /\ path # <<>> /\ path[Len(path)] # "/"

(* The last rule that mentions an attribute of the path does not set it.   *)
About(rule, attribute, path) == rule.attribute = attribute /\ rule_matches(rule, path)

NoneSet(rules, path) ==
  \A attribute \in ATTRIBUTE_NAMES : \A w \in 1 .. Len(rules) :
    /\ About(rules[w], attribute, path)
    /\ \A v \in 1 .. Len(rules) : w < v => ~ About(rules[v], attribute, path)
    => ~ rules[w].set

(* What survived did so by the rules, and those are not read again.        *)
JudgedByRules ==
  /\ RunShape
  /\ gate1.pc = "judge" => content.pc = "built"
  /\ gate1.pc \in {"idle", "survey", "build"} => gate1.survived = {}
  /\ gate1.left \in Seq(Range(gate1.left)) /\ \A claim \in Range(gate1.left) : WellSpelled(claim)
  /\ \A claim \in gate1.survived :
       /\ WellSpelled(claim) /\ content.pc = "built"
       /\ claim.spelling = "plain" => \A path \in claim.site :
            ~ content.incomplete /\ NoneSet(content.attributes, path)

AttributesInv == ContentInv /\ JudgedByRules

(* A path with no attribute evidence is set by no rule.                    *)
LEMMA NoEvidence ==
  ASSUME NEW S, content.attributes \in Seq(S), NEW path, ~ attribute_evidence(path)
  PROVE  NoneSet(content.attributes, path)
<1>1. PICK rules \in Seq(S) : rules = content.attributes
  OBVIOUS
<1> SUFFICES ASSUME NEW attribute \in ATTRIBUTE_NAMES, NEW w \in 1 .. Len(rules),
                    About(rules[w], attribute, path),
                    \A v \in 1 .. Len(rules) : w < v => ~ About(rules[v], attribute, path)
             PROVE  ~ rules[w].set
  BY <1>1 DEF NoneSet
<1> DEFINE I == {i \in 1 .. Len(rules) : About(rules[i], attribute, path)}
           last == SelectLastInSeq(rules, LAMBDA rule : rule.attribute = attribute /\ rule_matches(rule, path))
<1>2. last = IF I # {} THEN Max(I) ELSE 0
  BY DEF SelectLastInSeq, About
<1>3. w \in I /\ I \subseteq Int
  OBVIOUS
<1>4. \A i \in I : i <= w
  <2> SUFFICES ASSUME NEW i \in 1 .. Len(rules), About(rules[i], attribute, path) PROVE i <= w
    OBVIOUS
  <2>1. PICK N \in Nat : N = Len(rules)
    OBVIOUS
  <2>2. ~ (w < i)
    OBVIOUS
  <2> QED
    BY ONLY <2>1, <2>2
<1>5. Max(I) = w
  <2> HIDE DEF I
  <2> QED
    BY <1>3, <1>4, MaxIs
<1>6. last = w
  <2> HIDE DEF I, last
  <2> QED
    BY <1>2, <1>3, <1>5
<1>7. ~ (last # 0 /\ rules[last].set)
  BY <1>1 DEF attribute_evidence
<1>8. w # 0
  OBVIOUS
<1> HIDE DEF last, I
<1> QED
  BY <1>6, <1>7, <1>8

(* The claims of the analyses are spelled as assumed.                      *)
LEMMA Analysed ==
  ASSUME NEW claims \in Analyses
  PROVE  claims \in Seq(Range(claims)) /\ \A claim \in Range(claims) : WellSpelled(claim)
BY AnalysesAssumption DEF WellSpelled

(* Every claim in the gates' hands is well spelled: at the beginning,      *)
LEMMA BeginsSpelled ==
  ASSUME JudgedByRules, NEW mode, NEW claims, claims \in Seq(Range(claims)),
         \A claim \in Range(claims) : WellSpelled(claim), Begin1(mode, claims)
  PROVE  JudgedByRules'
<1>1. gate1' = NewRun(mode, claims)
  BY DEF Begin1
<1>2. RunShape' /\ gate1'.pc = "survey" /\ gate1'.survived = {} /\ gate1'.left = claims
  BY <1>1 DEF RunShape, NewRun
<1> QED
  BY <1>2 DEF JudgedByRules

(* when an analysis runs,                                                  *)
LEMMA RunSpelled == JudgedByRules /\ run => JudgedByRules'
BY Analysed, BeginsSpelled DEF run

(* when one explains itself,                                               *)
LEMMA ExplainSpelled == JudgedByRules /\ explain => JudgedByRules'
<1> SUFFICES ASSUME JudgedByRules, explain PROVE JudgedByRules'
  OBVIOUS
<1>1. PICK claims \in Analyses : \E i \in DOMAIN claims :
        Begin1("explain", <<[claims[i] EXCEPT !.spelling = "plain"]>>)
  BY DEF explain
<1>2. PICK i \in DOMAIN claims : Begin1("explain", <<[claims[i] EXCEPT !.spelling = "plain"]>>)
  BY <1>1
<1>3. PICK claim : claim = claims[i]
  OBVIOUS
<1>4. WellSpelled(claim)
  BY <1>3, Analysed DEF Range
<1>5. PICK asked : asked = [claim EXCEPT !.spelling = "plain"]
  OBVIOUS
<1>6. WellSpelled(asked)
  <2>1. asked = [kind |-> claim.kind, site |-> claim.site, spelling |-> "plain"]
    BY <1>4, <1>5 DEF WellSpelled
  <2> QED
    BY <1>4, <2>1 DEF WellSpelled
<1>7. PICK s : s = <<asked>>
  OBVIOUS
<1>8. s \in Seq(Range(s)) /\ \A c \in Range(s) : WellSpelled(c)
  <2>1. s \in Seq({asked}) /\ DOMAIN s = {1} /\ s[1] = asked
    BY <1>7
  <2>2. Range(s) = {asked}
    BY <2>1 DEF Range
  <2> QED
    BY <1>6, <2>1, <2>2
<1>9. Begin1("explain", s)
  BY <1>2, <1>3, <1>5, <1>7
<1> QED
  BY <1>8, <1>9, BeginsSpelled

(* The claims that are left are among those there were.                    *)
LEMMA TailOf ==
  ASSUME NEW s, s \in Seq(Range(s)), s # <<>>
  PROVE  /\ Head(s) \in Range(s) /\ Range(Tail(s)) \subseteq Range(s)
         /\ Tail(s) \in Seq(Range(Tail(s)))
<1>0. PICK S : S = Range(s) /\ s \in Seq(S)
  OBVIOUS
<1>1. PICK N \in Nat \ {0} : N = Len(s)
  BY <1>0
<1>2. PICK t : t = Tail(s)
  OBVIOUS
<1>3. t \in Seq(S) /\ Len(t) = N - 1 /\ \A i \in 1 .. N - 1 : t[i] = s[i + 1]
  BY <1>0, <1>1, <1>2, HeadTailProperties
<1>4. Head(s) = s[1] /\ 1 \in 1 .. N
  BY <1>0, <1>1
<1>5. \A i \in 1 .. N - 1 : i + 1 \in 1 .. N
  BY ONLY <1>1
<1>6. DOMAIN s = 1 .. N /\ DOMAIN t = 1 .. N - 1
  BY <1>0, <1>1, <1>3
<1>7. t \in Seq(Range(t))
  BY <1>3 DEF Range
<1>8. Range(t) \subseteq Range(s)
  BY <1>3, <1>5, <1>6 DEF Range
<1> QED
  BY <1>1, <1>2, <1>4, <1>6, <1>7, <1>8 DEF Range

(* when one is not judged,                                                 *)
LEMMA FailsSpelled ==
  ASSUME JudgedByRules, Fails
  PROVE  JudgedByRules'
<1>1. RunShape' /\ gate1'.pc = "error" /\ gate1'.survived = {} /\ gate1'.left = <<>>
  BY DEF Fails, RunShape, JudgedByRules
<1>2. Range(<<>>) = {} /\ <<>> \in Seq(Range(<<>>))
  BY DEF Range
<1> QED
  BY <1>1, <1>2 DEF JudgedByRules

(* The run goes on with as much of what it was asked.                      *)
LEMMA StaysSpelled ==
  ASSUME JudgedByRules, UNCHANGED content, RunShape',
         gate1'.left = gate1.left \/ (gate1.left # <<>> /\ gate1'.left = Tail(gate1.left)),
         gate1'.survived = gate1.survived,
         gate1'.pc = "judge" => content.pc = "built",
         gate1'.pc \in {"idle", "survey", "build"} => gate1.survived = {}
  PROVE  JudgedByRules'
<1>1. gate1'.left \in Seq(Range(gate1'.left)) /\ Range(gate1'.left) \subseteq Range(gate1.left)
  BY TailOf DEF JudgedByRules
<1> QED
  BY <1>1 DEF JudgedByRules

(* and when one is judged.                                                 *)
LEMMA JudgeSpelled ==
  ASSUME AttributesInv, Judge
  PROVE  JudgedByRules'
<1> DEFINE claim == Head(gate1.left)
           path  == CHOOSE p \in claim.site : TRUE
<1>0. JudgedByRules /\ ContentShape /\ RunShape
  BY DEF AttributesInv, ContentInv, JudgedByRules
<1>1. gate1.pc = "judge" /\ gate1.left # <<>> /\ claim.site # {} /\ UNCHANGED <<tree, aux_moved, survey, content>>
  BY DEF Judge, attributed
<1>2. PICK answer \in CheckIgnore[path] :
        LET found == judge(path, claim.spelling) \cup contract_classify(path, answer)
        IN  IF "Error" \in found THEN Fails
            ELSE IF found = {}
              THEN gate1' = [gate1 EXCEPT !.left = Tail(@), !.survived = @ \cup {claim}]
            ELSE gate1' = [gate1 EXCEPT !.left = Tail(@), !.refused = Append(@, record(claim, found))]
  BY DEF Judge
<1>3. PICK found : found = judge(path, claim.spelling) \cup contract_classify(path, answer)
  OBVIOUS
<1>4. claim \in Range(gate1.left) /\ Range(Tail(gate1.left)) \subseteq Range(gate1.left)
      /\ Tail(gate1.left) \in Seq(Range(Tail(gate1.left)))
  BY <1>0, <1>1, TailOf DEF JudgedByRules
<1>5. CASE Fails
  BY <1>0, <1>5, FailsSpelled
<1>6. CASE found = {} /\ gate1' = [gate1 EXCEPT !.left = Tail(@), !.survived = @ \cup {claim}]
  <2>1. RunShape' /\ gate1'.pc = "judge" /\ gate1'.left = Tail(gate1.left)
        /\ gate1'.survived = gate1.survived \cup {claim}
    BY <1>0, <1>1, <1>6 DEF RunShape
  <2>2. judge(path, claim.spelling) = {}
    BY <1>3, <1>6
  <2>3. content_judge(path, claim.spelling) = "Abstain"
    BY <2>2 DEF judge
  <2>4. WellSpelled(claim) /\ content.pc = "built"
    BY <1>0, <1>1, <1>4 DEF JudgedByRules
  <2>5. ASSUME claim.spelling = "plain", NEW p \in claim.site
        PROVE  ~ content.incomplete /\ NoneSet(content.attributes, p)
    <3>1. p = path
      <4>1. PICK q : claim.site = {q}
        BY <1>1, <2>4 DEF WellSpelled
      <4> QED
        BY <2>5, <4>1
    <3>2. judge_provenance(p, LazyContent(p)) = "Abstain"
      BY <2>3, <2>5, <3>1 DEF content_judge
    <3>3. ~ content.incomplete /\ ~ attribute_evidence(p)
      BY <3>2 DEF judge_provenance
    <3> QED
      BY <1>0, <3>3, NoEvidence DEF ContentShape
  <2> HIDE DEF claim
  <2> QED
    BY <1>0, <1>1, <1>4, <2>1, <2>4, <2>5 DEF JudgedByRules
<1>7. CASE gate1' = [gate1 EXCEPT !.left = Tail(@), !.refused = Append(@, record(claim, found))]
  <2>1. RunShape' /\ gate1'.pc = "judge" /\ gate1'.left = Tail(gate1.left) /\ gate1'.survived = gate1.survived
    BY <1>0, <1>1, <1>7 DEF RunShape
  <2> QED
    BY <1>0, <1>1, <2>1, StaysSpelled DEF JudgedByRules
<1> QED
  BY <1>2, <1>3, <1>5, <1>6, <1>7

(* A step that leaves the walk and what it saw alone, but for the user's.  *)
LEMMA StepKeepsAttributes == AttributesInv /\ Gate1Steps => AttributesInv'
<1> SUFFICES ASSUME AttributesInv, Gate1Steps PROVE AttributesInv'
  OBVIOUS
<1>0. ContentInv /\ JudgedByRules /\ RunShape
  BY DEF AttributesInv, JudgedByRules
<1>a. ASSUME UNCHANGED <<tree, aux_moved, content>>, JudgedByRules' PROVE AttributesInv'
  BY <1>0, <1>a, StillContent DEF AttributesInv
<1>1. CASE run \/ explain
  <2>1. UNCHANGED <<tree, aux_moved, content>>
    BY <1>1 DEF run, explain, Begin1
  <2> QED
    BY <1>0, <1>1, <1>a, <2>1, RunSpelled, ExplainSpelled
<1>2. CASE DiscoverFails \/ BuildFails
  BY <1>0, <1>2, <1>a, FailsSpelled DEF DiscoverFails, BuildFails
<1>3. CASE Survey
  <2>1. UNCHANGED <<content, gate1>> /\ survey_in
    BY <1>3 DEF Survey
  <2>2. UNCHANGED <<tree, aux_moved>>
    BY <2>1 DEF survey_in, probe_git_stores, list, examine, finish, treeVars
  <2>3. JudgedByRules'
    BY <1>0, <2>1 DEF JudgedByRules, RunShape
  <2> QED
    BY <1>a, <2>1, <2>2, <2>3
<1>4. CASE Surveyed
  <2>1. /\ gate1.pc = "survey" /\ UNCHANGED <<tree, aux_moved, content>>
        /\ gate1' = [gate1 EXCEPT !.pc = "build"]
    BY <1>4 DEF Surveyed
  <2>2. RunShape' /\ gate1'.pc = "build" /\ gate1'.left = gate1.left /\ gate1'.survived = gate1.survived
    BY <1>0, <2>1 DEF RunShape
  <2> QED
    BY <1>0, <1>a, <2>1, <2>2, StaysSpelled DEF JudgedByRules
<1>5. CASE Build
  <2>1. gate1.pc = "build" /\ build /\ UNCHANGED gate1
    BY <1>5 DEF Build
  <2>2. ContentInv'
    BY <1>0, <2>1, BuildKeeps
  <2>3. gate1.survived = {}
    BY <1>0, <2>1 DEF JudgedByRules
  <2>4. JudgedByRules'
    BY <1>0, <2>1, <2>3 DEF JudgedByRules, RunShape
  <2> QED
    BY <2>2, <2>4 DEF AttributesInv
<1>6. CASE Built
  <2>1. /\ gate1.pc = "build" /\ content.pc = "built" /\ UNCHANGED <<tree, aux_moved, content>>
        /\ gate1' = [gate1 EXCEPT !.pc = "judge"]
    BY <1>6 DEF Built
  <2>2. RunShape' /\ gate1'.pc = "judge" /\ gate1'.left = gate1.left /\ gate1'.survived = gate1.survived
    BY <1>0, <2>1 DEF RunShape
  <2> QED
    BY <1>0, <1>a, <2>1, <2>2, StaysSpelled DEF JudgedByRules
<1>7. CASE Judge
  <2>1. UNCHANGED <<tree, aux_moved, content>>
    BY <1>7 DEF Judge
  <2> QED
    BY <1>7, <1>a, <2>1, JudgeSpelled
<1>8. CASE JudgeUnattributed
  <2>1. gate1.pc = "judge" /\ gate1.left # <<>> /\ UNCHANGED <<tree, aux_moved, content>>
    BY <1>8 DEF JudgeUnattributed
  <2>2. RunShape' /\ gate1'.pc = "judge" /\ gate1'.left = Tail(gate1.left) /\ gate1'.survived = gate1.survived
    BY <1>0, <1>8, <2>1 DEF JudgeUnattributed, RunShape
  <2> QED
    BY <1>0, <1>a, <2>1, <2>2, StaysSpelled DEF JudgedByRules
<1>9. CASE Report
  <2>1. gate1.pc = "judge" /\ UNCHANGED <<tree, aux_moved, content>>
    BY <1>9 DEF Report
  <2>2. RunShape' /\ gate1'.pc = "done" /\ gate1'.left = gate1.left /\ gate1'.survived = gate1.survived
    BY <1>0, <1>9 DEF Report, RunShape
  <2> QED
    BY <1>0, <1>a, <2>1, <2>2, StaysSpelled DEF JudgedByRules
<1> QED
  BY <1>1, <1>2, <1>3, <1>4, <1>5, <1>6, <1>7, <1>8, <1>9 DEF Gate1Steps

(* Every step keeps the invariant.                                         *)
LEMMA InductiveAttributes == AttributesInv /\ [Gate1Next]_gate1Vars => AttributesInv'
<1> SUFFICES ASSUME AttributesInv, Gate1Next \/ UNCHANGED gate1Vars PROVE AttributesInv'
  OBVIOUS
<1>a. UNCHANGED <<content, gate1>> => (JudgedByRules => JudgedByRules')
  BY DEF JudgedByRules, RunShape
<1>1. CASE Gate1Steps
  BY <1>1, StepKeepsAttributes
<1>2. CASE UserMoves
  BY <1>2, <1>a, MoveKeepsContent DEF UserMoves, AttributesInv
<1>3. CASE UNCHANGED gate1Vars
  BY <1>3, <1>a, StillContent DEF gate1Vars, AttributesInv
<1> QED
  BY <1>1, <1>2, <1>3 DEF Gate1Next

(* It holds at the beginning.                                              *)
LEMMA InitiallyAttributes == Gate1Init => AttributesInv
<1> SUFFICES ASSUME Gate1Init PROVE AttributesInv
  OBVIOUS
<1>1. DOMAIN tree = PathSet /\ \A p \in PathSet : tree[p] \in GateEntries[p]
  BY DEF Gate1Init, TreeInit
<1>2. /\ content.pc = "walk" /\ content.pending = {<<>>} /\ content.files = {} /\ content.attributes = <<>>
      /\ content = [pc |-> content.pc, pending |-> content.pending, visited |-> content.visited,
                    files |-> content.files, attributes |-> content.attributes,
                    submodules |-> content.submodules, incomplete |-> content.incomplete]
  BY DEF Gate1Init, NewContent
<1>3. Range(<<>>) = {} /\ <<>> \in Seq(Range(<<>>)) /\ Len(<<>>) = 0
  BY DEF Range
<1>4. ContentShape
  BY <1>1, <1>2, <1>3 DEF ContentShape, WalkDirs
<1>5. RulesStand
  BY <1>2, <1>3 DEF RulesStand
<1>6. ContentCovers
  <2> SUFFICES ASSUME NEW d \in WalkDirs, Watched(d) PROVE Coming(d)
    BY DEF ContentCovers
  <2>1. PICK f \in PathSet : f = GitAttributes(d)
    BY DEF Watched
  <2>2. \E e \in {f} \cup Parents(f) : directory(e) = <<>>
    BY TreeAssumption, LevelBelow
  <2> QED
    BY <1>2, <2>1, <2>2 DEF Coming
<1>7. ContentDone
  BY <1>2 DEF ContentDone
<1>8. JudgedByRules
  <2>1. RunShape /\ gate1.pc = "idle" /\ gate1.survived = {} /\ gate1.left = <<>>
    BY DEF Gate1Init, NewRun, RunShape
  <2> QED
    BY <1>3, <2>1 DEF JudgedByRules
<1> QED
  BY <1>4, <1>5, <1>6, <1>7, <1>8 DEF AttributesInv, ContentInv

-----------------------------------------------------------------------------
(* What git reads in the same files.                                       *)

(* What is called in a token what a rule calls the attribute.              *)
NameOf(attribute) == IF attribute = "filter=lfs" THEN "filter" ELSE attribute

(* git and the code read a token alike.                                    *)
LEMMA TokenSays ==
  ASSUME NEW token, token = [sign |-> token.sign, name |-> token.name, value |-> token.value],
         NEW a \in ATTRIBUTE_NAMES
  PROVE  /\ token.name = NameOf(a) /\ Sets(token) => attribute_state(token, a) = {TRUE}
         /\ attribute_state(token, a) # {} /\ attribute_state(token, a) # {TRUE} =>
              token.name = NameOf(a) /\ ~ Sets(token)
         /\ NameOf(a) \in {"linguist-vendored", "linguist-generated", "filter"}
<1>1. CASE a = "filter=lfs"
  <2>1. PICK s, n, v : s = token.sign /\ n = token.name /\ v = token.value /\ token = [sign |-> s, name |-> n, value |-> v]
    OBVIOUS
  <2>2. NameOf(a) = "filter" /\ (n = "filter" => (Sets(token) <=> s = "" /\ v = "lfs"))
    BY <1>1, <2>1 DEF NameOf, Sets
  <2>3. attribute_state(token, a) =
          IF token = [sign |-> "", name |-> "filter", value |-> "lfs"] THEN {TRUE}
          ELSE IF token \in {[sign |-> "-", name |-> "filter", value |-> "none"],
                             [sign |-> "", name |-> "filter", value |-> ""]} THEN {FALSE}
          ELSE {}
    BY <1>1 DEF attribute_state
  <2>4. CASE token = [sign |-> "", name |-> "filter", value |-> "lfs"]
    BY <2>1, <2>2, <2>3, <2>4
  <2>5. CASE token = [sign |-> "-", name |-> "filter", value |-> "none"]
    BY <2>1, <2>2, <2>3, <2>5
  <2>6. CASE token = [sign |-> "", name |-> "filter", value |-> ""]
    BY <2>1, <2>2, <2>3, <2>6
  <2>7. CASE token \notin {[sign |-> "", name |-> "filter", value |-> "lfs"],
                           [sign |-> "-", name |-> "filter", value |-> "none"],
                           [sign |-> "", name |-> "filter", value |-> ""]}
    BY <2>1, <2>2, <2>3, <2>7
  <2> QED
    BY <2>4, <2>5, <2>6, <2>7
<1>2. CASE a # "filter=lfs"
  <2>1. NameOf(a) = a /\ a \in {"linguist-vendored", "linguist-generated"}
    BY <1>2 DEF NameOf, ATTRIBUTE_NAMES
  <2>2. attribute_state(token, a) =
          IF token.name # a THEN {} ELSE {token.sign = "" /\ token.value \in {"none", "true"}}
    BY <1>2 DEF attribute_state
  <2>3. token.name = a => (Sets(token) <=> token.sign = "" /\ token.value \in {"none", "true"})
    BY <2>1 DEF Sets
  <2> QED
    BY <2>1, <2>2, <2>3
<1> QED
  BY <1>1, <1>2

(* m is what token t of line n says in the file of directory d.            *)
Mentions(m, attribute, path, d, n, t) ==
  /\ Reads(GitAttributes(d))
  /\ n \in DOMAIN AttributeLines(d) /\ t \in DOMAIN AttributeLines(d)[n].tokens
  /\ GitMatches(AttributeLines(d)[n].pattern, Below(d, path))
  /\ AttributeLines(d)[n].tokens[t].name = NameOf(attribute)
  /\ m = [at |-> <<Depth(d), n, t>>, set |-> Sets(AttributeLines(d)[n].tokens[t])]

(* What git says, for all that is said: the last that is.                  *)
LEMMA GitSaysIs ==
  ASSUME NEW attribute, NEW path, NEW m
  PROVE  m \in GitSays(attribute, path) <=>
           \E d \in {<<>>} \cup Parents(path) : \E n, t : Mentions(m, attribute, path, d, n, t)
<1>1. m \in GitSays(attribute, path) <=>
        \E d \in {e \in {<<>>} \cup Parents(path) : Reads(GitAttributes(e))} :
          \E n \in {i \in DOMAIN AttributeLines(d) : GitMatches(AttributeLines(d)[i].pattern, Below(d, path))} :
            \E t \in {i \in DOMAIN AttributeLines(d)[n].tokens :
                        AttributeLines(d)[n].tokens[i].name = NameOf(attribute)} :
              m = [at |-> <<Depth(d), n, t>>, set |-> Sets(AttributeLines(d)[n].tokens[t])]
  BY DEF GitSays, AttributeLines, Below, NameOf
<1> QED
  BY <1>1 DEF Mentions

(* What is said after something is deeper, or in a later line, or a later  *)
(* token of the line.                                                      *)
LEMMA LaterIs ==
  ASSUME NEW c \in Nat, NEW n \in Nat, NEW t \in Nat, NEW d \in Nat, NEW m \in Nat, NEW q \in Nat,
         Later(<<c, n, t>>, <<d, m, q>>)
  PROVE  c > d \/ (c = d /\ (m < n \/ (m = n /\ q < t)))
<1>1. PICK a, b : a = <<c, n, t>> /\ b = <<d, m, q>>
  OBVIOUS
<1>2. /\ a \in Seq(Nat) /\ b \in Seq(Nat) /\ Len(a) = 3 /\ Len(b) = 3 /\ DOMAIN a = 1 .. 3 /\ DOMAIN b = 1 .. 3
      /\ a[1] = c /\ a[2] = n /\ a[3] = t /\ b[1] = d /\ b[2] = m /\ b[3] = q
  BY <1>1
<1>3. ~ IsStrictPrefix(b, a)
  <2> SUFFICES ASSUME IsPrefix(b, a) PROVE b = a
    BY DEF IsStrictPrefix
  <2>1. b = SubSeq(a, 1, 3)
    BY <1>2 DEF IsPrefix
  <2>2. SubSeq(a, 1, 3) = a
    BY <1>2
  <2> QED
    BY <2>1, <2>2
<1>4. PICK i \in 1 .. 3 : a[i] > b[i] /\ SubSeq(a, 1, i - 1) = SubSeq(b, 1, i - 1)
  BY <1>1, <1>2, <1>3 DEF Later
<1>5. ASSUME NEW j \in 1 .. i - 1 PROVE a[j] = b[j]
  <2>1. PICK x, y : x = SubSeq(a, 1, i - 1) /\ y = SubSeq(b, 1, i - 1) /\ x = y
    BY <1>4
  <2>2. x[j] = a[j] /\ y[j] = b[j]
    BY <1>2, <2>1
  <2> QED
    BY <2>1, <2>2
<1>6. i = 1 \/ i = 2 \/ i = 3
  OBVIOUS
<1>7. CASE i = 1
  BY <1>2, <1>4, <1>7
<1>8. CASE i = 2
  <2>1. a[1] = b[1]
    BY <1>5, <1>8
  <2> QED
    BY <1>2, <1>4, <1>8, <2>1
<1>9. CASE i = 3
  <2>1. a[1] = b[1] /\ a[2] = b[2]
    BY <1>5, <1>9
  <2> QED
    BY <1>2, <1>4, <1>9, <2>1
<1> QED
  BY <1>6, <1>7, <1>8, <1>9

(* The premises of AttributesAsGit about one path.                         *)
Undisturbed(path) ==
  /\ path \in Seq(Range(path)) /\ path # <<>> /\ path[Len(path)] # "/"
  /\ ~ Elsewhere(path)
  /\ \A d \in {<<>>} \cup Parents(path) : Untouched(GitAttributes(d))

(* A .gitattributes above the path that is read was there throughout.      *)
LEMMA AboveWatched ==
  ASSUME NEW path, Undisturbed(path), NEW d \in {<<>>} \cup Parents(path), Reads(GitAttributes(d))
  PROVE  d \in WalkDirs /\ Watched(d)
<1>1. PICK S : S = Range(path) /\ path \in Seq(S) /\ path # <<>> /\ path[Len(path)] # "/"
  BY DEF Undisturbed
<1>2. d \in Seq(S)
  BY <1>1, BelowIs
<1>3. PICK f : f = GitAttributes(d)
  OBVIOUS
<1>4. f \in PathSet /\ Standing(f) /\ Parents(f) \subseteq PathSet
  BY <1>3, TreeAssumption DEF Reads, Present
<1>5. d \in WalkDirs
  BY <1>2, <1>3, <1>4, AboveAttributes DEF WalkDirs
<1>6. Parents(d) \subseteq Parents(path)
  <2> SUFFICES ASSUME NEW e \in Parents(d) PROVE e \in Parents(path)
    OBVIOUS
  <2>1. PICK N \in Nat, n \in Nat : N = Len(path) /\ DOMAIN path = 1 .. N /\ n = Len(d) /\ DOMAIN d = 1 .. n
    BY <1>1, <1>2
  <2>2. PICK i \in 1 .. n : d[i] = "/" /\ e = SubSeq(d, 1, i - 1)
    BY <2>1 DEF Parents
  <2>3. d # <<>>
    BY <2>1, <2>2
  <2>4. PICK k \in 1 .. N : path[k] = "/" /\ d = SubSeq(path, 1, k - 1)
    BY <2>1, <2>3 DEF Parents
  <2>5. n = k - 1 /\ \A j \in 1 .. n : d[j] = path[j] /\ j \in 1 .. N
    BY <1>1, <2>1, <2>4
  <2>6. SubSeq(d, 1, i - 1) = SubSeq(path, 1, i - 1)
    <3>1. \A j \in 1 .. i - 1 : j \in 1 .. n
      OBVIOUS
    <3> QED
      BY <1>1, <1>2, <2>1, <2>4, <2>5
  <2>7. i \in 1 .. N /\ path[i] = "/"
    BY <2>2, <2>5
  <2> QED
    BY <2>1, <2>2, <2>6, <2>7 DEF Parents
<1>7. Parents(f) \subseteq {d} \cup Parents(d) /\ (d = <<>> => Parents(f) = {})
  <2>1. CASE d = <<>>
    <3>1. f = <<".gitattributes">> /\ DOMAIN f = {1} /\ f[1] = ".gitattributes"
      BY <1>3, <2>1 DEF GitAttributes, Join
    <3> QED
      BY <3>1 DEF Parents
  <2>2. CASE d # <<>>
    <3>1. PICK U : U = S \cup {"/", ".gitattributes"}
      OBVIOUS
    <3>2. PICK n \in Nat : n = Len(d)
      BY <1>2
    <3>3. Beside(f, d, U)
      BY <1>2, <1>3, <2>2, <3>1, BesideIs
    <3>4. /\ f \in Seq(U) /\ Len(f) = n + 2 /\ DOMAIN f = 1 .. n + 2 /\ DOMAIN d = 1 .. n
          /\ (\A i \in 1 .. n : f[i] = d[i]) /\ f[n + 1] = "/" /\ f[n + 2] = ".gitattributes"
      BY <1>2, <3>2, <3>3 DEF Beside
    <3>5. ASSUME NEW e \in Parents(f) PROVE e \in {d} \cup Parents(d)
      <4>1. PICK i \in 1 .. n + 2 : f[i] = "/" /\ e = SubSeq(f, 1, i - 1)
        BY <3>4 DEF Parents
      <4>2. i \in 1 .. n \/ i = n + 1
        BY <3>4, <4>1
      <4>3. CASE i \in 1 .. n
        <5>1. d[i] = "/"
          BY <3>4, <4>1, <4>3
        <5>2. SubSeq(f, 1, i - 1) = SubSeq(d, 1, i - 1)
          <6>1. \A j \in 1 .. i - 1 : j \in 1 .. n /\ j \in 1 .. n + 2
            BY <4>3
          <6> QED
            BY <1>2, <3>2, <3>4, <4>3, <6>1
        <5> QED
          BY <3>4, <4>1, <4>3, <5>1, <5>2 DEF Parents
      <4>4. CASE i = n + 1
        <5>1. e = SubSeq(f, 1, n)
          BY <4>1, <4>4
        <5>2. SubSeq(f, 1, n) = d
          BY <1>2, <3>2, <3>4
        <5> QED
          BY <5>1, <5>2
      <4> QED
        BY <4>2, <4>3, <4>4
    <3> QED
      BY <2>2, <3>5
  <2> QED
    BY <2>1, <2>2
<1>8. Parents(f) \subseteq Parents(path)
  BY <1>6, <1>7
<1>9. ~ Elsewhere(f)
  BY <1>8 DEF Elsewhere, Undisturbed
<1> QED
  BY <1>3, <1>4, <1>5, <1>9 DEF Watched, Stood, Undisturbed

(* A line of the file: its pattern, and its tokens.                        *)
LEMMA LineIs ==
  ASSUME ContentShape, NEW d \in WalkDirs, GitAttributes(d) \in PathSet,
         NEW n \in 1 .. Len(AttributeLines(d)), NEW t \in 1 .. Len(AttributeLines(d)[n].tokens)
  PROVE  LET line == AttributeLines(d)[n]
             token == line.tokens[t]
         IN  /\ line \in Range(AttributeLines(d)) /\ token \in Range(line.tokens)
             /\ line.pattern \in Seq(Range(line.pattern)) /\ line.pattern # <<>>
             /\ token = [sign |-> token.sign, name |-> token.name, value |-> token.value]
<1>1. PICK p \in PathSet : p = GitAttributes(d)
  OBVIOUS
<1>2. p # <<>> /\ p[Len(p)] = ".gitattributes"
  BY <1>1, AboveAttributes, WalkDirsAre
<1>3. PICK thing \in GateEntries[p] : thing = tree[p]
  BY DEF ContentShape
<1>4. /\ thing.lines \in Seq(Range(thing.lines))
      /\ \A line \in Range(thing.lines) :
           /\ line.pattern \in Seq(Range(line.pattern)) /\ line.pattern # <<>>
           /\ line.tokens \in Seq(Range(line.tokens))
           /\ \A x \in Range(line.tokens) : x = [sign |-> x.sign, name |-> x.name, value |-> x.value]
  BY <1>2, AttributesAssumption
<1>5. PICK lines : lines = AttributeLines(d) /\ lines = thing.lines
  BY <1>1, <1>3 DEF AttributeLines
<1>6. PICK line : line = lines[n] /\ line \in Range(lines)
  BY <1>4, <1>5 DEF Range
<1>7. PICK token : token = line.tokens[t] /\ token \in Range(line.tokens)
  <2>1. PICK tokens : tokens = line.tokens /\ tokens \in Seq(Range(tokens))
    BY <1>4, <1>5, <1>6
  <2>2. t \in 1 .. Len(tokens)
    BY <1>5, <1>6, <2>1
  <2>3. tokens[t] \in Range(tokens)
    BY <2>1, <2>2 DEF Range
  <2> QED
    BY <2>1, <2>3
<1>8. /\ line.pattern \in Seq(Range(line.pattern)) /\ line.pattern # <<>>
      /\ token = [sign |-> token.sign, name |-> token.name, value |-> token.value]
  BY <1>4, <1>5, <1>6, <1>7
<1> QED
  BY <1>5, <1>6, <1>7, <1>8

(* A line that takes an attribute away is matched as git matches it.       *)
Strict(path) ==
  \A d \in {<<>>} \cup Parents(path) : Reads(GitAttributes(d)) =>
    \A l \in Range(AttributeLines(d)) :
      Lenient(l.pattern) => \A t \in Range(l.tokens) :
        t.name \in {"linguist-vendored", "linguist-generated", "filter"} => Sets(t)

(* The code counts a rule if git counts its mention, and the other way     *)
(* round if the mention takes the attribute away.                          *)
LEMMA Counted ==
  ASSUME ContentShape, NEW path, Undisturbed(path), NEW d \in {<<>>} \cup Parents(path), d \in WalkDirs,
         GitAttributes(d) \in PathSet,
         NEW n \in 1 .. Len(AttributeLines(d)), NEW r, r.directory = d,
         AttributeLines(d)[n].pattern \in Seq(Range(AttributeLines(d)[n].pattern)),
         AttributeLines(d)[n].pattern # <<>>,
         r.pattern = AttributeLines(d)[n].pattern
  PROVE  /\ GitMatches(r.pattern, Below(d, path)) => rule_matches(r, path)
         /\ ~ Lenient(r.pattern) /\ rule_matches(r, path) => GitMatches(r.pattern, Below(d, path))
<1>1. PICK S : S = Range(path) /\ path \in Seq(S) /\ path # <<>> /\ path[Len(path)] # "/"
  BY DEF Undisturbed
<1>2. PICK p, P : p = r.pattern /\ P = Range(p) /\ p \in Seq(P) /\ p # <<>>
  OBVIOUS
<1>3. PICK b : b = Below(d, path) /\ b \in Seq(S) /\ b # <<>> /\ d \in Seq(S)
  BY <1>1, BelowIs
<1>4. path # d /\ under(path, d)
  BY <1>1, <1>3, UnderIs
<1>5. rule_matches(r, path) <=> glob_matches(p, b)
  BY <1>2, <1>3, <1>4 DEF rule_matches, Below
<1>6. /\ GitMatches(p, b) => glob_matches(p, b)
      /\ ~ Lenient(p) /\ glob_matches(p, b) => GitMatches(p, b)
  BY <1>2, <1>3, GlobAsGit
<1> QED
  BY <1>2, <1>3, <1>5, <1>6

(* A mention that sets the attribute is a rule of the code, and counts.    *)
LEMMA MentionCounts ==
  ASSUME ContentShape, NEW path, Undisturbed(path), NEW attribute \in ATTRIBUTE_NAMES,
         NEW d \in {<<>>} \cup Parents(path), d \in WalkDirs, GitAttributes(d) \in PathSet,
         Lines(AttributeLines(d)), NEW n, NEW t, NEW m, Mentions(m, attribute, path, d, n, t), m.set
  PROVE  /\ n \in Nat /\ t \in Nat
         /\ \E r : /\ Says(d, AttributeLines(d), r, n, t) /\ r.directory = d /\ r.set
                   /\ About(r, attribute, path)
<1>1. PICK lines : lines = AttributeLines(d) /\ Lines(lines)
  OBVIOUS
<1>2. n \in 1 .. Len(lines) /\ t \in 1 .. Len(lines[n].tokens) /\ n \in Nat /\ t \in Nat
  <2>1. n \in DOMAIN lines /\ t \in DOMAIN lines[n].tokens
    BY <1>1 DEF Mentions
  <2> QED
    BY <1>1, <2>1 DEF Lines
<1>3. PICK token : token = lines[n].tokens[t]
  OBVIOUS
<1>4. GitMatches(lines[n].pattern, Below(d, path)) /\ token.name = NameOf(attribute) /\ Sets(token)
  BY <1>1, <1>3 DEF Mentions
<1>5. /\ lines[n].pattern \in Seq(Range(lines[n].pattern)) /\ lines[n].pattern # <<>>
      /\ token = [sign |-> token.sign, name |-> token.name, value |-> token.value]
  BY <1>1, <1>2, <1>3, LineIs
<1>6. attribute_state(token, attribute) = {TRUE}
  BY <1>4, <1>5, TokenSays
<1>7. PICK r : r = RuleOf(d, lines, n, t, attribute)
  OBVIOUS
<1>8. r.directory = d /\ r.set /\ r.attribute = attribute /\ r.pattern = lines[n].pattern
  BY <1>3, <1>6, <1>7 DEF RuleOf
<1>9. r \in SaidBy(d, lines, n, t)
  BY <1>3, <1>6, <1>7 DEF SaidBy
<1>10. rule_matches(r, path)
  BY <1>1, <1>2, <1>4, <1>5, <1>8, Counted
<1> QED
  BY <1>1, <1>2, <1>8, <1>9, <1>10 DEF Says, About

(* A rule that counts and takes the attribute away is mentioned in git.    *)
LEMMA RuleMentioned ==
  ASSUME ContentShape, NEW path, Undisturbed(path), Strict(path), NEW attribute \in ATTRIBUTE_NAMES,
         NEW d \in {<<>>} \cup Parents(path), d \in WalkDirs, GitAttributes(d) \in PathSet,
         Reads(GitAttributes(d)), Lines(AttributeLines(d)), NEW n \in Nat, NEW t \in Nat, NEW r,
         Says(d, AttributeLines(d), r, n, t), About(r, attribute, path), ~ r.set
  PROVE  Mentions([at |-> <<Depth(d), n, t>>, set |-> FALSE], attribute, path, d, n, t)
<1>1. PICK lines : lines = AttributeLines(d) /\ Lines(lines)
  OBVIOUS
<1>2. n \in 1 .. Len(lines) /\ t \in 1 .. Len(lines[n].tokens) /\ r \in SaidBy(d, lines, n, t)
  BY <1>1 DEF Says
<1>3. PICK token : token = lines[n].tokens[t]
  OBVIOUS
<1>4. PICK a \in ATTRIBUTE_NAMES : r = RuleOf(d, lines, n, t, a) /\ attribute_state(token, a) # {}
  BY <1>2, <1>3 DEF SaidBy
<1>5. r.directory = d /\ r.attribute = a /\ r.pattern = lines[n].pattern
      /\ (r.set <=> attribute_state(token, a) = {TRUE})
  BY <1>3, <1>4 DEF RuleOf
<1>6. a = attribute /\ rule_matches(r, path)
  BY <1>5 DEF About
<1>7. /\ lines[n] \in Range(lines) /\ token \in Range(lines[n].tokens)
      /\ lines[n].pattern \in Seq(Range(lines[n].pattern)) /\ lines[n].pattern # <<>>
      /\ token = [sign |-> token.sign, name |-> token.name, value |-> token.value]
  BY <1>1, <1>2, <1>3, LineIs
<1>8. /\ token.name = NameOf(attribute) /\ ~ Sets(token)
      /\ NameOf(attribute) \in {"linguist-vendored", "linguist-generated", "filter"}
  BY <1>4, <1>5, <1>6, <1>7, TokenSays
<1>9. ~ Lenient(r.pattern)
  BY <1>1, <1>5, <1>7, <1>8 DEF Strict
<1>10. GitMatches(lines[n].pattern, Below(d, path))
  BY <1>1, <1>2, <1>5, <1>6, <1>7, <1>9, Counted
<1>11. n \in DOMAIN lines /\ t \in DOMAIN lines[n].tokens
  BY <1>1, <1>2 DEF Lines
<1>12. Sets(token) = FALSE
  BY <1>8 DEF Sets
<1> QED
  BY <1>1, <1>3, <1>8, <1>10, <1>11, <1>12 DEF Mentions

(* If no rule of the walk sets an attribute for a path, git sets none by   *)
(* files that stood untouched, for what they take away is matched          *)
(* strictly.                                                               *)
LEMMA GitSetsNone ==
  ASSUME ContentInv, content.pc = "built", ~ content.incomplete,
         NEW path, Undisturbed(path), Strict(path), NoneSet(content.attributes, path),
         NEW attribute \in ATTRIBUTE_NAMES
  PROVE  ~ GitSets(attribute, path)
<1> DEFINE dirs == {<<>>} \cup Parents(path)
<1> SUFFICES ASSUME NEW m \in GitSays(attribute, path), m.set,
                    \A o \in GitSays(attribute, path) \ {m} : Later(m.at, o.at)
             PROVE  FALSE
  BY DEF GitSets
<1>1. PICK rules : rules = content.attributes
  OBVIOUS
<1>2. /\ ContentShape /\ Deep(rules)
      /\ \A w \in 1 .. Len(rules) : AsItStands(rules, w)
      /\ \A e \in WalkDirs : Watched(e) => Included(rules, e)
      /\ NoneSet(rules, path)
  BY <1>1 DEF ContentInv, RulesStand, ContentDone
<1>3. PICK L \in Nat : L = Len(rules) /\ DOMAIN rules = 1 .. L
  BY <1>1, <1>2 DEF ContentShape
(* The mention, and its rule.                                              *)
<1>4. PICK d \in dirs : \E n, t : Mentions(m, attribute, path, d, n, t)
  BY GitSaysIs
<1>5. PICK n, t : Mentions(m, attribute, path, d, n, t)
  BY <1>4
<1>6. d \in WalkDirs /\ Watched(d) /\ GitAttributes(d) \in PathSet
  BY <1>5, AboveWatched DEF Mentions, Watched
<1>7. Lines(AttributeLines(d))
  BY <1>2, <1>6, LinesAre DEF ContentShape
<1>8. /\ n \in Nat /\ t \in Nat
      /\ \E r : /\ Says(d, AttributeLines(d), r, n, t) /\ r.directory = d /\ r.set
                /\ About(r, attribute, path)
  BY <1>2, <1>5, <1>6, <1>7, MentionCounts
<1>9. PICK r : Says(d, AttributeLines(d), r, n, t) /\ r.directory = d /\ r.set /\ About(r, attribute, path)
  BY <1>8
<1>10. PICK i \in 1 .. L : rules[i] = r
  BY <1>2, <1>3, <1>6, <1>8, <1>9 DEF Included
(* The rule that decides comes after it, and takes the attribute away.     *)
<1>11. PICK I : I = {w \in 1 .. L : About(rules[w], attribute, path)}
  OBVIOUS
<1>12. i \in I /\ I \subseteq 0 .. L /\ I # {}
  BY <1>9, <1>10, <1>11
<1>13. PICK w \in I : \A v \in I : v <= w
  BY <1>12, GreatestNatural
<1>14. w \in 1 .. L /\ About(rules[w], attribute, path) /\ ~ rules[w].set
  <2>1. w \in 1 .. L /\ About(rules[w], attribute, path)
    BY <1>11, <1>13
  <2>2. ASSUME NEW v \in 1 .. L, w < v PROVE ~ About(rules[v], attribute, path)
    <3>1. ~ (v <= w)
      BY ONLY <1>3, <2>1, <2>2
    <3> QED
      BY <1>11, <1>13, <3>1
  <2> QED
    BY <1>2, <1>3, <2>1, <2>2 DEF NoneSet
<1>15. i < w
  <2>1. i # w /\ i <= w
    BY <1>9, <1>10, <1>12, <1>13, <1>14
  <2> QED
    BY ONLY <1>3, <1>14, <2>1
<1>16. PICK c : c = rules[w].directory
  OBVIOUS
<1>17. c \in dirs /\ c \in WalkDirs
  <2>1. c \in WalkDirs
    BY <1>2, <1>3, <1>14, <1>16 DEF AsItStands
  <2>2. PICK S : S = Range(path) \cup Pieces
    OBVIOUS
  <2>3. path \in Seq(S) /\ path # <<>> /\ path[Len(path)] # "/" /\ c \in Seq(S)
    BY <2>1, <2>2, WalkDirsAre DEF Undisturbed
  <2>4. path # c /\ under(path, c)
    BY <1>14, <1>16 DEF About, rule_matches
  <2> QED
    BY <2>1, <2>3, <2>4, UnderIs
<1>18. Reads(GitAttributes(c)) /\ Follows(rules, w, c, AttributeLines(c))
  BY <1>2, <1>3, <1>14, <1>16, <1>17 DEF AsItStands, Undisturbed
<1>19. PICK x \in Nat, y \in Nat :
         /\ Says(c, AttributeLines(c), rules[w], x, y)
         /\ \A j, k \in Nat : \A q :
              Says(c, AttributeLines(c), q, j, k) /\ (x < j \/ (x = j /\ y < k)) =>
                \E v \in 1 .. L : w < v /\ rules[v] = q
  BY <1>3, <1>18 DEF Follows
<1>20. GitAttributes(c) \in PathSet /\ Lines(AttributeLines(c))
  <2>1. GitAttributes(c) \in PathSet
    BY <1>18 DEF Reads, Present
  <2> QED
    BY <1>2, <1>17, <2>1, LinesAre DEF ContentShape
<1>21. PICK o : o = [at |-> <<Depth(c), x, y>>, set |-> FALSE]
  OBVIOUS
<1>22. Mentions(o, attribute, path, c, x, y)
  BY <1>2, <1>14, <1>17, <1>18, <1>19, <1>20, <1>21, RuleMentioned
<1>23. o \in GitSays(attribute, path) \ {m}
  <2>1. o \in GitSays(attribute, path)
    BY <1>17, <1>22, GitSaysIs
  <2>2. o # m
    BY <1>21
  <2> QED
    BY <2>1, <2>2
<1>24. m.at = <<Depth(d), n, t>> /\ o.at = <<Depth(c), x, y>>
  BY <1>5, <1>21 DEF Mentions
<1>25. Later(<<Depth(d), n, t>>, <<Depth(c), x, y>>)
  BY <1>23, <1>24
<1>26. Depth(d) \in Nat /\ Depth(c) \in Nat /\ (Depth(d) = Depth(c) => d = c)
  BY <1>17, DepthTells DEF Undisturbed
<1>27. Depth(d) > Depth(c) \/ (Depth(d) = Depth(c) /\ (x < n \/ (x = n /\ y < t)))
  BY <1>8, <1>25, <1>26, LaterIs
<1>28. ~ (Depth(d) > Depth(c))
  <2>1. Depth(rules[i].directory) <= Depth(rules[w].directory)
    BY <1>2, <1>3, <1>14, <1>15 DEF Deep
  <2>2. Depth(d) <= Depth(c)
    BY <1>9, <1>10, <1>16, <2>1
  <2> QED
    BY <1>26, <2>2
<1>29. d = c /\ (x < n \/ (x = n /\ y < t))
  BY <1>26, <1>27, <1>28
<1>30. PICK v \in 1 .. L : w < v /\ rules[v] = r
  BY <1>8, <1>9, <1>19, <1>29
<1>31. v \in I
  BY <1>9, <1>11, <1>30
<1>32. v <= w
  BY <1>13, <1>31
<1> QED
  BY ONLY <1>3, <1>14, <1>30, <1>32

(* A claim that survives is about no file that git, by files that stood    *)
(* untouched, holds for vendored, generated or kept by LFS, whatever the   *)
(* walk met and in whatever order it read the files (AttributesAsGit).     *)
THEOREM AsGit == Gate1Spec => []AttributesAsGit
<1>1. AttributesInv => AttributesAsGit
  <2> SUFFICES ASSUME AttributesInv, NEW claim \in gate1.survived, NEW path \in claim.site,
                      claim.spelling = "plain", ~ Elsewhere(path),
                      \A d \in {<<>>} \cup Parents(path) : Untouched(GitAttributes(d)),
                      Strict(path), NEW attribute \in ATTRIBUTE_NAMES
               PROVE  ~ GitSets(attribute, path)
    BY DEF AttributesAsGit, Strict, AttributeLines
  <2>1. WellSpelled(claim) /\ content.pc = "built" /\ ~ content.incomplete /\ NoneSet(content.attributes, path)
    BY DEF AttributesInv, JudgedByRules
  <2>2. Undisturbed(path)
    BY <2>1 DEF WellSpelled, Undisturbed
  <2> QED
    BY <2>1, <2>2, GitSetsNone DEF AttributesInv
<1> QED
  BY <1>1, InitiallyAttributes, InductiveAttributes, PTL DEF Gate1Spec
=============================================================================
