------------------------------ MODULE Gate1Tree ------------------------------
(***************************************************************************)
(* The work tree that the classes of Gate 1 read, and the user who works   *)
(* in it meanwhile.                                                        *)
(***************************************************************************)
EXTENDS RepoPath, Subsequences, Boundary, FiniteSets

CONSTANTS
  GatePaths,    \* the paths there may be, in the order of their names
  GateEntries,  \* path -> the things there may be at it
  MaxMoves      \* bound: how many paths the user touches

VARIABLES
  tree,         \* path -> what is there
  aux_moved     \* history: the paths the user touched since the gate was begun

treeVars == <<tree, aux_moved>>

PathSet == Range(GatePaths)

(* The directories above a path are paths.                                 *)
ASSUME TreeAssumption ==
  /\ GatePaths \in Seq(PathSet)
  /\ \A p \in PathSet : p \in Seq(Range(p)) /\ Parents(p) \subseteq PathSet
  /\ MaxMoves \in Nat

TreeInit ==
  /\ tree \in {t \in [PathSet -> UNION Range(GateEntries)] : \A p \in PathSet : t[p] \in GateEntries[p]}
  /\ aux_moved = {}

(* One thing: "none", a file, a directory or a symbolic link.  leads is    *)
(* what a link resolves to: a file (then lines is what it reads as), a     *)
(* directory "inside" the tree or "outside" it, or nothing ("broken").     *)
Thing(type) == [type |-> type, readable |-> TRUE, lines |-> <<>>, marks |-> NoMarks,
                leads |-> "none", target |-> <<>>]

Listed(dir) ==
  Picked(GatePaths, {i \in DOMAIN GatePaths :
    directory(GatePaths[i]) = dir /\ tree[GatePaths[i]].type # "none"})

Standing(path) == \A d \in Parents(path) : tree[d].type = "dir"
IsDir(path) == path # <<>> => Standing(path) /\ tree[path].type = "dir"
Present(path) == path \in PathSet /\ Standing(path) /\ tree[path].type # "none"

(* A read that follows links: what can be read, and what is not there.     *)
Reads(path) ==
  /\ Present(path) /\ tree[path].readable
  /\ tree[path].type = "file" \/ (tree[path].type = "link" /\ tree[path].leads = "file")
Missing(path) == Present(path) => tree[path].type = "link" /\ tree[path].leads = "broken"

(* Below a directory that another repository, or no one, answers for.      *)
Elsewhere(path) ==
  \E d \in Parents(path) : d \in PathSet /\ stops_the_walk(classify(tree[d].marks))

Untouched(path) == ({path} \cup Parents(path)) \cap aux_moved = {}

Move(path) ==
  /\ Cardinality(aux_moved) < MaxMoves
  /\ tree' \in {[tree EXCEPT ![path] = thing] : thing \in GateEntries[path] \ {tree[path]}}
  /\ aux_moved' = aux_moved \cup {path}
=============================================================================
