-------------------------------- MODULE Links --------------------------------
(***************************************************************************)
(* Gates 0a and 0e (judged-core/src/gate0a.rs and gate0e.rs): what may be  *)
(* removed is no link and is behind none, and is nowhere near the stores   *)
(* of git, git-lfs and git-annex.  Both gates look once at the stores and  *)
(* then judge candidates as they are spelled.  A path is the sequence of   *)
(* its names from the root of the file system, ".." among them.            *)
(***************************************************************************)
EXTENDS Integers, FiniteSets, SequencesExt

CONSTANTS
  Nodes,         \* path -> the nodes there may be at it
  Hops,          \* how many links and ".." of a path the system follows
  Repositories,  \* [root, git_dir, common_dir, lfs]: what git says of each; lfs
                 \* is the value of lfs.storage, as a set of at most one path
  Candidates,    \* [path, slash]: slash if spelled with a trailing separator
  MaxRelinks     \* bound: how often the file system changes under the gates

VARIABLES
  fs,       \* path -> node: [type, to], to being where a link leads
  gate0,    \* struct Gate0a, struct Gate0e, and their verdicts
  past      \* history: the relinks so far, and where the stores were at first

linkVars == <<fs, gate0, past>>

Node(type) == [type |-> type, to |-> <<>>]
Link(to) == [type |-> "link", to |-> to]
At0(f, path) == IF path = <<>> THEN Node("dir")
                ELSE IF path \in DOMAIN f THEN f[path] ELSE Node("none")

Upto(path, i) == SubSeq(path, 1, i)
Rest(path, i) == SubSeq(path, i + 1, Len(path))

Nowhere == <<"?">>   \* nothing is there

(* The repository and its git directory are spelled as they are, and stay  *)
(* where they are while the gates work.                                    *)
IsPath(path) == path \in Seq(Range(path))
Stays(path) ==
  /\ ".." \notin Range(path)
  /\ \A k \in DOMAIN path : Upto(path, k) \in DOMAIN Nodes /\ Nodes[Upto(path, k)] = {Node("dir")}

ASSUME LinksAssumption ==
  /\ Nowhere \notin DOMAIN Nodes
  /\ \A p \in DOMAIN Nodes : IsPath(p) /\ \A node \in Nodes[p] :
       node.type \in {"none", "dir", "file", "locked", "link"} /\ IsPath(node.to)
  /\ \A repo \in Repositories :
       /\ Stays(repo.root) /\ Stays(repo.git_dir)
       /\ \A p \in {repo.root, repo.git_dir, repo.common_dir} \cup repo.lfs : IsPath(p)
  /\ \A candidate \in Candidates : IsPath(candidate.path)
  /\ Hops \in Nat /\ MaxRelinks \in Nat

-----------------------------------------------------------------------------
(* What the operating system makes of a path: it goes from directory to    *)
(* directory, replaces a link by where it leads and takes back a "..".     *)
Turns(f, path) == {k \in DOMAIN path : path[k] = ".." \/ At0(f, Upto(path, k)).type # "dir"}

Hop(f, path) ==
  LET i == Min(Turns(f, path))
  IN  IF Turns(f, path) = {} THEN path
      ELSE IF path[i] = ".." THEN Upto(path, Max({0, i - 2})) \o Rest(path, i)
      ELSE IF At0(f, Upto(path, i)).type = "link" THEN At0(f, Upto(path, i)).to \o Rest(path, i)
      ELSE path

Followed(f, path) ==
  LET after[n \in 0 .. Hops] == IF n = 0 THEN path ELSE Hop(f, after[n - 1])
  IN  after[Hops]

(* What it found at the end: "none" is ENOENT, "error" any other error: it *)
(* went through what is no directory or one that is locked, or in circles. *)
Ending(f, path) ==
  LET i == Min(Turns(f, path))
      type == At0(f, Upto(path, i)).type
  IN  IF Turns(f, path) = {} THEN "dir"
      ELSE IF path[i] = ".." \/ type = "link" THEN "error"
      ELSE IF i = Len(path) \/ type = "none" THEN type ELSE "error"

stat(f, path) == Ending(f, Followed(f, path))

canonicalize(f, path) ==
  IF stat(f, path) \in {"dir", "file", "locked"} THEN Followed(f, path) ELSE Nowhere

(* lstat follows no link at the last name: where it looks, and what it     *)
(* finds there.                                                            *)
Place(f, path) ==
  IF path = <<>> \/ Last(path) = ".." THEN canonicalize(f, path)
  ELSE IF stat(f, Front(path)) = "dir" THEN Append(Followed(f, Front(path)), Last(path)) ELSE Nowhere

lstat(f, path) ==
  IF path = <<>> \/ Last(path) = ".." THEN stat(f, path)
  ELSE CASE stat(f, Front(path)) = "dir"  -> At0(f, Place(f, path)).type
         [] stat(f, Front(path)) = "none" -> "none"
         [] OTHER                         -> "error"

-----------------------------------------------------------------------------
(* Gate 0e.                                                                *)
normalize0e(path) ==
  FoldLeft(LAMBDA acc, name :
             IF name # ".." THEN Append(acc, name)
             ELSE IF acc = <<>> THEN <<"..">> ELSE Front(acc),
           <<>>, path)

(* Mutant: a path is compared as it is spelled.                            *)
as_spelled(f, path) == normalize0e(path)

(* The longest part of the path that is there, resolved, and the rest of   *)
(* it as it is spelled, unless there is ".." in that rest.                 *)
resolve(f, path) ==
  LET there == Max({i \in 0 .. Len(path) : canonicalize(f, Upto(path, i)) # Nowhere})
  IN  IF ".." \in Range(Rest(path, there)) THEN normalize0e(path)
      ELSE canonicalize(f, Upto(path, there)) \o Rest(path, there)

(* What is protected, or nothing at all when git could not be asked, and   *)
(* then no candidate is cleared.                                           *)
stores(repo) ==
  {repo.git_dir, repo.common_dir, Append(repo.common_dir, "annex")}
    \cup IF repo.lfs = {} THEN {Append(repo.common_dir, "lfs")} ELSE repo.lfs

Near(a, b) == IsPrefix(a, b) \/ IsPrefix(b, a)

judge0e(place) ==
  IF gate0.blind THEN "Unreadable"
  ELSE IF \E region \in gate0.regions : Near(place, region) THEN "Refuses" ELSE "Clear"

-----------------------------------------------------------------------------
(* Gate 0a.                                                                *)
marker0(path) == CASE lstat(fs, path) = "none"  -> "Absent"
                   [] lstat(fs, path) = "error" -> "Unreadable"
                   [] OTHER                     -> "Present"

(* A store that could not be looked for counts as one.                     *)
store(repo) ==
  LET found == {marker0(Append(repo.common_dir, "annex")), marker0(Append(repo.root, ".dvc"))}
  IN  IF found = {"Absent"} THEN "Absent" ELSE IF "Present" \in found THEN "Present" ELSE "Unreadable"

(* A link, or an error, on the way from the root to the candidate; what is *)
(* not there ends the way.                                                 *)
linked_ancestor(f, root, path) ==
  LET odd == {k \in Len(root) + 1 .. Len(path) - 1 : lstat(f, Upto(path, k)) \in {"link", "none", "error"}}
  IN  IF ~ IsPrefix(root, path) THEN "error"
      ELSE IF odd = {} THEN "dir" ELSE lstat(f, Upto(path, Min(odd)))

(* What gate 0a learns of a path, and of where it leads if it is a link.   *)
Looked(f, root, path) ==
  [above |-> linked_ancestor(f, root, path), found |-> lstat(f, path), leads |-> stat(f, path)]

judge0a(candidate, looked) ==
  IF "error" \in {looked.above, looked.found} \/ (looked.found = "link" /\ looked.leads = "error")
    THEN "Unreadable"
  ELSE IF \/ looked.above = "link"
          \/ looked.found = "link"
               /\ (candidate.slash \/ looked.leads # "none" \/ gate0.store # "Absent")
    THEN "Refuses"
  ELSE "Clear"

-----------------------------------------------------------------------------
New0 == [pc |-> "build", repo |-> [root |-> <<>>, git_dir |-> <<>>, common_dir |-> <<>>, lfs |-> {}],
         store |-> "none", regions |-> {}, blind |-> FALSE, candidate |-> [path |-> <<>>, slash |-> FALSE],
         said |-> [gate0a |-> "none", gate0e |-> "none"]]

(* Both gates look at the stores; git may fail to say where they are.      *)
Build0(answers) ==
  /\ gate0.pc = "build"
  /\ \E repo \in Repositories :
       /\ gate0' = [gate0 EXCEPT !.pc = "judge", !.repo = repo, !.blind = ~ answers,
                        !.store   = IF answers THEN store(repo) ELSE "Unreadable",
                        !.regions = IF answers THEN {resolve(fs, s) : s \in stores(repo)} ELSE {}]
       /\ past' = [past EXCEPT !.stores = {canonicalize(fs, s) : s \in stores(repo)} \ {Nowhere}]
  /\ UNCHANGED fs

build0 == Build0(TRUE)
blind  == Build0(FALSE)

judge0 ==
  /\ gate0.pc = "judge"
  /\ \E candidate \in Candidates :
       \E looked \in {Looked(fs, gate0.repo.root, candidate.path)}, place \in {resolve(fs, candidate.path)} :
         gate0' = [gate0 EXCEPT !.pc = "judged", !.candidate = candidate,
                     !.said = [gate0a |-> judge0a(candidate, looked), gate0e |-> judge0e(place)]]
  /\ UNCHANGED <<fs, past>>

(* Something is made, removed or linked elsewhere between the two.         *)
Relink ==
  /\ gate0.pc = "judge" /\ past.relinks < MaxRelinks
  /\ past' = [past EXCEPT !.relinks = @ + 1]
  /\ \E p \in DOMAIN fs : \E node \in Nodes[p] \ {fs[p]} : fs' = [fs EXCEPT ![p] = node]
  /\ UNCHANGED gate0

Gate0Steps == build0 \/ blind \/ judge0

NextLinks == Gate0Steps \/ Relink

NoPast == [relinks |-> 0, stores |-> {}]

InitLinks ==
  /\ fs \in {f \in [DOMAIN Nodes -> UNION {Nodes[p] : p \in DOMAIN Nodes}] : \A p \in DOMAIN f : f[p] \in Nodes[p]}
  /\ gate0 = New0 /\ past = NoPast

SpecLinks == InitLinks /\ [][NextLinks]_linkVars

-----------------------------------------------------------------------------
(* What `rm -rf` of the candidate, as it is spelled, removes with all that *)
(* is below it.                                                            *)
Removed(candidate) ==
  IF candidate.slash THEN canonicalize(fs, candidate.path) ELSE Place(fs, candidate.path)

(* What both gates let go can be removed: it is nowhere near a store that  *)
(* is still where it was, and a broken link goes only if no annex was      *)
(* there; and unless its path goes back through "..", it is what it is     *)
(* called and in the repository, and not all of a repository that has its  *)
(* git directory inside (gate0a.rs "deleting the pointer deletes the only  *)
(* reference to the content", gate0e.rs "nothing outside the repository    *)
(* can give them back").                                                   *)
ClearedCanGo ==
  gate0.pc = "judged" /\ gate0.said = [gate0a |-> "Clear", gate0e |-> "Clear"] =>
    \A gone \in {Removed(gate0.candidate)} : At0(fs, gone).type # "none" =>
      /\ \A s \in past.stores \cap {canonicalize(fs, p) : p \in stores(gate0.repo)} : ~ Near(gone, s)
      /\ At0(fs, gone).type = "link" => stat(fs, gone) = "none" /\ gate0.store = "Absent"
      /\ ".." \notin Range(gate0.candidate.path) =>
           /\ gone = gate0.candidate.path /\ IsPrefix(gate0.repo.root, gone)
           /\ IsPrefix(gate0.repo.root, gate0.repo.git_dir) => gone # gate0.repo.root
=============================================================================
