------------------------------- MODULE MCVetoes -------------------------------
(***************************************************************************)
(* The gates that look at the repository itself, one of them in each       *)
(* behaviour: gate names it, and the others rest.  They share nothing but  *)
(* the boundary classifier and the paths.                                  *)
(***************************************************************************)
EXTENDS LiteralVeto, YamlValues, MCReachability, MCGate1, MCLinks

VARIABLE gate

-----------------------------------------------------------------------------
(* Gate 2a.  A candidate and two files; one of them is a blob at first.    *)
MCTracked == <<"cand", "f", "g">>
MCSpellings == [k \in Kinds |-> CASE k = "Basename" -> {"b"} [] k = "Symbol" -> {"s"} [] OTHER -> {}]
SomeFile == [state |-> "file", size |-> 1, names |-> Texts]
Litter == {w \in [Files -> TreeEntries] : w["cand"] = SomeFile}
Indices == {i \in [Files -> EntryKind \cup {"none"}] : i["cand"] = "Blob" /\ i["g"] = "Blob"}

MCInit ==
  /\ gate \in {"2a", "2b", "yaml", "1 still", "1 moving", "0 still", "0 moving"}
  /\ query = [pc |-> "idle", needles |-> {}, left |-> {}, timed |-> FALSE, hits |-> 0,
              hits_capped |-> FALSE, state |-> "Completed", verdict |-> "none"]
  /\ aux_touched = {} /\ aux_changed = {} /\ scan = NewScan /\ YamlInit
  /\ Gate1Rest /\ gate0 = New0 /\ past = NoPast
  /\ index \in IF gate = "2a" THEN Indices ELSE {[f \in Files |-> "Blob"]}
  /\ worktree \in IF gate = "2a" THEN Litter ELSE {[f \in Files |-> SomeFile]}
  /\ disk \in IF gate = "2b" THEN Repositories2b ELSE {Plain}
  /\ tree \in CASE gate = "1 still" -> Trees [] gate = "1 moving" -> Moving1 [] OTHER -> {GBase}
  /\ fs \in CASE gate = "0 still" -> FileSystems [] gate = "0 moving" -> {KBase}
              [] OTHER -> {KBase}

Keeps(vars) == UNCHANGED vars /\ UNCHANGED gate

MCNext ==
  \/ gate = "2a" /\ LitNext /\ Keeps(<<reachVars, yamlVars, gate1Vars, linkVars>>)
  \/ gate = "2b" /\ ReachNext /\ Keeps(<<litVars, yamlVars, gate1Vars, linkVars>>)
  \/ gate = "yaml" /\ YamlNext /\ Keeps(<<litVars, reachVars, gate1Vars, linkVars>>)
  \/ gate \in {"1 still", "1 moving"} /\ Gate1Steps /\ Keeps(<<litVars, reachVars, yamlVars, linkVars>>)
  \/ gate = "1 moving" /\ UserMoves /\ Keeps(<<litVars, reachVars, yamlVars, linkVars>>)
  \/ gate \in {"0 still", "0 moving"} /\ build0 /\ Keeps(<<litVars, reachVars, yamlVars, gate1Vars>>)
  \/ gate \in {"0 still", "0 moving"} /\ blind /\ Keeps(<<litVars, reachVars, yamlVars, gate1Vars>>)
  \/ gate \in {"0 still", "0 moving"} /\ judge0 /\ Keeps(<<litVars, reachVars, yamlVars, gate1Vars>>)
  \/ gate = "0 moving" /\ Relink /\ Keeps(<<litVars, reachVars, yamlVars, gate1Vars>>)

(* What a behaviour can change is what the variables of its gate are.      *)
View ==
  <<gate, CASE gate = "2a" -> litVars [] gate = "2b" -> reachVars [] gate = "yaml" -> yamlVars
            [] gate \in {"1 still", "1 moving"} -> gate1Vars
            [] gate \in {"0 still", "0 moving"} -> linkVars>>

MCSpec == MCInit /\ [][MCNext]_<<gate, litVars, reachVars, yamlVars, gate1Vars, linkVars>>
=============================================================================
