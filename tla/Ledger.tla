-------------------------------- MODULE Ledger --------------------------------
(***************************************************************************)
(* The ban ledger and the tier assignment (judged-core/src/ledger.rs).     *)
(*                                                                         *)
(* A ledger is the sequence of evidence in the order it arrived: MAX       *)
(* within a family, SUM across families, then a walk down the tiers.       *)
(* Bans are hundredths (the code's f64 0.5 is 50), so sums are exact here. *)
(* Of the criteria the model keeps name and outcome.                       *)
(***************************************************************************)
EXTENDS Integers, SequencesExt, Subsequences

CONSTANTS
  Rows,            \* the pieces of evidence that may be recorded
  MaxEvidence      \* bound on the length of a ledger

Families == {"B", "R", "X", "H"}

Evidence ==
  [family : Families, bans : Int, execution_successful : BOOLEAN,
   positive_control_passed : BOOLEAN, expired : BOOLEAN]

ASSUME LedgerAssumption == Rows \subseteq Evidence /\ MaxEvidence \in Nat

VARIABLE evidence

ACCUSE_FLOOR == 50
TIER0_BANS == 395
TIER1_BANS == 265
CapOfH == 60

(* Mutant: history may accuse like every other family.                     *)
EveryFamilyAccuses(family) == TRUE

may_accuse(family) == family # "H"

(* Mutant: the expiry of an artifact is not looked at.                     *)
HealthyWhenMade(e) == e.execution_successful /\ e.positive_control_passed

healthy(e) ==
  e.execution_successful /\ e.positive_control_passed /\ ~ e.expired

healthy_rows(ev, family) ==
  {n \in DOMAIN ev : ev[n].family = family /\ healthy(ev[n])}

(* fold(None, ...) over the bans of the rows, in order of arrival.  An     *)
(* Option is the set of its value.                                         *)
stronger(largest, a, b) == IF largest THEN a > b ELSE a < b

fold(largest, ev, rows) ==
  LET best[n \in 0 .. Len(ev)] ==
        IF n = 0 THEN {}
        ELSE IF n \in rows /\ \A b \in best[n - 1] : stronger(largest, ev[n].bans, b)
          THEN {ev[n].bans}
        ELSE best[n - 1]
  IN  best[Len(ev)]

unwrap_or_zero(option) == IF option = {} THEN 0 ELSE CHOOSE b \in option : TRUE

(* Mutant: the quorum reads the rows whatever their health.                *)
MaxOfAllRows(ev, family) ==
  fold(TRUE, ev, {n \in DOMAIN ev : ev[n].family = family /\ ev[n].bans > 0})

family_max(ev, family) ==
  fold(TRUE, ev, {n \in healthy_rows(ev, family) : ev[n].bans > 0})

accuses(ev, family) ==
  /\ may_accuse(family)
  /\ \E max \in family_max(ev, family) : max >= ACCUSE_FLOOR

accusing(ev) == {family \in Families : accuses(ev, family)}

(* Mutant: one slot, max for positive and min for negative bans.           *)
OneSlot(ev, family) ==
  LET slot[n \in 0 .. Len(ev)] ==
        IF n = 0 THEN 0
        ELSE IF n \notin healthy_rows(ev, family) THEN slot[n - 1]
        ELSE IF ev[n].bans > 0 THEN Max({slot[n - 1], ev[n].bans})
        ELSE Min({slot[n - 1], ev[n].bans})
  IN  slot[Len(ev)]

(* H only subtracts, at most its cap: its positive rows are ignored.       *)
family_contribution(ev, family) ==
  LET rows == healthy_rows(ev, family)
      best == IF may_accuse(family) THEN fold(TRUE, ev, rows)
              ELSE fold(FALSE, ev, {n \in rows : ev[n].bans < 0})
      contribution == unwrap_or_zero(best)
  IN  IF may_accuse(family) \/ contribution >= - CapOfH THEN contribution
      ELSE - CapOfH

total_bans(ev) ==
  family_contribution(ev, "B") + family_contribution(ev, "R")
    + family_contribution(ev, "X") + family_contribution(ev, "H")

-----------------------------------------------------------------------------
(* Tiers.                                                                  *)

Outcomes == {"Satisfied", "Failed", "NotEvaluable"}

GateState == [gates_0_to_2 : Outcomes, gate_3f : Outcomes]

(* Mutant: nobody said it failed.                                          *)
DidNotFail(outcome) == outcome # "Failed"

holds(outcome) == outcome = "Satisfied"

(* The criteria that nothing in this build computes.                       *)
NOT_EVALUABLE ==
  {"all six Gate-3 conjuncts", "zero ABSTAINs from a LOAD-BEARING family",
   "scanned_universe_ratio", "ladder_rung", "deadness invariant for N runs",
   "per-run rate limit", "no has_external_effector", "not is_distributable"}

Criteria(quorum, gates) ==
  { [name |-> "gates 0-2 pass", outcome |-> gates.gates_0_to_2],
    [name |-> "3f never waivable", outcome |-> gates.gate_3f],
    [name |-> "quorum", outcome |-> IF quorum THEN "Satisfied" ELSE "Failed"] }
  \cup {[name |-> name, outcome |-> "NotEvaluable"] : name \in NOT_EVALUABLE}

(* Mutant: only what was checked and failed is named.                      *)
FailedCriteria(criteria) == {c \in criteria : c.outcome = "Failed"}

blockers(criteria) == {c \in criteria : ~ holds(c.outcome)}

(* Read top down: the first tier whose criteria all hold.                  *)
TierOf(criteria, total, gates) ==
  IF blockers(criteria) = {} /\ total >= TIER0_BANS THEN "Zero"
  ELSE IF blockers(criteria) = {} /\ total >= TIER1_BANS THEN "One"
  ELSE IF holds(gates.gates_0_to_2) THEN "Two"
  ELSE "Three"

assign(ev, gates) ==
  LET criteria == Criteria(Cardinality(accusing(ev)) >= 2, gates) IN
  [tier |-> TierOf(criteria, total_bans(ev), gates), criteria |-> criteria,
   total_bans |-> total_bans(ev), accusing |-> accusing(ev)]

-----------------------------------------------------------------------------
(* Mutant: the strength of a row without its sign.                         *)
RecordMagnitude(e) ==
  /\ Len(evidence) < MaxEvidence
  /\ evidence' = Append(evidence, [e EXCEPT !.bans = Max({e.bans, - e.bans})])

record(e) ==
  /\ Len(evidence) < MaxEvidence
  /\ evidence' = Append(evidence, e)

Init == evidence = <<>>

Next == \E e \in Rows : record(e)

Spec == Init /\ [][Next]_evidence

-----------------------------------------------------------------------------
(* Properties.                                                             *)

TypeOK == evidence \in Seq(Rows)

(* What the evidence says does not depend on the order it arrived in, nor  *)
(* on how often a row was repeated: the folds compute the strongest        *)
(* statement of the SET of healthy rows of each family (the defect that    *)
(* the comment of family_contribution reports).                            *)
StrongestOf(family) ==
  LET bans == {e.bans : e \in {e \in Range(evidence) :
                                 e.family = family /\ healthy(e)}}
  IN  IF family = "H" THEN Max({- CapOfH, Min(bans \cup {0})})
      ELSE IF bans = {} THEN 0 ELSE Max(bans)

OrderDoesNotMatter ==
  \A family \in Families :
     family_contribution(evidence, family) = StrongestOf(family)

(* A family that accuses carries its accusation into the total: the quorum *)
(* and the bans are about the same rows, so no quorum stands on rows that  *)
(* the total left out as unhealthy.                                        *)
AccusersAreInTheTotal ==
  \A family \in accusing(evidence) :
     /\ family_max(evidence, family) = {family_contribution(evidence, family)}
     /\ family_contribution(evidence, family) >= ACCUSE_FLOOR

(* An artifact that cannot vouch for itself is recorded and changes        *)
(* nothing: no total, no accuser, no criterion, no tier.                   *)
UnhealthyIsInert ==
  [][\A gates \in GateState :
       LET e == Last(evidence') IN
       (~ e.execution_successful \/ ~ e.positive_control_passed \/ e.expired)
         => assign(evidence', gates) = assign(evidence, gates)]_evidence

(* Family H can lower the total, by no more than its cap however much of   *)
(* it there is, and can neither raise the total nor touch the quorum.      *)
HistoryOnlySubtracts ==
  LET rest == Picked(evidence, {n \in DOMAIN evidence : evidence[n].family # "H"}) IN
  /\ total_bans(evidence) <= total_bans(rest)
  /\ total_bans(evidence) >= total_bans(rest) - CapOfH
  /\ accusing(evidence) = accusing(rest)

(* Worse news about a gate, or none at all, never improves the tier; and a *)
(* gate nobody evaluated demotes exactly as a failed one (Outcome).        *)
Demoted(gates, outcome) ==
  {[gates EXCEPT !.gates_0_to_2 = outcome], [gates EXCEPT !.gate_3f = outcome],
   [gates_0_to_2 |-> outcome, gate_3f |-> outcome]}

Rank(tier) == CASE tier = "Zero" -> 0 [] tier = "One" -> 1
                [] tier = "Two" -> 2 [] tier = "Three" -> 3

UnevaluatedDemotesLikeFailed ==
  \A gates \in GateState :
     /\ \A worse \in Demoted(gates, "NotEvaluable") :
           Rank(assign(evidence, worse).tier) >= Rank(assign(evidence, gates).tier)
     /\ LET failed == [g \in {"gates_0_to_2", "gate_3f"} |->
                         IF gates[g] = "NotEvaluable" THEN "Failed" ELSE gates[g]]
        IN  assign(evidence, failed).tier = assign(evidence, gates).tier

(* No candidate can reach Tier 0 or Tier 1 in this build, whatever its     *)
(* bans and its gates; Tier 2 takes gates 0-2 that were run and passed; and *)
(* an assignment always names the criteria that keep it there.             *)
CappedAtTier2 ==
  \A gates \in GateState :
     LET a == assign(evidence, gates) IN
     /\ a.tier \in {"Two", "Three"}
     /\ a.tier = "Two" <=> gates.gates_0_to_2 = "Satisfied"
     /\ NOT_EVALUABLE \subseteq {c.name : c \in blockers(a.criteria)}
=============================================================================
