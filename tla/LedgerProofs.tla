----------------------------- MODULE LedgerProofs -----------------------------
(***************************************************************************)
(* Proofs about the folds and the tier assignment, for every set of rows   *)
(* and every ledger.                                                       *)
(***************************************************************************)
EXTENDS Ledger, RecursionFacts, TLAPS

(* The tier of an assignment is a function of the outcome of gates 0-2     *)
(* alone: in this build a criterion that nothing computes always blocks.   *)
LEMMA TierOfAssignment ==
  ASSUME NEW ev, NEW gates \in GateState
  PROVE  /\ assign(ev, gates).tier = IF gates.gates_0_to_2 = "Satisfied"
                                     THEN "Two" ELSE "Three"
         /\ NOT_EVALUABLE
              \subseteq {c.name : c \in blockers(assign(ev, gates).criteria)}
<1> DEFINE quorum == Cardinality(accusing(ev)) >= 2
           criteria == Criteria(quorum, gates)
           unknown(name) == [name |-> name, outcome |-> "NotEvaluable"]
<1>1. \A name \in NOT_EVALUABLE : unknown(name) \in criteria
  BY DEF Criteria
<1>2. \A name \in NOT_EVALUABLE : unknown(name) \in blockers(criteria)
  BY <1>1 DEF blockers, holds
<1>3. blockers(criteria) # {}
  BY <1>2 DEF NOT_EVALUABLE
<1>4. /\ assign(ev, gates).criteria = criteria
      /\ assign(ev, gates).tier = TierOf(criteria, total_bans(ev), gates)
  BY DEF assign
<1>5. NOT_EVALUABLE \subseteq {c.name : c \in blockers(criteria)}
  <2> SUFFICES ASSUME NEW name \in NOT_EVALUABLE
               PROVE  \E c \in blockers(criteria) : c.name = name
    OBVIOUS
  <2>1. unknown(name).name = name
    OBVIOUS
  <2> QED
    BY <1>2, <2>1
<1> HIDE DEF criteria
<1> QED
  BY <1>3, <1>4, <1>5 DEF TierOf, holds

(* Nothing a ledger or a caller can say lifts a candidate above Tier 2, and *)
(* every assignment names what keeps it there (CappedAtTier2).             *)
THEOREM Capped == Spec => []CappedAtTier2
<1>1. CappedAtTier2
  BY TierOfAssignment DEF CappedAtTier2
<1> QED
  BY <1>1, PTL

(* A gate that was not run demotes exactly as one that refused             *)
(* (UnevaluatedDemotesLikeFailed).                                         *)
THEOREM DemotedAlike == Spec => []UnevaluatedDemotesLikeFailed
<1>1. UnevaluatedDemotesLikeFailed
  <2> SUFFICES ASSUME NEW gates \in GateState
               PROVE  /\ \A worse \in Demoted(gates, "NotEvaluable") :
                           Rank(assign(evidence, worse).tier)
                             >= Rank(assign(evidence, gates).tier)
                      /\ LET failed == [g \in {"gates_0_to_2", "gate_3f"} |->
                               IF gates[g] = "NotEvaluable" THEN "Failed"
                               ELSE gates[g]]
                         IN  assign(evidence, failed).tier
                               = assign(evidence, gates).tier
    BY DEF UnevaluatedDemotesLikeFailed
  <2> DEFINE failed == [g \in {"gates_0_to_2", "gate_3f"} |->
                          IF gates[g] = "NotEvaluable" THEN "Failed"
                          ELSE gates[g]]
  <2>1. ASSUME NEW worse \in Demoted(gates, "NotEvaluable")
        PROVE  Rank(assign(evidence, worse).tier)
                 >= Rank(assign(evidence, gates).tier)
    <3>1. /\ worse \in GateState
          /\ worse.gates_0_to_2 = "Satisfied" => gates.gates_0_to_2 = "Satisfied"
      BY <2>1 DEF Demoted, GateState, Outcomes
    <3> QED
      BY <3>1, TierOfAssignment DEF Rank
  <2>2. /\ failed \in GateState
        /\ failed.gates_0_to_2 = "Satisfied" <=> gates.gates_0_to_2 = "Satisfied"
    BY DEF GateState, Outcomes
  <2>3. assign(evidence, failed).tier = assign(evidence, gates).tier
    <3> HIDE DEF failed
    <3> QED
      BY <2>2, TierOfAssignment
  <2> QED
    BY <2>1, <2>3
<1> QED
  BY <1>1, PTL
-----------------------------------------------------------------------------
(* option holds the strongest of the numbers B, or nothing.                *)
Strongest(option, largest, B) ==
  \/ B = {} /\ option = {}
  \/ \E m \in B : option = {m} /\ \A c \in B : ~ stronger(largest, c, m)

BansOf(ev, rows) == {ev[n].bans : n \in rows}

LEMMA StrongestOfMore ==
  ASSUME NEW largest \in BOOLEAN, NEW B, B \subseteq Int, NEW option, NEW x \in Int,
         Strongest(option, largest, B)
  PROVE  Strongest(IF \A b \in option : stronger(largest, x, b) THEN {x} ELSE option,
                   largest, B \cup {x})
<1>1. CASE B = {} /\ option = {}
  BY <1>1 DEF Strongest, stronger
<1>2. ASSUME NEW m \in B, option = {m}, \A c \in B : ~ stronger(largest, c, m)
      PROVE  Strongest(IF \A b \in option : stronger(largest, x, b) THEN {x} ELSE option,
                       largest, B \cup {x})
  <2>1. CASE stronger(largest, x, m)
    <3>1. \A c \in B \cup {x} : ~ stronger(largest, c, x)
      BY <1>2, <2>1 DEF stronger
    <3> QED
      BY <1>2, <2>1, <3>1 DEF Strongest
  <2>2. CASE ~ stronger(largest, x, m)
    <3>1. \A c \in B \cup {x} : ~ stronger(largest, c, m)
      BY <1>2, <2>2
    <3> QED
      BY <1>2, <2>2, <3>1 DEF Strongest
  <2> QED
    BY <2>1, <2>2
<1> QED
  BY <1>1, <1>2 DEF Strongest

(* The fold computes the strongest ban of its rows: the order in which     *)
(* they arrived plays no part.                                             *)
LEMMA FoldIsStrongest ==
  ASSUME NEW largest \in BOOLEAN, NEW ev \in Seq(Evidence),
         NEW rows, rows \subseteq DOMAIN ev
  PROVE  Strongest(fold(largest, ev, rows), largest, BansOf(ev, rows))
<1> DEFINE N == Len(ev)
           Options == SUBSET Int
           none == {}
           step(n, o) ==
             IF n \in rows /\ \A b \in o : stronger(largest, ev[n].bans, b)
               THEN {ev[n].bans} ELSE o
           G == [n \in 1 .. N |-> [o \in Options |-> step(n, o)]]
           Is(f) == f = [n \in 0 .. N |-> IF n = 0 THEN none ELSE step(n, f[n - 1])]
           best == CHOOSE f : Is(f)
           T == {n \in 0 .. N :
                   Strongest(best[n], largest, BansOf(ev, rows \cap (1 .. n)))}
<1>1. N \in Nat /\ none \in Options /\ rows \subseteq 1 .. N
  OBVIOUS
<1>2. fold(largest, ev, rows) = best[N]
  BY DEF fold
<1>3. ASSUME NEW n \in 1 .. N
      PROVE  ev[n].bans \in Int
  <2>1. ev[n] \in Evidence
    OBVIOUS
  <2> QED
    BY <2>1 DEF Evidence
<1>4. \A n \in 1 .. N, o \in Options : step(n, o) \in Options
  BY <1>3
<1>5. best[0] = none /\ \A n \in 1 .. N : best[n] = step(n, best[n - 1])
  <2> HIDE DEF N, Options, none, step
  <2>1. PICK f : Solves(f, N, Options, none, G)
    <3>1. G \in [1 .. N -> [Options -> Options]]
      BY <1>4
    <3> HIDE DEF G
    <3> QED
      BY <1>1, <3>1, Recursion
  <2>2. Is(f)
    BY <1>1, <2>1, Steps DEF Solves
  <2>3. Is(best)
    <3> HIDE DEF Is
    <3> QED
      BY <2>2
  <2> HIDE DEF best
  <2> QED
    BY <1>1, <2>3, Steps
<1> HIDE DEF best
<1>6. 0 \in T
  BY <1>1, <1>5 DEF Strongest, BansOf
<1>7. ASSUME NEW n \in 0 .. N - 1, n \in T
      PROVE  n + 1 \in T
  <2> DEFINE B == BansOf(ev, rows \cap (1 .. n))
             x == ev[n + 1].bans
  <2>1. n + 1 \in 1 .. N /\ n + 1 \in 0 .. N /\ (n + 1) - 1 = n
    BY <1>1
  <2>2. B \subseteq Int /\ x \in Int
    BY <1>1, <1>3, <2>1 DEF BansOf
  <2>3. best[n + 1] = step(n + 1, best[n])
    BY <1>5, <2>1
  <2>4. Strongest(best[n], largest, B)
    BY <1>7
  <2>5. CASE n + 1 \in rows
    <3>1. BansOf(ev, rows \cap (1 .. n + 1)) = B \cup {x}
      <4>1. rows \cap (1 .. n + 1) = (rows \cap (1 .. n)) \cup {n + 1}
        BY <1>1, <2>1, <2>5
      <4> QED
        BY <4>1 DEF BansOf
    <3>2. best[n + 1] = IF \A b \in best[n] : stronger(largest, x, b)
                        THEN {x} ELSE best[n]
      BY <2>3, <2>5
    <3> HIDE DEF B, x
    <3>3. Strongest(best[n + 1], largest, B \cup {x})
      BY <2>2, <2>4, <3>2, StrongestOfMore
    <3> QED
      BY <2>1, <3>1, <3>3
  <2>6. CASE n + 1 \notin rows
    <3>1. rows \cap (1 .. n + 1) = rows \cap (1 .. n)
      BY <1>1, <2>1, <2>6
    <3>2. best[n + 1] = best[n]
      BY <2>3, <2>6
    <3> QED
      BY <2>1, <2>4, <3>1, <3>2
  <2> QED
    BY <2>5, <2>6
<1>8. N \in T
  <2>1. \A n \in 0 .. N - 1 : n \in T => n + 1 \in T
    BY <1>7
  <2> HIDE DEF T, N
  <2>2. \A n \in 0 .. N : n \in T
    BY <1>1, <1>6, <2>1, Upwards
  <2> QED
    BY <1>1, <2>2, Steps
<1>9. rows \cap (1 .. N) = rows
  BY <1>1
<1> QED
  BY <1>2, <1>8, <1>9
(* There is one strongest number.                                          *)
LEMMA StrongestIsOne ==
  ASSUME NEW largest \in BOOLEAN, NEW B, B \subseteq Int, NEW o, NEW p,
         Strongest(o, largest, B), Strongest(p, largest, B)
  PROVE  o = p
  BY DEF Strongest, stronger

LEMMA Unwrapped ==
  ASSUME NEW largest, NEW B, NEW o, Strongest(o, largest, B)
  PROVE  IF B = {} THEN unwrap_or_zero(o) = 0 ELSE unwrap_or_zero(o) \in B
<1>1. CASE B = {} /\ o = {}
  BY <1>1 DEF unwrap_or_zero
<1>2. ASSUME NEW m \in B, o = {m}
      PROVE  unwrap_or_zero(o) \in B
  BY <1>2 DEF unwrap_or_zero
<1> QED
  BY <1>1, <1>2 DEF Strongest

LEMMA BansAreNumbers ==
  ASSUME NEW ev \in Seq(Evidence), NEW rows, rows \subseteq DOMAIN ev
  PROVE  BansOf(ev, rows) \subseteq Int
<1> SUFFICES ASSUME NEW n \in rows PROVE ev[n].bans \in Int
  BY DEF BansOf
<1>1. ev[n] \in Evidence
  OBVIOUS
<1> QED
  BY <1>1 DEF Evidence

(* The healthy bans of a family, as a set.                                 *)
HealthyBans(ev, family) == BansOf(ev, healthy_rows(ev, family))

(* What a family says of a ledger, from its set of healthy bans.           *)
LEMMA FamilyMax ==
  ASSUME NEW ev \in Seq(Evidence), NEW family
  PROVE  Strongest(family_max(ev, family), TRUE,
                   {b \in HealthyBans(ev, family) : b > 0})
<1> DEFINE rows == {n \in healthy_rows(ev, family) : ev[n].bans > 0}
<1>1. rows \subseteq DOMAIN ev
  BY DEF healthy_rows
<1>2. BansOf(ev, rows) = {b \in HealthyBans(ev, family) : b > 0}
  BY DEF BansOf, HealthyBans
<1>3. family_max(ev, family) = fold(TRUE, ev, rows)
  BY DEF family_max
<1> HIDE DEF rows
<1> QED
  BY <1>1, <1>2, <1>3, FoldIsStrongest

LEMMA Contribution ==
  ASSUME NEW ev \in Seq(Evidence), NEW family
  PROVE  \E option :
           /\ IF may_accuse(family)
                THEN Strongest(option, TRUE, HealthyBans(ev, family))
                ELSE Strongest(option, FALSE,
                               {b \in HealthyBans(ev, family) : b < 0})
           /\ family_contribution(ev, family) =
                IF may_accuse(family) \/ unwrap_or_zero(option) >= - CapOfH
                THEN unwrap_or_zero(option) ELSE - CapOfH
<1> DEFINE rows == healthy_rows(ev, family)
           negative == {n \in rows : ev[n].bans < 0}
<1>1. rows \subseteq DOMAIN ev /\ negative \subseteq DOMAIN ev
  BY DEF healthy_rows
<1>2. /\ BansOf(ev, rows) = HealthyBans(ev, family)
      /\ BansOf(ev, negative) = {b \in HealthyBans(ev, family) : b < 0}
  BY DEF BansOf, HealthyBans
<1>3. /\ Strongest(fold(TRUE, ev, rows), TRUE, BansOf(ev, rows))
      /\ Strongest(fold(FALSE, ev, negative), FALSE, BansOf(ev, negative))
  <2> HIDE DEF rows, negative
  <2> QED
    BY <1>1, FoldIsStrongest
<1> QED
  BY <1>2, <1>3 DEF family_contribution

LEMMA SameBansSameSay ==
  ASSUME NEW ev \in Seq(Evidence), NEW other \in Seq(Evidence), NEW family,
         HealthyBans(ev, family) = HealthyBans(other, family)
  PROVE  /\ family_max(ev, family) = family_max(other, family)
         /\ family_contribution(ev, family) = family_contribution(other, family)
<1> DEFINE B == HealthyBans(ev, family)
<1>1. B \subseteq Int
  BY BansAreNumbers DEF HealthyBans, healthy_rows
<1>2. family_max(ev, family) = family_max(other, family)
  <2>1. {b \in B : b > 0} \subseteq Int
    BY <1>1
  <2> HIDE DEF B
  <2> QED
    BY <2>1, FamilyMax, StrongestIsOne DEF B
<1>3. PICK o :
           /\ IF may_accuse(family) THEN Strongest(o, TRUE, B)
              ELSE Strongest(o, FALSE, {b \in B : b < 0})
           /\ family_contribution(ev, family) =
                IF may_accuse(family) \/ unwrap_or_zero(o) >= - CapOfH
                THEN unwrap_or_zero(o) ELSE - CapOfH
  BY Contribution
<1>4. PICK p :
           /\ IF may_accuse(family) THEN Strongest(p, TRUE, B)
              ELSE Strongest(p, FALSE, {b \in B : b < 0})
           /\ family_contribution(other, family) =
                IF may_accuse(family) \/ unwrap_or_zero(p) >= - CapOfH
                THEN unwrap_or_zero(p) ELSE - CapOfH
  BY Contribution
<1>5. o = p
  <2>1. {b \in B : b < 0} \subseteq Int
    BY <1>1
  <2> HIDE DEF B
  <2> QED
    BY <1>1, <1>3, <1>4, <2>1, StrongestIsOne
<1> QED
  BY <1>2, <1>3, <1>4, <1>5

-----------------------------------------------------------------------------
(* Only rows that may be recorded are in the ledger (TypeOK).              *)
LEMMA TypeCorrect == Spec => []TypeOK
<1>1. Init => TypeOK
  BY DEF Init, TypeOK
<1>2. TypeOK /\ [Next]_evidence => TypeOK'
  BY DEF TypeOK, Next, record
<1> QED
  BY <1>1, <1>2, PTL DEF Spec

LEMMA Evident == TypeOK => evidence \in Seq(Evidence)
  BY LedgerAssumption DEF TypeOK

(* Whatever was recorded and in whatever order, a family contributes the   *)
(* strongest statement of the set of its healthy rows (OrderDoesNotMatter).*)
THEOREM Ordered == Spec => []OrderDoesNotMatter
<1>1. TypeOK => OrderDoesNotMatter
  <2> SUFFICES ASSUME TypeOK, NEW family \in Families
               PROVE  family_contribution(evidence, family) = StrongestOf(family)
    BY DEF OrderDoesNotMatter
  <2> DEFINE B == HealthyBans(evidence, family)
  <2>1. evidence \in Seq(Evidence)
    BY Evident
  <2>2. B = {e.bans : e \in {e \in Range(evidence) :
                                e.family = family /\ healthy(e)}}
    BY DEF HealthyBans, BansOf, healthy_rows, Range
  <2>3. B \subseteq Int
    BY <2>1, BansAreNumbers DEF HealthyBans, healthy_rows
  <2>4. PICK o :
           /\ IF may_accuse(family) THEN Strongest(o, TRUE, B)
              ELSE Strongest(o, FALSE, {b \in B : b < 0})
           /\ family_contribution(evidence, family) =
                IF may_accuse(family) \/ unwrap_or_zero(o) >= - CapOfH
                THEN unwrap_or_zero(o) ELSE - CapOfH
    BY <2>1, Contribution
  <2>5. StrongestOf(family) =
          IF family = "H" THEN Max({- CapOfH, Min(B \cup {0})})
          ELSE IF B = {} THEN 0 ELSE Max(B)
    BY <2>2 DEF StrongestOf
  <2> HIDE DEF B
  <2>6. CASE family # "H"
    <3>1. Strongest(o, TRUE, B)
      BY <2>4, <2>6 DEF may_accuse
    <3>2. CASE B = {}
      BY <2>4, <2>5, <2>6, <3>1, <3>2 DEF may_accuse, Strongest, unwrap_or_zero
    <3>3. CASE B # {}
      <4>1. PICK m \in B : o = {m} /\ \A c \in B : ~ stronger(TRUE, c, m)
        BY <3>1, <3>3 DEF Strongest
      <4>2. Max(B) = m
        <5>1. \A c \in B : c <= m
          BY <2>3, <4>1 DEF stronger
        <5> QED
          BY <2>3, <5>1, MaxIs
      <4>3. unwrap_or_zero(o) = m
        BY <4>1 DEF unwrap_or_zero
      <4> QED
        BY <2>4, <2>5, <2>6, <3>3, <4>2, <4>3 DEF may_accuse
    <3> QED
      BY <3>2, <3>3
  <2>7. CASE family = "H"
    <3>1. Strongest(o, FALSE, {b \in B : b < 0})
      BY <2>4, <2>7 DEF may_accuse
    <3> DEFINE m == unwrap_or_zero(o)
    <3>2. m \in B \cup {0} /\ \A c \in B \cup {0} : m <= c
      <4>1. CASE {b \in B : b < 0} = {} /\ o = {}
        BY <2>3, <4>1 DEF unwrap_or_zero
      <4>2. CASE \E n \in {b \in B : b < 0} :
                   /\ o = {n}
                   /\ \A c \in {b \in B : b < 0} : ~ stronger(FALSE, c, n)
        BY <2>3, <4>2 DEF unwrap_or_zero, stronger
      <4> QED
        BY <3>1, <4>1, <4>2 DEF Strongest
    <3> HIDE DEF m
    <3>3. m \in Int
      BY <2>3, <3>2
    <3>4. Min(B \cup {0}) = m
      <4>1. B \cup {0} \subseteq Int
        BY <2>3
      <4> DEFINE S == B \cup {0}
      <4> HIDE DEF S
      <4>2. Min(S) = m
        BY <3>2, <4>1, MinIs DEF S
      <4> QED
        BY <4>2 DEF S
    <3>5. Max({- CapOfH, m}) = IF m >= - CapOfH THEN m ELSE - CapOfH
      BY <3>3 DEF Max, CapOfH
    <3> QED
      BY <2>4, <2>5, <2>7, <3>4, <3>5 DEF may_accuse, m
  <2> QED
    BY <2>6, <2>7
<1> QED
  BY <1>1, TypeCorrect, PTL
(* A family that accuses carries its accusation into the total             *)
(* (AccusersAreInTheTotal).                                                *)
THEOREM Accusers == Spec => []AccusersAreInTheTotal
<1>1. TypeOK => AccusersAreInTheTotal
  <2> SUFFICES ASSUME TypeOK, NEW family \in accusing(evidence)
               PROVE  /\ family_max(evidence, family)
                           = {family_contribution(evidence, family)}
                      /\ family_contribution(evidence, family) >= ACCUSE_FLOOR
    BY DEF AccusersAreInTheTotal
  <2> DEFINE B == HealthyBans(evidence, family)
             P == {b \in B : b > 0}
  <2>1. evidence \in Seq(Evidence)
    BY Evident
  <2>2. B \subseteq Int
    BY <2>1, BansAreNumbers DEF HealthyBans, healthy_rows
  <2>3. may_accuse(family)
    BY DEF accusing, accuses
  <2>4. PICK max \in family_max(evidence, family) : max >= ACCUSE_FLOOR
    BY DEF accusing, accuses
  <2>5. Strongest(family_max(evidence, family), TRUE, P)
    BY <2>1, FamilyMax
  <2>6. PICK o : /\ Strongest(o, TRUE, B)
                 /\ family_contribution(evidence, family) = unwrap_or_zero(o)
    BY <2>1, <2>3, Contribution
  <2> HIDE DEF B
  <2>7. /\ max \in P /\ family_max(evidence, family) = {max}
        /\ \A c \in P : ~ stronger(TRUE, c, max)
    BY <2>4, <2>5 DEF Strongest
  <2>8. PICK m \in B : o = {m} /\ \A c \in B : ~ stronger(TRUE, c, m)
    BY <2>6, <2>7 DEF Strongest
  <2>9. m = max
    BY <2>2, <2>4, <2>7, <2>8 DEF stronger, ACCUSE_FLOOR
  <2>10. unwrap_or_zero(o) = m
    BY <2>8 DEF unwrap_or_zero
  <2> QED
    BY <2>4, <2>6, <2>7, <2>9, <2>10
<1> QED
  BY <1>1, TypeCorrect, PTL

(* A row that cannot vouch for itself changes no assignment                *)
(* (UnhealthyIsInert).                                                     *)
THEOREM Inert == Spec => UnhealthyIsInert
<1> DEFINE OnStep ==
  \A gates \in GateState :
    LET e == Last(evidence') IN
    (~ e.execution_successful \/ ~ e.positive_control_passed \/ e.expired)
      => assign(evidence', gates) = assign(evidence, gates)
<1>1. TypeOK /\ [Next]_evidence => [OnStep]_evidence
  <2> SUFFICES ASSUME TypeOK, Next PROVE OnStep
    OBVIOUS
  <2>1. PICK e \in Rows : evidence' = Append(evidence, e)
    BY DEF Next, record
  <2>2. evidence \in Seq(Evidence) /\ e \in Evidence /\ evidence' \in Seq(Evidence)
    BY <2>1, Evident, LedgerAssumption
  <2>3. Last(evidence') = e
    BY <2>1, <2>2 DEF Last
  <2> SUFFICES ASSUME NEW gates \in GateState, ~ healthy(e)
               PROVE  assign(evidence', gates) = assign(evidence, gates)
    BY <2>3 DEF healthy
  <2>4. ASSUME NEW family
        PROVE  HealthyBans(evidence', family) = HealthyBans(evidence, family)
    <3>1. healthy_rows(evidence', family) = healthy_rows(evidence, family)
      BY <2>1, <2>2 DEF healthy_rows
    <3>2. \A n \in healthy_rows(evidence, family) : evidence'[n] = evidence[n]
      BY <2>1, <2>2 DEF healthy_rows
    <3> QED
      BY <3>1, <3>2 DEF HealthyBans, BansOf
  <2>5. ASSUME NEW family
        PROVE  /\ family_max(evidence', family) = family_max(evidence, family)
               /\ family_contribution(evidence', family)
                    = family_contribution(evidence, family)
    BY <2>2, <2>4, SameBansSameSay
  <2>6. accusing(evidence') = accusing(evidence)
    BY <2>5 DEF accusing, accuses
  <2>7. total_bans(evidence') = total_bans(evidence)
    BY <2>5 DEF total_bans
  <2> QED
    BY <2>6, <2>7 DEF assign
<1> QED
  BY <1>1, TypeCorrect, PTL DEF Spec, UnhealthyIsInert

(* The rows of a ledger without those of family H.                         *)
LEMMA WithoutHistory ==
  ASSUME NEW ev \in Seq(Evidence), NEW rest,
         rest = Picked(ev, {n \in DOMAIN ev : ev[n].family # "H"})
  PROVE  /\ rest \in Seq(Evidence)
         /\ HealthyBans(rest, "H") = {}
         /\ \A family : family # "H" =>
              HealthyBans(rest, family) = HealthyBans(ev, family)
<1> DEFINE P == {n \in DOMAIN ev : ev[n].family # "H"}
<1>1. rest \in Seq(Evidence) /\ \E place : Places(place, rest, ev, P, Len(ev))
  <2> HIDE DEF P
  <2>1. rest = Picked(ev, P)
    BY DEF P
  <2> QED
    BY <2>1, PickedPlaces
<1>2. PICK place : Places(place, rest, ev, P, Len(ev))
  BY <1>1
<1>3. DOMAIN rest = 1 .. Len(rest) /\ DOMAIN ev = 1 .. Len(ev)
  BY <1>1
<1>4. \A j \in DOMAIN rest : place[j] \in P /\ rest[j] = ev[place[j]]
  BY <1>2, <1>3 DEF Places
<1>5. \A n \in P : \E j \in DOMAIN rest : place[j] = n
  BY <1>2, <1>3 DEF Places
<1>6. HealthyBans(rest, "H") = {}
  BY <1>4 DEF HealthyBans, BansOf, healthy_rows
<1>7. ASSUME NEW family, family # "H"
      PROVE  HealthyBans(rest, family) = HealthyBans(ev, family)
  <2>1. ASSUME NEW j \in healthy_rows(rest, family)
        PROVE  place[j] \in healthy_rows(ev, family) /\ rest[j] = ev[place[j]]
    BY <1>4 DEF healthy_rows
  <2>2. ASSUME NEW n \in healthy_rows(ev, family)
        PROVE  \E j \in healthy_rows(rest, family) : rest[j] = ev[n]
    <3>1. n \in P
      BY <1>7 DEF healthy_rows
    <3>2. PICK j \in DOMAIN rest : place[j] = n
      BY <1>5, <3>1
    <3> QED
      BY <1>4, <3>2 DEF healthy_rows
  <2>3. HealthyBans(rest, family) \subseteq HealthyBans(ev, family)
    BY <2>1 DEF HealthyBans, BansOf
  <2>4. HealthyBans(ev, family) \subseteq HealthyBans(rest, family)
    <3> SUFFICES ASSUME NEW b \in HealthyBans(ev, family)
                 PROVE  b \in HealthyBans(rest, family)
      OBVIOUS
    <3>1. PICK n \in healthy_rows(ev, family) : b = ev[n].bans
      BY DEF HealthyBans, BansOf
    <3> QED
      BY <2>2, <3>1 DEF HealthyBans, BansOf
  <2> QED
    BY <2>3, <2>4
<1> QED
  BY <1>1, <1>6, <1>7

(* History lowers the total by no more than its cap, never raises it and   *)
(* never touches the quorum, however much of it there is                   *)
(* (HistoryOnlySubtracts).                                                 *)
THEOREM Subtracts == Spec => []HistoryOnlySubtracts
<1>1. TypeOK => HistoryOnlySubtracts
  <2> SUFFICES ASSUME TypeOK PROVE HistoryOnlySubtracts
    OBVIOUS
  <2> DEFINE rest == Picked(evidence, {n \in DOMAIN evidence : evidence[n].family # "H"})
  <2>1. evidence \in Seq(Evidence)
    BY Evident
  <2>2. /\ rest \in Seq(Evidence)
        /\ HealthyBans(rest, "H") = {}
        /\ \A family : family # "H" =>
             HealthyBans(rest, family) = HealthyBans(evidence, family)
    BY <2>1, WithoutHistory
  <2> HIDE DEF rest
  <2>3. ASSUME NEW family, family # "H"
        PROVE  /\ family_max(evidence, family) = family_max(rest, family)
               /\ family_contribution(evidence, family)
                    = family_contribution(rest, family)
    BY <2>1, <2>2, <2>3, SameBansSameSay
  <2>4. accusing(evidence) = accusing(rest)
    BY <2>3 DEF accusing, accuses, may_accuse
  <2>5. /\ family_contribution(evidence, "H") <= 0
        /\ family_contribution(evidence, "H") >= - CapOfH
        /\ family_contribution(evidence, "H") \in Int
    <3> DEFINE N == {b \in HealthyBans(evidence, "H") : b < 0}
    <3>1. HealthyBans(evidence, "H") \subseteq Int
      BY <2>1, BansAreNumbers DEF HealthyBans, healthy_rows
    <3>2. PICK o : /\ Strongest(o, FALSE, N)
                   /\ family_contribution(evidence, "H") =
                        IF unwrap_or_zero(o) >= - CapOfH
                        THEN unwrap_or_zero(o) ELSE - CapOfH
      BY <2>1, Contribution DEF may_accuse
    <3>3. unwrap_or_zero(o) \in Int /\ unwrap_or_zero(o) <= 0
      <4>1. IF N = {} THEN unwrap_or_zero(o) = 0 ELSE unwrap_or_zero(o) \in N
        <5> HIDE DEF N
        <5> QED
          BY <3>2, Unwrapped
      <4> QED
        BY <3>1, <4>1
    <3> QED
      BY <3>2, <3>3 DEF CapOfH
  <2>6. family_contribution(rest, "H") = 0
    <3>1. PICK o : /\ Strongest(o, FALSE, {b \in HealthyBans(rest, "H") : b < 0})
                   /\ family_contribution(rest, "H") =
                        IF unwrap_or_zero(o) >= - CapOfH
                        THEN unwrap_or_zero(o) ELSE - CapOfH
      BY <2>2, Contribution DEF may_accuse
    <3>2. o = {}
      BY <2>2, <3>1 DEF Strongest
    <3> QED
      BY <3>1, <3>2 DEF unwrap_or_zero, CapOfH
  <2>7. ASSUME NEW family \in {"B", "R", "X"}
        PROVE  family_contribution(rest, family) \in Int
    <3>1. HealthyBans(rest, family) \subseteq Int
      BY <2>2, BansAreNumbers DEF HealthyBans, healthy_rows
    <3>2. PICK o : /\ Strongest(o, TRUE, HealthyBans(rest, family))
                   /\ family_contribution(rest, family) = unwrap_or_zero(o)
      BY <2>2, Contribution DEF may_accuse
    <3> DEFINE B == HealthyBans(rest, family)
    <3>3. IF B = {} THEN unwrap_or_zero(o) = 0 ELSE unwrap_or_zero(o) \in B
      <4> HIDE DEF B
      <4> QED
        BY <3>2, Unwrapped DEF B
    <3> QED
      BY <3>1, <3>2, <3>3
  <2>8. /\ total_bans(evidence) <= total_bans(rest)
        /\ total_bans(evidence) >= total_bans(rest) - CapOfH
    <3>1. /\ family_contribution(evidence, "B") = family_contribution(rest, "B")
          /\ family_contribution(evidence, "R") = family_contribution(rest, "R")
          /\ family_contribution(evidence, "X") = family_contribution(rest, "X")
      BY <2>3
    <3> QED
      BY <2>5, <2>6, <2>7, <3>1 DEF total_bans, CapOfH
  <2> QED
    BY <2>4, <2>8 DEF HistoryOnlySubtracts, rest
<1> QED
  BY <1>1, TypeCorrect, PTL
=============================================================================
