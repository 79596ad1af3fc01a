------------------------------ MODULE RunHealth ------------------------------
(***************************************************************************)
(* Whether the output of an analyzer run may be believed                   *)
(* (judged-core/src/sarif.rs, assess_run_health), and how several runs are *)
(* concatenated into the one run the ratchet diffs (ratchet_cmd.rs,        *)
(* merge).                                                                 *)
(*                                                                         *)
(* A run keeps what those two functions tell apart.  Its invocations are   *)
(* the SET of their executionSuccessful bits: {} is a run that recorded no *)
(* invocation.  "warned" says that some invocation carries an error or     *)
(* warning notification, "declared" counts the artifacts with the          *)
(* analysisTarget role, and "results" is the set of fingerprints of its    *)
(* results, whose multiplicity no caller looks at.                         *)
(***************************************************************************)
EXTENDS Naturals, FiniteSetsExt

CONSTANT Fingerprints      \* identities of findings (judged/v1:<hex>)

Run == [invocations : SUBSET BOOLEAN,
        warned      : BOOLEAN,
        declared    : Nat,
        results     : SUBSET Fingerprints]

Healths == {"Healthy", "Degraded", "Failed"}

(* Mutant: no invocation at all reads as no failure.                       *)
NoInvocationIsSuccess(run) == FALSE \in run.invocations

(* Gate 1: one bad invocation poisons the run, and so does having none.    *)
HealthBitMissing(run) == run.invocations = {} \/ FALSE \in run.invocations

(* Gate 3: the declared targets must reach ANALYSIS_TARGET_RATIO_FLOOR =   *)
(* 0.8 of the expected ones; without an expectation (0) there is no        *)
(* control to pass.                                                        *)
BelowRatioFloor(declared, expected) ==
  expected = 0 \/ 5 * declared < 4 * expected

assess_run_health(run, expected) ==
  IF HealthBitMissing(run) THEN "Failed"
  ELSE IF run.warned \/ BelowRatioFloor(run.declared, expected)
       THEN "Degraded"
       ELSE "Healthy"

(* Mutant: the merged run is built from the results only.                  *)
merge_forgets_invocations(runs, tools) ==
  [invocations |-> {}, warned |-> FALSE, declared |-> 0,
   results |-> UNION {runs[t].results : t \in tools}]

(* Concatenation of the runs, by what is kept of them.                     *)
merge(runs, tools) ==
  [invocations |-> UNION {runs[t].invocations : t \in tools},
   warned      |-> \E t \in tools : runs[t].warned,
   declared    |-> FoldSet(LAMBDA t, n : runs[t].declared + n, 0, tools),
   results     |-> UNION {runs[t].results : t \in tools}]
=============================================================================
