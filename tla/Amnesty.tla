------------------------------- MODULE Amnesty -------------------------------
(***************************************************************************)
(* What the ratchet promises about the list of accepted findings, without  *)
(* files, processes or analyzers: a finding is accepted only after an      *)
(* analyzer that did not crash reported it, and only a human gives an      *)
(* accepted finding a deadline, changes it, or removes the one it has      *)
(* while the finding stays accepted.                                       *)
(***************************************************************************)
EXTENDS Naturals

CONSTANTS
  Fingerprints,
  NoDate,
  BadDate

VARIABLES
  amnesty,      \* the deadline of every accepted finding
  vouched,      \* the findings reported so far by runs that did not crash
  saving        \* a rewrite is in progress

amnestyVars == <<amnesty, vouched, saving>>

Dates == Nat \cup {NoDate, BadDate}

AmnestyInit ==
  /\ amnesty = [f \in {} |-> NoDate]
  /\ vouched = {}
  /\ saving = FALSE

Vouch ==
  /\ ~ saving
  /\ vouched' \in SUBSET Fingerprints
  /\ vouched \subseteq vouched'
  /\ UNCHANGED <<amnesty, saving>>

(* A human decides about one accepted finding: a new deadline, or none, or *)
(* out of the list.                                                        *)
Decide(f) ==
  /\ ~ saving
  /\ f \in DOMAIN amnesty
  /\ \/ /\ f \in DOMAIN amnesty' /\ amnesty'[f] \in Dates
        /\ amnesty' = [amnesty EXCEPT ![f] = amnesty'[f]]
     \/ amnesty' = [g \in DOMAIN amnesty \ {f} |-> amnesty[g]]
  /\ UNCHANGED <<vouched, saving>>

BeginRewrite ==
  /\ ~ saving
  /\ saving' = TRUE
  /\ UNCHANGED <<amnesty, vouched>>

(* The rewritten list: any vouched findings, with the deadline they had.   *)
EndRewrite(kept) ==
  /\ saving
  /\ saving' = FALSE
  /\ kept \subseteq vouched
  /\ amnesty' = [f \in kept |-> IF f \in DOMAIN amnesty
                                THEN amnesty[f] ELSE NoDate]
  /\ UNCHANGED vouched

AmnestyNext ==
  \/ Vouch
  \/ \E f \in Fingerprints : Decide(f)
  \/ BeginRewrite
  \/ \E kept \in SUBSET Fingerprints : EndRewrite(kept)

AmnestySpec == AmnestyInit /\ [][AmnestyNext]_amnestyVars
=============================================================================
