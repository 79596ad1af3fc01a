------------------------------ MODULE MCRatchet ------------------------------
(***************************************************************************)
(* Instances of the ratchet for TLC.  A run is a combination of a health   *)
(* bit, a number of declared targets and a set of findings; of 5 expected  *)
(* targets, 4 are exactly on the 80% floor and 3 below it.                 *)
(***************************************************************************)
EXTENDS Ratchet

CONSTANTS f1, f2, u1, MCInvocations, MCDeclared

MCUriOf == [f \in Fingerprints |-> IF f = f1 THEN u1 ELSE NoUri]

MCNoUri == [f \in Fingerprints |-> NoUri]

Symmetry == Permutations(Fingerprints) \cup Permutations(Procs)

(* What AmnestyIsVouched and the guards read: the history it does not read *)
(* would only multiply the states.                                         *)
RaceView == <<file, clock, proc, aux_vouched>>

MCRuns == [invocations : MCInvocations, warned : {FALSE},
           declared : MCDeclared, results : SUBSET Fingerprints]

(* The health bits a log may carry.                                        *)
Sound == {{TRUE}}
SoundOrSilent == {{TRUE}, {}}
SoundOrCrashed == {{TRUE}, {}, {TRUE, FALSE}}

AboveOrBelow == {3, 4}
Enough == {4}
=============================================================================
