------------------------------- MODULE MCLedger -------------------------------
(***************************************************************************)
(* Evidence for TLC: for every family weights on each side of the floor of *)
(* 50 and of the cap of H, three families that reach Tier 0's threshold    *)
(* together, and rows that each fail one of the three health conditions.   *)
(***************************************************************************)
EXTENDS Ledger

Sound(family, bans) ==
  [family |-> family, bans |-> bans, execution_successful |-> TRUE,
   positive_control_passed |-> TRUE, expired |-> FALSE]

MCRows ==
  { Sound("B", 50), Sound("B", 200), Sound("R", 49), Sound("R", 150),
    Sound("X", 200), Sound("X", -30), Sound("H", 50), Sound("H", -30),
    Sound("H", -80),
    [Sound("B", 200) EXCEPT !.positive_control_passed = FALSE],
    [Sound("R", 150) EXCEPT !.expired = TRUE],
    [Sound("X", 200) EXCEPT !.execution_successful = FALSE],
    [Sound("H", -80) EXCEPT !.expired = TRUE] }
=============================================================================
