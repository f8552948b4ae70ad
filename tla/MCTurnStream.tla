---------------------------- MODULE MCTurnStream ----------------------------
(***************************************************************************)
(* TurnStream on small instances: two reconnects instead of five, so that  *)
(* the budget runs out within a turn, and logs short enough to enumerate   *)
(* every order of emission, delivery and breakage.                         *)
(***************************************************************************)
EXTENDS TurnStream
=============================================================================
