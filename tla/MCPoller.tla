------------------------------ MODULE MCPoller ------------------------------
(***************************************************************************)
(* Poller with a session of two items and an item that is not a session's. *)
(***************************************************************************)
EXTENDS Poller, TLC

CONSTANTS a1, a2, x, A

MCSession == [w \in Items |-> IF w = x THEN NoSession ELSE A]
=============================================================================
