----------------------------- MODULE MCFactLog -----------------------------
(***************************************************************************)
(* FactLog with two containers of one session and one run of the agent's   *)
(* script: the least in which the numbers of all three can collide.        *)
(***************************************************************************)
EXTENDS FactLog, TLC

Symmetry == Permutations(Hosts) \cup Permutations(HostFacts)
=============================================================================
