--------------------------- MODULE MCScenarioData ---------------------------
(***************************************************************************)
(* The data of one scenario in two scopes, chosen at the start: World, its *)
(* files between the author and a run; or Scores, what becomes of batches  *)
(* of two runs with two versions of everything.  What one scope does not   *)
(* use stays as it was.                                                    *)
(***************************************************************************)
EXTENDS World, Scores

VARIABLE scope

MCInit == Init /\ ScoresInit /\ scope \in {"world", "scores"} /\ (scope = "scores" => own)
MCNext ==
  /\ UNCHANGED scope
  /\ \/ scope = "world" /\ WorldNext /\ UNCHANGED scoresVars
     \/ scope = "scores" /\ ScoresNext /\ UNCHANGED vars
MCSpec == MCInit /\ [][MCNext]_<<vars, scoresVars, scope>>
=============================================================================
