--------------------------- MODULE MCModelAnswers ---------------------------
(***************************************************************************)
(* What a model is asked for and its answers become, in two scopes chosen  *)
(* at the start: Mining, with one authored claim, one that a guide and a   *)
(* record propose, and answers of the merge that go wrong in different     *)
(* ways; or Grading, with a panel of three, two candidates and two items.  *)
(***************************************************************************)
EXTENDS Mining, Grading

CONSTANTS a, b

VARIABLES scope

MCTitled == {<<"known", "h2">>}

MCAuthored ==
  [Empty EXCEPT !.claims = "known" :> [refined |-> {}, sound |-> TRUE, cites |-> {}],
                !.listed = {"known"}]

Proposed(from, sound) == [from |-> from, refined |-> {}, sound |-> sound]
Good == [claims |-> "fresh" :> Proposed(Sources, TRUE), from |-> Sources, listed |-> {"fresh"},
         maps |-> TRUE, refinements |-> {}]

MCMerges ==
  { Good,
    [Good EXCEPT !.listed = {}, !.refinements = {<<"known", "fresh">>}],
    [Good EXCEPT !.listed = {}, !.claims = "fresh" :> Proposed({"vendored"}, TRUE)],
    [Good EXCEPT !.claims = "fresh" :> Proposed({}, TRUE)],
    [Good EXCEPT !.claims = @ @@ ("known" :> Proposed({"guide"}, FALSE))] }
-----------------------------------------------------------------------------
Does(standing, strength, grounded) ==
  [standing |-> standing, strength |-> strength, grounded |-> grounded]

MCReadings ==
  {Does("most_likely", "strong", Nil), Does("ruled_out", "n/a", FALSE),
   Does("ruled_out", "n/a", TRUE), Does("absent", "n/a", Nil)}

Held(accepted, strength) == [accepted |-> accepted, strength |-> strength]

MCTruths ==
  {[candidates |-> (a :> Held({"most_likely"}, {"strong"}))
                     @@ (b :> Held({"not_ruled_out", "ruled_out"}, {})),
    range |-> {"weak"}, restraint |-> FALSE],
   [candidates |-> (a :> Held({"ruled_out"}, {})) @@ (b :> Held({"most_likely"}, {"weak"})),
    range |-> {}, restraint |-> TRUE]}

Sound ==
  [candidates |-> (a :> Does("most_likely", "strong", Nil)) @@ (b :> Does("ruled_out", "n/a", TRUE)),
   traps |-> [t \in Traps |-> TRUE], strength |-> "weak", declined |-> TRUE]

MCAnswers ==
  {Sound, [Sound EXCEPT !.strength = "strong", !.declined = FALSE]}
  \cup {[Sound EXCEPT !.candidates[c] = r] : c \in Candidates, r \in MCReadings}
  \cup {[Sound EXCEPT !.traps[t] = FALSE] : t \in Traps}

-----------------------------------------------------------------------------
MCInit ==
  /\ MiningInit /\ GradingInit /\ scope \in {"mining", "grading"}
  /\ scope = "mining" => items = Nil /\ answer = Sound /\ held = CHOOSE t \in MCTruths : TRUE
MCNext ==
  /\ UNCHANGED scope
  /\ \/ scope = "mining" /\ MiningNext /\ UNCHANGED gradingVars
     \/ scope = "grading" /\ GradingNext /\ UNCHANGED miningVars
MCSpec == MCInit /\ [][MCNext]_<<miningVars, gradingVars, scope>>
=============================================================================
