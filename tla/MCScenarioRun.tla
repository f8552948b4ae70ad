--------------------------- MODULE MCScenarioRun ----------------------------
(***************************************************************************)
(* ScenarioRun in two scopes, chosen at the start: a suite of two runs of  *)
(* a scenario with a follow-up, each with two containers at most and one   *)
(* skill; or the containers of one session, three of them, with two skills *)
(* and three tool calls.                                                   *)
(***************************************************************************)
EXTENDS ScenarioRun, TLC

CONSTANT rca

VARIABLE scope

Within == calls' = 0 /\ boxes' <= 2 /\ dirs' \subseteq {rca}

MCInit == Init /\ scope \in {"suite", "session"}
MCNext ==
  /\ UNCHANGED scope
  /\ \/ scope = "suite" /\ Next /\ Within
     \/ scope = "session" /\ SandboxNext /\ UNCHANGED <<runner, watchdog, platform, faults>>
MCSpec ==
  /\ MCInit /\ [][MCNext]_<<vars, scope>>
  /\ WF_vars(Runner) /\ WF_vars(Mark) /\ WF_vars(DogInterrupts)
  /\ WF_vars(Close) /\ WF_vars(Expire)
=============================================================================
