---------------------------- MODULE MCSlackTurns ----------------------------
(***************************************************************************)
(* SlackTurns in two scopes, chosen at the start: a thread of a mention    *)
(* and a reply, each delivered twice, with crashes; or these and a second  *)
(* thread's mention, delivered once, on a pool that the first thread's     *)
(* two jobs can fill.                                                      *)
(***************************************************************************)
EXTENDS SlackTurns, TLC

CONSTANTS a1, a2, b1, A, B

VARIABLE scope

MCThread == [m \in Msgs |-> IF m = b1 THEN B ELSE A]

Within ==
  \/ scope = "crashes" /\ \A c \in 1..Copies : handler'[b1][c] = "sent"
  \/ scope = "pool" /\ crashes' = 0 /\ \A m \in Msgs, c \in 2..Copies : handler'[m][c] = "sent"

MCInit == Init /\ scope \in {"crashes", "pool"}
MCNext == Next /\ Within /\ UNCHANGED scope
MCSpec ==
  /\ MCInit /\ [][MCNext]_<<vars, scope>>
  /\ \A m \in Msgs : WF_vars(Job(m))
  /\ \A s \in Msgs : WF_vars(FinishTurn(s))
=============================================================================
