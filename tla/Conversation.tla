---------------------------- MODULE Conversation ----------------------------
(***************************************************************************)
(* What the Slack orchestrator promises about a user's message, without    *)
(* sessions, streams, threads or workers: it takes a message up at most    *)
(* once, however often Slack delivers it, and a message it took up gets    *)
(* one reply, an answer or a failure, which is final.  It may also be      *)
(* lost, when the process dies or Slack refuses the reply.                 *)
(*                                                                         *)
(* SlackTurns is the program's implementation of this.                     *)
(***************************************************************************)
CONSTANT Msgs

VARIABLE state    \* of each message: "new", "taken", then one of Final

Final == {"answered", "failed", "lost"}

TypeOK == state \in [Msgs -> {"new", "taken"} \cup Final]

Init == state = [m \in Msgs |-> "new"]

Take(m) == state[m] = "new" /\ state' = [state EXCEPT ![m] = "taken"]

Reply(m) == /\ state[m] = "taken"
            /\ \E r \in {"answered", "failed"} : state' = [state EXCEPT ![m] = r]

(* Any of the messages taken up may be lost, several at once in a crash. *)
Lose == \E L \in SUBSET {m \in Msgs : state[m] = "taken"} :
          state' = [m \in Msgs |-> IF m \in L THEN "lost" ELSE state[m]]

Next == Lose \/ \E m \in Msgs : Take(m) \/ Reply(m)

Spec == Init /\ [][Next]_state
=============================================================================
