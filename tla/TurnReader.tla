----------------------------- MODULE TurnReader -----------------------------
(***************************************************************************)
(* What the reader of one turn promises its caller (Slack, a scenario run, *)
(* the command line), without saying how: the session emits the turn's     *)
(* events one after the other, the caller is handed exactly these events,  *)
(* in that order and none twice, up to the first terminal one, and that    *)
(* event ends the turn.  A reader may also fail, at any point, with the    *)
(* turn unfinished; then it hands over nothing more.                       *)
(*                                                                         *)
(* TurnStream is the program's implementation of this, over connections    *)
(* that drop and cannot be replayed.                                       *)
(***************************************************************************)
EXTENDS Naturals, Sequences

CONSTANTS Kind,       \* the kinds of event a session emits
          Terminal    \* those that finish a turn

VARIABLES events,     \* the turn's events, as the session emitted them
          read,       \* how many of them the caller was handed
          state       \* "reading", then "complete" or "failed"

vars == <<events, read, state>>

TypeOK == /\ events \in Seq(Kind)
          /\ read \in 0..Len(events)
          /\ state \in {"reading", "complete", "failed"}

Init == events = <<>> /\ read = 0 /\ state = "reading"

(* The session emits the turn's next event. *)
Emit == /\ \E k \in Kind : events' = Append(events, k)
        /\ UNCHANGED <<read, state>>

(* The caller is handed the first event it has not had yet. *)
Read == /\ state = "reading"
        /\ read < Len(events)
        /\ read' = read + 1
        /\ state' = IF events[read + 1] \in Terminal THEN "complete" ELSE "reading"
        /\ UNCHANGED events

(* The reader gives the turn up. *)
Fail == /\ state = "reading"
        /\ state' = "failed"
        /\ UNCHANGED <<events, read>>

Next == Emit \/ Read \/ Fail

Spec == Init /\ [][Next]_vars
=============================================================================
