----------------------------- MODULE TurnStream -----------------------------
(***************************************************************************)
(* Reading one turn of a Managed Agents session: `session.turn_events` and *)
(* the two `consume` functions it feeds (session.py, slack/relay.py).      *)
(*                                                                         *)
(* The session's event log is kept by the API, outside this program.  It   *)
(* is a sequence of event kinds, and an event's id is its position.  A     *)
(* connection carries the events emitted after it was opened, so it is a   *)
(* cursor `pos` into the log; when it breaks, `lim` is the last event that *)
(* still reaches the reader and the rest of it is lost.  The history read  *)
(* after reopening is the range rpos..rlim of the log.                     *)
(***************************************************************************)
EXTENDS Naturals, Sequences

CONSTANTS Reconnects,   \* session.STREAM_RECONNECTS
          MaxEvents,    \* bound on the events of a turn before its terminal one
          Ongoing,      \* the kinds that do not finish a turn, of AllOngoing
          Modes         \* which of AllModes the behaviours start in

(* "new"      a new session: `initial_events` started the turn already     *)
(* "followup" the session is idle when the turn's message is sent          *)
(* "resumed"  it is still working on the previous turn (slack/app.py tells *)
(*            the user to reply in the thread after it lost the stream)    *)
AllModes == {"new", "followup", "resumed"}

ASSUME ReconnectsAssumption == Reconnects \in Nat
ASSUME MaxEventsAssumption == MaxEvents \in Nat
ASSUME ModesAssumption == Modes \subseteq AllModes

(* "progress" is every event `consume` only counts or shows: tool uses,    *)
(* delegations, session errors.  "finished" is an idle with any stop       *)
(* reason other than requires_action.                                      *)
AllOngoing == {"message", "progress", "requires_action"}
ASSUME OngoingAssumption == Ongoing \subseteq AllOngoing
Terminal == {"finished", "terminated"}
Kind == {"user"} \cup Ongoing \cup Terminal

VARIABLES mode,     \* how this turn was started
          after,    \* what tells the turn's history: "start", "id" or "none"
          log,      \* the session's events
          work,     \* the session: "idle", "old" turn, "this" turn, "over"
          sent,     \* the API has this turn's user.message
          base,     \* where this turn's user.message is in the log, 0 if not yet
          pc,       \* the reader's control point
          pos, lim, live,        \* the connection being read
          rpos, rlim,          \* the history still to replay
          seen, left, owned,   \* locals of turn_events
          handles,             \* streams turn_events opened and has not closed
          aborted,  \* the caller's `abort()` answers true
          got,      \* the ids of the events consumed, user messages left out
          tries     \* reopenings since the last new event

session == <<mode, after, log, work, base>>
conn == <<pos, lim, live>>
replay == <<rpos, rlim>>
locals == <<seen, left, got, tries>>
streams == <<owned, handles>>
vars == <<session, sent, pc, conn, replay, locals, streams, aborted>>

Ended == {"done", "raised"}

TypeOK ==
  /\ mode \in Modes
  /\ after \in {"start", "id", "none"}
  /\ log \in Seq(Kind)
  /\ work \in {"idle", "old", "this", "over"}
  /\ sent \in BOOLEAN /\ base \in 0..Len(log)
  /\ pc \in {"open", "send", "read", "retry", "sleep", "list"} \cup Ended
  /\ pos \in Nat \ {0} /\ lim \in 0..Len(log) /\ live \in BOOLEAN
  /\ rpos \in Nat \ {0} /\ rlim \in 0..Len(log)
  /\ seen \subseteq 1..Len(log)
  /\ left \in 0..Reconnects /\ tries \in Nat
  /\ owned \in BOOLEAN /\ handles \in Nat /\ aborted \in BOOLEAN
  /\ got \in Seq(Nat)

(* A new session starts with its first message in the log.  A session that *)
(* is followed up has an earlier turn there, finished or not.              *)
Init ==
  /\ mode \in Modes
  /\ after \in IF mode = "new" THEN {"start"} ELSE {"id", "none"}
  /\ log = CASE mode = "new" -> <<"user">>
             [] mode = "followup" -> <<"user", "finished">>
             [] mode = "resumed" -> <<"user">>
  /\ work = CASE mode = "new" -> "this" [] mode = "followup" -> "idle" [] mode = "resumed" -> "old"
  /\ base = IF mode = "new" THEN 1 ELSE 0
  /\ sent = (mode = "new")
  /\ pc = "open"
  /\ pos = 1 /\ lim = 0 /\ live = FALSE
  /\ rpos = 1 /\ rlim = 0
  /\ seen = {} /\ left = Reconnects /\ owned = FALSE /\ handles = 0 /\ aborted = FALSE
  /\ got = <<>> /\ tries = 0

-----------------------------------------------------------------------------
(* The session (external).  It works through one turn at a time.           *)

TurnStart == IF base # 0 THEN base ELSE 1

Emit(k) ==
  /\ work \in {"old", "this"}
  /\ k \in Ongoing => Len(log) < TurnStart + MaxEvents
  /\ log' = Append(log, k)
  /\ work' = CASE k = "terminated" -> "over" [] k = "finished" -> "idle" [] OTHER -> work
  /\ UNCHANGED <<mode, after, base, sent, pc, conn, replay, locals, streams, aborted>>

(* An idle session takes up the message it was sent. *)
TakeUp ==
  /\ work = "idle" /\ sent /\ base = 0
  /\ log' = Append(log, "user")
  /\ base' = Len(log')
  /\ work' = "this"
  /\ UNCHANGED <<mode, after, sent, pc, conn, replay, locals, streams, aborted>>

-----------------------------------------------------------------------------
(* The network and the caller.                                             *)

(* The connection breaks, or the server ends it: what it has not carried   *)
(* past `lim` is lost.                                                     *)
Break ==
  /\ live
  /\ live' = FALSE
  /\ lim' \in {l \in 0..Len(log) : pos <= l + 1}
  /\ UNCHANGED <<session, sent, pc, pos, replay, locals, streams, aborted>>

(* The caller gives up on the session: a scenario run became invalid. *)
Abort ==
  /\ ~aborted
  /\ aborted' = TRUE
  /\ UNCHANGED <<session, sent, pc, conn, replay, locals, streams>>

-----------------------------------------------------------------------------
(* The reader.                                                             *)

(* Closing `owned`, if there is one. *)
Handles == IF owned THEN handles - 1 ELSE handles
CloseOwned == handles' = Handles /\ owned' = FALSE

Connect == pos' = Len(log) + 1 /\ live' = TRUE /\ lim' = 0

(* `with ... events.stream(...) as stream`: before the send, if there is   *)
(* one; a new session is already running by then.                          *)
Open ==
  /\ pc = "open"
  /\ Connect
  /\ pc' = IF mode = "new" THEN "read" ELSE "send"
  /\ UNCHANGED <<session, sent, replay, locals, streams, aborted>>

Send ==
  /\ pc = "send"
  /\ sent' = TRUE
  /\ pc' = "read"
  /\ UNCHANGED <<session, conn, replay, locals, streams, aborted>>

(* The send fails: `send` is not retried, whether the API got it or not. *)
SendFails ==
  /\ pc = "send"
  /\ sent' \in BOOLEAN
  /\ pc' = "raised"
  /\ UNCHANGED <<session, conn, replay, locals, streams, aborted>>

(* The last event of the log the current connection gives the reader. *)
Reach == IF live THEN Len(log) ELSE lim

Replaying == rpos <= rlim

(* Faults of the consumer's step: the budget is not restored by an event,  *)
(* and an idle that waits for tool results is taken for the turn's end.    *)
ConsumeKeepingBudget(id) ==
  /\ seen' = seen \cup {id}
  /\ got' = IF log[id] = "user" THEN got ELSE Append(got, id)
  /\ UNCHANGED left
  /\ tries' = 0
  /\ IF log[id] \in Terminal
       THEN pc' = "done" /\ CloseOwned
       ELSE UNCHANGED <<pc, streams>>

ConsumeStoppingOnAnyIdle(id) ==
  /\ seen' = seen \cup {id}
  /\ got' = IF log[id] = "user" THEN got ELSE Append(got, id)
  /\ left' = Reconnects
  /\ tries' = 0
  /\ IF log[id] \in Terminal \cup {"requires_action"}
       THEN pc' = "done" /\ CloseOwned
       ELSE UNCHANGED <<pc, streams>>

(* The consumer's step on an event yielded to it: a user message changes   *)
(* nothing, a terminal event ends the loop, which closes the generator and *)
(* with it the stream turn_events opened itself.                           *)
Consume(id) ==
  /\ seen' = seen \cup {id}
  /\ got' = IF log[id] = "user" THEN got ELSE Append(got, id)
  /\ left' = Reconnects
  /\ tries' = 0
  /\ IF log[id] \in Terminal
       THEN pc' = "done" /\ CloseOwned
       ELSE UNCHANGED <<pc, streams>>

Skip == UNCHANGED <<locals, pc, streams>>

(* Fault: event ids are not remembered. *)
YieldUnchecked(id) == Consume(id)

Yield(id) == IF id \in seen THEN Skip ELSE Consume(id)

ReadReplay ==
  /\ pc = "read" /\ Replaying
  /\ rpos' = rpos + 1
  /\ Yield(rpos)
  /\ UNCHANGED <<session, sent, conn, rlim, aborted>>

ReadLive ==
  /\ pc = "read" /\ ~Replaying /\ pos <= Reach
  /\ pos' = pos + 1
  /\ Yield(pos)
  /\ UNCHANGED <<session, sent, lim, live, replay, aborted>>

(* DROPPED, or the stream ran out: StreamEnded.  The exhausted source is   *)
(* not looked at again.                                                    *)
Dropped ==
  /\ pc = "read" /\ ~Replaying /\ ~live /\ pos > lim
  /\ pc' = "retry"
  /\ pos' = 1 /\ lim' = 0 /\ rpos' = 1 /\ rlim' = 0
  /\ UNCHANGED <<session, sent, live, locals, streams, aborted>>

Raise == pc' = "raised" /\ CloseOwned

(* Faults: attempts are not counted, and an empty budget is not looked at. *)
RetryUncounted ==
  /\ pc = "retry"
  /\ IF left = 0 \/ aborted
       THEN Raise /\ UNCHANGED <<left, tries>>
       ELSE /\ tries' = IF tries = Reconnects THEN tries ELSE tries + 1
            /\ pc' = "sleep"
            /\ UNCHANGED <<left, streams>>
  /\ UNCHANGED <<session, sent, conn, replay, seen, got, aborted>>

RetryPastBudget ==
  /\ pc = "retry"
  /\ IF aborted
       THEN Raise /\ UNCHANGED <<left, tries>>
       ELSE /\ left' = left - 1
            /\ tries' = tries + 1
            /\ pc' = "sleep"
            /\ UNCHANGED streams
  /\ UNCHANGED <<session, sent, conn, replay, seen, got, aborted>>

Retry ==
  /\ pc = "retry"
  /\ IF left = 0 \/ aborted
       THEN Raise /\ UNCHANGED <<left, tries>>
       ELSE /\ left' = left - 1
            /\ tries' = tries + 1
            /\ pc' = "sleep"
            /\ UNCHANGED streams
  /\ UNCHANGED <<session, sent, conn, replay, seen, got, aborted>>

(* After the backoff: close the stream of the attempt before, open one.    *)
Reopen ==
  /\ pc = "sleep"
  /\ Connect
  /\ owned' = TRUE /\ handles' = Handles + 1
  /\ pc' = "list"
  /\ UNCHANGED <<session, sent, replay, locals, aborted>>

ReopenDropped ==
  /\ pc = "sleep"
  /\ CloseOwned
  /\ pos' = 1 /\ lim' = 0 /\ live' = FALSE
  /\ pc' = "retry"
  /\ UNCHANGED <<session, sent, replay, locals, aborted>>

(* Fault: a message that is not in the history yet is read as "all of it". *)
MissedFromAnywhere == CASE after = "start" -> 1
                        [] after = "id" /\ base # 0 -> base + 1
                        [] OTHER -> 1

(* session._missed: where this turn begins in the history just listed. *)
MissedFrom == CASE after = "start" -> 1
                [] after = "id" /\ base # 0 -> base + 1
                [] OTHER -> Len(log) + 1

List ==
  /\ pc = "list"
  /\ rpos' = MissedFrom /\ rlim' = Len(log)
  /\ pc' = "read"
  /\ UNCHANGED <<session, sent, conn, locals, streams, aborted>>

ListDropped ==
  /\ pc = "list"
  /\ pc' = "retry"
  /\ UNCHANGED <<session, sent, conn, replay, locals, streams, aborted>>

(* The API refuses (not a dropped connection): not retried, but cleaned up. *)
Refused ==
  /\ pc \in {"open", "sleep", "list"}
  /\ Raise
  /\ UNCHANGED <<session, sent, conn, replay, locals, aborted>>

-----------------------------------------------------------------------------
Session == TakeUp \/ \E k \in Ongoing \cup Terminal : Emit(k)

Reader == \/ Open \/ Send \/ SendFails
          \/ ReadReplay \/ ReadLive \/ Dropped
          \/ Retry \/ Reopen \/ ReopenDropped
          \/ List \/ ListDropped \/ Refused

Next == Session \/ Reader \/ Break \/ Abort

Spec == Init /\ [][Next]_vars

(* The session works until its turn is finished, and the reader runs; the  *)
(* network owes nothing, in either direction.                              *)
FairSpec == Spec /\ WF_vars(Session) /\ WF_vars(Reader)

-----------------------------------------------------------------------------
(* Properties.                                                             *)

(* A follow-up to a session that had finished its last turn, whose         *)
(* user.message id the API returned: the case _missed is written for.      *)
Settled == mode = "followup" /\ after = "id"

(* Through any number of dropped and reopened connections, the consumer is *)
(* handed the events of its own turn, from the first one on, in the order  *)
(* the session emitted them, none missing and none twice (turn_events).    *)
Faithful == Settled => \A i \in DOMAIN got : got[i] = base + i

(* However the turn was started, no event is handed over a second time,    *)
(* although the history and the reopened stream overlap (turn_events.seen).*)
ExactlyOnce == \A i, j \in DOMAIN got : got[i] = got[j] => i = j

(* The reader holds at most one stream of its own, and none once it has    *)
(* returned or raised (turn_events' `owned` and its finally).              *)
NoLeak == handles <= 1 /\ (pc \in Ended => handles = 0)

(* The reader gives up on a drop only after Reconnects attempts in a row   *)
(* that brought no new event, or once its caller has given up: an event    *)
(* restores the budget, so a long turn may lose any number of connections. *)
GivesUpWhenSpent ==
  [][pc = "retry" /\ pc' = "raised" => tries = Reconnects \/ aborted]_vars

(* The detailed reader implements TurnReader for a settled turn; for the   *)
(* others the mapping is constant, as TurnReader does not describe them.   *)
Abstract == INSTANCE TurnReader WITH
  events <- IF Settled /\ base # 0 THEN SubSeq(log, base + 1, Len(log)) ELSE <<>>,
  read <- IF Settled THEN Len(got) ELSE 0,
  state <- CASE Settled /\ pc = "done" -> "complete"
             [] Settled /\ pc = "raised" -> "failed"
             [] OTHER -> "reading"

ImplementsTurnReader == Abstract!Spec

(* A settled turn that the session finishes is always ended for the caller *)
(* too, with its outcome or with an exception: a terminal event lost in a  *)
(* drop is found in the history, and unlimited drops use the budget up.    *)
EventuallyEnds == Settled => <>(pc \in Ended)

-----------------------------------------------------------------------------
(* The order of a settled turn's events.  The log starts with the two      *)
(* events of the previous turn, so this turn's message is event 3 and the  *)
(* reader must hand over 4, 5, ... in order.                               *)

(* The session: idle with the previous turn's log until it takes up the    *)
(* message, which is the only one after that.                              *)
SettledLog == /\ work \in {"idle", "this", "over"}
              /\ \/ base = 0 /\ Len(log) = 2 /\ work = "idle"
                 \/ base = 3 /\ Len(log) >= 3 /\ log[3] = "user"
              /\ \A i \in 4..Len(log) : log[i] # "user"

(* What was consumed is 4, 5, ..., and `seen` is that, with or without the *)
(* turn's message.                                                         *)
SettledGot == /\ \A i \in 1..Len(got) : got[i] = 3 + i
              /\ seen \ {3} = 4..(3 + Len(got))

(* Nothing that comes next skips an event: the history begins no later     *)
(* than the event expected next, and the connection no later than the end  *)
(* of the history, or than the event expected next once that is replayed.  *)
Expected == Len(got) + 4
SettledSource ==
  /\ pc \in {"open", "send"} => base = 0 /\ sent = FALSE /\ ~Replaying
  /\ pc = "send" => pos = 3
  /\ pc = "list" => pos \in 3..(Len(log) + 1)
  /\ pc = "read" /\ Replaying => rpos \in 4..Expected /\ pos \in 3..(rlim + 1)
  /\ pc = "read" /\ ~Replaying => pos \in 3..Expected

Order == Settled => SettledLog /\ SettledGot /\ SettledSource
=============================================================================
