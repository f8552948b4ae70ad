-------------------------- MODULE TurnStreamProofs --------------------------
(***************************************************************************)
(* Proofs about TurnStream, for every budget of reconnects, every length   *)
(* of turn and every mix of starting modes.                                *)
(***************************************************************************)
EXTENDS TurnStream, SequenceTheorems, TLAPS

(* The streams turn_events holds, and its budget: with the types, the      *)
(* inductive invariant of everything but the order of the events.          *)
OwnStream == /\ handles = IF owned THEN 1 ELSE 0
             /\ pc \in {"open", "send"} \cup Ended => owned = FALSE
Budget == tries + left = Reconnects
Bookkeeping == TypeOK /\ OwnStream /\ Budget

(* The invariant holds of a new turn. *)
LEMMA BookkeepingInit == Init => Bookkeeping
<1> SUFFICES ASSUME Init PROVE Bookkeeping
  OBVIOUS
<1> USE ReconnectsAssumption, ModesAssumption DEF Init
<1>1. mode \in {"new", "followup", "resumed"}
  BY DEF AllModes
<1>2. /\ log \in Seq(Kind) /\ base \in 0..Len(log) /\ work \in {"idle", "old", "this", "over"}
      /\ after \in {"start", "id", "none"} /\ sent \in BOOLEAN
  <2>1. "user" \in Kind /\ "finished" \in Kind
    BY DEF Kind, Terminal
  <2>2. CASE mode = "new"
    BY <2>1, <2>2
  <2>3. CASE mode = "followup"
    BY <2>1, <2>3
  <2>4. CASE mode = "resumed"
    BY <2>1, <2>4
  <2> QED
    BY <1>1, <2>2, <2>3, <2>4
<1>3. pc \in {"open", "send", "read", "retry", "sleep", "list"} \cup Ended /\ seen \subseteq 1..Len(log)
  OBVIOUS
<1>4. got \in Seq(Nat) /\ Len(log) \in Nat
  BY <1>2
<1>5. lim \in 0..Len(log) /\ rlim \in 0..Len(log)
  BY <1>4
<1>6. live \in BOOLEAN /\ owned \in BOOLEAN /\ aborted \in BOOLEAN
  OBVIOUS
<1>7. /\ mode \in Modes /\ pos \in Nat \ {0} /\ rpos \in Nat \ {0}
      /\ left \in 0..Reconnects /\ tries \in Nat /\ handles \in Nat
  OBVIOUS
<1>8. TypeOK
  BY <1>2, <1>3, <1>4, <1>5, <1>6, <1>7, Zenon DEF TypeOK
<1> QED
  BY <1>8 DEF Bookkeeping, OwnStream, Budget, Ended

(* Closing the stream leaves none. *)
LEMMA Closing ==
  ASSUME OwnStream, owned \in BOOLEAN, CloseOwned
  PROVE  handles' = 0 /\ owned' = FALSE
<1>1. CASE owned = TRUE
  BY <1>1 DEF OwnStream, CloseOwned, Handles
<1>2. CASE owned = FALSE
  BY <1>2 DEF OwnStream, CloseOwned, Handles
<1> QED
  BY <1>1, <1>2

(* What a yielded event does to the variables Yield sets. *)
LEMMA YieldTypes ==
  ASSUME Bookkeeping, pc = "read", NEW id \in 1..Len(log), Yield(id)
  PROVE  /\ seen' \subseteq 1..Len(log) /\ got' \in Seq(Nat)
         /\ left' \in 0..Reconnects /\ tries' \in Nat /\ tries' + left' = Reconnects
         /\ owned' \in BOOLEAN /\ handles' \in Nat
         /\ handles' = (IF owned' THEN 1 ELSE 0)
         /\ pc' \in {"read", "done"} /\ (pc' \in Ended => owned' = FALSE)
<1> USE ReconnectsAssumption DEF Bookkeeping, TypeOK, OwnStream, Budget, Ended
<1>1. CASE id \in seen
  BY <1>1 DEF Yield, Skip, locals, streams
<1>2. CASE id \notin seen
  <2>1. Consume(id)
    BY <1>2 DEF Yield
  <2>2. CASE log[id] \in Terminal
    BY <2>1, <2>2, Closing DEF Consume
  <2>3. CASE log[id] \notin Terminal
    BY <2>1, <2>3 DEF Consume, streams
  <2> QED
    BY <2>2, <2>3
<1> QED
  BY <1>1, <1>2

(* Every step keeps the types, the count of streams and the budget. *)
LEMMA BookkeepingStep == Bookkeeping /\ [Next]_vars => Bookkeeping'
<1> SUFFICES ASSUME Bookkeeping, [Next]_vars PROVE Bookkeeping'
  OBVIOUS
<1> USE ReconnectsAssumption, OngoingAssumption
    DEF Bookkeeping, TypeOK, OwnStream, Budget, Ended, session, conn, replay, locals, streams
<1>1. CASE TakeUp
  BY <1>1 DEF TakeUp, Kind
<1>2. ASSUME NEW k \in Ongoing \cup Terminal, Emit(k) PROVE Bookkeeping'
  <2>1. k \in Kind
    BY DEF Kind
  <2> QED
    BY <1>2, <2>1 DEF Emit
<1>3. CASE Break
  BY <1>3 DEF Break
<1>4. CASE Abort
  BY <1>4 DEF Abort
<1>5. CASE Open
  BY <1>5 DEF Open, Connect
<1>6. CASE Send
  BY <1>6 DEF Send
<1>7. CASE SendFails
  BY <1>7 DEF SendFails
<1>8. CASE ReadReplay
  <2>1. rpos \in 1..Len(log) /\ Yield(rpos) /\ pc = "read"
    BY <1>8 DEF ReadReplay, Replaying
  <2>2. pos' \in Nat \ {0} /\ lim' = lim /\ rpos' \in Nat \ {0} /\ rlim' = rlim
    BY <1>8 DEF ReadReplay
  <2>3. live' = live /\ aborted' = aborted /\ sent' = sent /\ UNCHANGED session
    BY <1>8 DEF ReadReplay
  <2>4. /\ seen' \subseteq 1..Len(log) /\ got' \in Seq(Nat)
        /\ left' \in 0..Reconnects /\ tries' \in Nat /\ tries' + left' = Reconnects
        /\ owned' \in BOOLEAN /\ handles' \in Nat
        /\ handles' = (IF owned' THEN 1 ELSE 0)
        /\ pc' \in {"read", "done"} /\ (pc' \in Ended => owned' = FALSE)
    BY <2>1, YieldTypes
  <2>5. TypeOK'
    BY <2>2, <2>3, <2>4
  <2> QED
    BY <2>4, <2>5
<1>9. CASE ReadLive
  <2>1. pos \in 1..Len(log) /\ Yield(pos) /\ pc = "read"
    BY <1>9 DEF ReadLive, Reach
  <2>2. pos' \in Nat \ {0} /\ lim' = lim /\ rpos' = rpos /\ rlim' = rlim
    BY <1>9 DEF ReadLive
  <2>3. live' = live /\ aborted' = aborted /\ sent' = sent /\ UNCHANGED session
    BY <1>9 DEF ReadLive
  <2>4. /\ seen' \subseteq 1..Len(log) /\ got' \in Seq(Nat)
        /\ left' \in 0..Reconnects /\ tries' \in Nat /\ tries' + left' = Reconnects
        /\ owned' \in BOOLEAN /\ handles' \in Nat
        /\ handles' = (IF owned' THEN 1 ELSE 0)
        /\ pc' \in {"read", "done"} /\ (pc' \in Ended => owned' = FALSE)
    BY <2>1, YieldTypes
  <2>5. TypeOK'
    BY <2>2, <2>3, <2>4
  <2> QED
    BY <2>4, <2>5
<1>10. CASE Dropped
  BY <1>10 DEF Dropped
<1>11. CASE Retry
  <2>1. CASE left = 0 \/ aborted
    <3>1. handles' = 0 /\ owned' = FALSE
      BY <1>11, <2>1, Closing DEF Retry, Raise
    <3> QED
      BY <1>11, <2>1, <3>1 DEF Retry, Raise
  <2>2. CASE ~(left = 0 \/ aborted)
    BY <1>11, <2>2 DEF Retry
  <2> QED
    BY <2>1, <2>2
<1>12. CASE Reopen
  <2>1. Handles = 0
    BY DEF Handles
  <2> QED
    BY <1>12, <2>1 DEF Reopen, Connect
<1>13. CASE ReopenDropped
  <2>1. handles' = 0 /\ owned' = FALSE
    BY <1>13, Closing DEF ReopenDropped
  <2>2. lim' \in 0..Len(log')
    BY <1>13 DEF ReopenDropped
  <2>3. live' \in BOOLEAN
    BY <1>13 DEF ReopenDropped
  <2>4. pos' \in Nat \ {0}
    BY <1>13 DEF ReopenDropped
  <2>5. UNCHANGED <<session, sent, replay, locals, aborted>> /\ pc' = "retry"
    BY <1>13 DEF ReopenDropped
  <2> QED
    BY <2>1, <2>2, <2>3, <2>4, <2>5
<1>14. CASE List
  BY <1>14 DEF List, MissedFrom
<1>15. CASE ListDropped
  BY <1>15 DEF ListDropped
<1>16. CASE Refused
  <2>1. handles' = 0 /\ owned' = FALSE
    BY <1>16, Closing DEF Refused, Raise
  <2> QED
    BY <1>16, <2>1 DEF Refused, Raise
<1>17. CASE UNCHANGED vars
  BY <1>17 DEF vars
<1> QED
  BY <1>1, <1>2, <1>3, <1>4, <1>5, <1>6, <1>7, <1>8, <1>9, <1>10, <1>11, <1>12, <1>13,
     <1>14, <1>15, <1>16, <1>17 DEF Next, Session, Reader

(* Every variable keeps its type. *)
THEOREM TypeCorrect == Spec => []TypeOK
<1>1. Bookkeeping => TypeOK
  BY DEF Bookkeeping
<1> QED
  BY <1>1, BookkeepingInit, BookkeepingStep, PTL DEF Spec

(* turn_events never holds two streams of its own, and none once it has    *)
(* returned or raised.                                                     *)
THEOREM StreamsClosed == Spec => []NoLeak
<1>1. Bookkeeping => NoLeak
  BY DEF Bookkeeping, OwnStream, NoLeak
<1> QED
  BY <1>1, BookkeepingInit, BookkeepingStep, PTL DEF Spec

(* A drop is raised only when the whole budget went by with no new event,  *)
(* or the caller had given live.                                             *)
THEOREM GivesUpOnlyWhenSpent == Spec => GivesUpWhenSpent
<1>1. Bookkeeping /\ [Next]_vars => [pc = "retry" /\ pc' = "raised" => tries = Reconnects \/ aborted]_vars
  <2> SUFFICES ASSUME Bookkeeping, Next, pc = "retry", pc' = "raised", ~aborted
               PROVE  tries = Reconnects
    OBVIOUS
  <2>1. Retry
    BY DEF Next, Session, Reader, TakeUp, Emit, Break, Abort, Open, Send, SendFails, ReadReplay,
           ReadLive, Dropped, Retry, Reopen, ReopenDropped, List, ListDropped, Refused
  <2>2. left = 0
    BY <2>1 DEF Retry
  <2> QED
    BY <2>2, ReconnectsAssumption DEF Bookkeeping, Budget, TypeOK
<1> QED
  BY <1>1, BookkeepingInit, BookkeepingStep, PTL DEF Spec, GivesUpWhenSpent
-----------------------------------------------------------------------------
(* The order of a settled turn's events: TurnStream!Order is inductive     *)
(* given the bookkeeping, and Faithful is what it says of `got`.           *)

LEMMA OrderInit == Init => Order
<1> SUFFICES ASSUME Init, Settled PROVE SettledLog /\ SettledGot /\ SettledSource
  BY DEF Order
<1>1. /\ log = <<"user", "finished">> /\ work = "idle" /\ base = 0 /\ sent = FALSE
      /\ pc = "open" /\ rpos = 1 /\ rlim = 0 /\ seen = {} /\ got = <<>>
  BY DEF Init, Settled
<1>2. SettledLog
  BY <1>1 DEF SettledLog
<1>3. SettledGot
  BY <1>1 DEF SettledGot
<1>4. SettledSource
  BY <1>1 DEF SettledSource, Replaying
<1> QED
  BY <1>2, <1>3, <1>4

(* Yielding an event that is not past the one expected next: it is either  *)
(* that one, the turn's own message, or one already seen.                  *)
LEMMA YieldOrder ==
  ASSUME TypeOK, SettledLog, SettledGot,
         NEW id \in 3..Expected, id <= Len(log), Yield(id)
  PROVE  /\ SettledGot'
         /\ Len(got') \in Nat /\ Len(got') >= Len(got)
         /\ id = Expected => Len(got') = Len(got) + 1
         /\ pc' \in {pc, "done"}
<1> USE DEF TypeOK, SettledLog, SettledGot, Expected
<1>1. CASE id \in seen
  <2>1. got' = got /\ seen' = seen /\ pc' = pc
    BY <1>1 DEF Yield, Skip, locals
  <2> QED
    BY <1>1, <2>1
<1>2. CASE id \notin seen /\ id = 3
  <2>1. Consume(id)
    BY <1>2 DEF Yield
  <2>2. log[id] = "user"
    BY <1>2
  <2>3. got' = got /\ seen' = seen \cup {3} /\ pc' = pc
    BY <1>2, <2>1, <2>2 DEF Consume, Terminal
  <2> QED
    BY <1>2, <2>3
<1>3. CASE id \notin seen /\ id # 3
  <2>1. Consume(id)
    BY <1>3 DEF Yield
  <2>2. id = Expected
    BY <1>3
  <2>3. log[id] # "user"
    BY <2>2
  <2>4. got' = Append(got, id) /\ seen' = seen \cup {id} /\ pc' \in {pc, "done"}
    BY <2>1, <2>3 DEF Consume
  <2> QED
    BY <2>2, <2>4
<1> QED
  BY <1>1, <1>2, <1>3

LEMMA OrderStep == Bookkeeping /\ Order /\ [Next]_vars => Order'
<1> SUFFICES ASSUME Bookkeeping, Order, [Next]_vars, Settled'
             PROVE  SettledLog' /\ SettledGot' /\ SettledSource'
  BY DEF Order
<1>0. Settled
  BY DEF Settled, Next, Session, Reader, vars, session, TakeUp, Emit, Break, Abort, Open, Send,
         SendFails, ReadReplay, ReadLive, Dropped, Retry, Reopen, ReopenDropped, List,
         ListDropped, Refused
<1> USE <1>0 DEF Bookkeeping, TypeOK, Order
<1>a. SettledLog /\ SettledGot /\ SettledSource /\ mode = "followup" /\ after = "id"
  BY DEF Settled
<1>b. Len(log) \in Nat /\ Len(got) \in Nat
  OBVIOUS
<1>1. CASE TakeUp
  <2>1. base = 0 /\ Len(log) = 2 /\ sent
    BY <1>1, <1>a DEF TakeUp, SettledLog
  <2>a. log' = Append(log, "user") /\ base' = Len(log') /\ work' = "this"
    BY <1>1 DEF TakeUp
  <2>b. Len(log') = 3
    <3>1. "user" \in Kind
      BY DEF Kind
    <3>2. Len(log') = Len(log) + 1
      BY <2>a, <3>1
    <3> QED
      BY <2>1, <3>2
  <2>2. log' = Append(log, "user") /\ base' = 3 /\ work' = "this" /\ Len(log') = 3
    BY <2>a, <2>b
  <2>3. UNCHANGED <<sent, pc, conn, replay, locals, streams, aborted>>
    BY <1>1 DEF TakeUp
  <2>4. SettledLog'
    BY <2>1, <2>2 DEF SettledLog
  <2>5. SettledGot'
    BY <1>a, <2>3 DEF SettledGot, locals
  <2>6. SettledSource'
    BY <1>a, <1>b, <2>1, <2>2, <2>3 DEF SettledSource, Replaying, Expected, conn, replay, locals
  <2> QED
    BY <2>4, <2>5, <2>6
<1>2. ASSUME NEW k \in Ongoing \cup Terminal, Emit(k)
      PROVE  SettledLog' /\ SettledGot' /\ SettledSource'
  <2>1. base = 3 /\ work = "this" /\ k # "user" /\ k \in Kind
    BY <1>2, <1>a, OngoingAssumption DEF Emit, SettledLog, AllOngoing, Terminal, Kind
  <2>2. log' = Append(log, k) /\ work' \in {"this", "idle", "over"} /\ Len(log') = Len(log) + 1
    BY <1>2, <2>1 DEF Emit
  <2>3. UNCHANGED <<base, sent, pc, conn, replay, locals, streams, aborted>>
    BY <1>2 DEF Emit
  <2>4. SettledLog'
    BY <1>a, <2>1, <2>2, <2>3 DEF SettledLog
  <2>5. SettledGot'
    BY <1>a, <2>3 DEF SettledGot, locals
  <2>6. SettledSource'
    BY <1>a, <1>b, <2>1, <2>2, <2>3 DEF SettledSource, Replaying, Expected, conn, replay, locals
  <2> QED
    BY <2>4, <2>5, <2>6
<1>3. ASSUME UNCHANGED <<log, work, base, seen, got>>
      PROVE  SettledLog' /\ SettledGot' /\ Expected' = Expected
  BY <1>3, <1>a DEF SettledLog, SettledGot, Expected
<1>4. CASE Break
  BY <1>4, <1>3, <1>a DEF Break, SettledSource, Replaying, session, replay, locals
<1>5. CASE Abort
  BY <1>5, <1>3, <1>a DEF Abort, SettledSource, Replaying, session, conn, replay, locals
<1>6. CASE Open
  <2>1. base = 0 /\ sent = FALSE /\ ~Replaying /\ Len(log) = 2
    BY <1>6, <1>a DEF Open, SettledSource, SettledLog
  <2>2. pc' = "send" /\ pos' = 3
    BY <1>6, <1>a, <2>1 DEF Open, Connect
  <2> QED
    BY <1>6, <1>3, <2>1, <2>2 DEF Open, SettledSource, Replaying, session, replay, locals
<1>7. CASE Send \/ SendFails
  BY <1>7, <1>3, <1>a, <1>b
  DEF Send, SendFails, SettledSource, Replaying, Expected, session, conn, replay, locals
<1>8. CASE ReadReplay
  <2>1. /\ rpos \in 4..Expected /\ rpos \in 3..Expected /\ rpos <= Len(log) /\ pos \in 3..(rlim + 1)
        /\ rpos <= rlim /\ pc = "read" /\ Yield(rpos)
    BY <1>8, <1>a DEF ReadReplay, SettledSource, Replaying
  <2>2. /\ SettledGot' /\ Len(got') \in Nat /\ Len(got') >= Len(got)
        /\ rpos = Expected => Len(got') = Len(got) + 1
        /\ pc' \in {"read", "done"}
    BY <1>a, <2>1, YieldOrder
  <2>3. rpos' = rpos + 1 /\ UNCHANGED <<session, sent, conn, rlim>>
    BY <1>8 DEF ReadReplay
  <2>4. SettledLog'
    BY <1>a, <2>3 DEF SettledLog, session
  <2>5. rpos' \in 4..Expected'
    BY <1>b, <2>1, <2>2, <2>3 DEF Expected
  <2>6. pos' = pos /\ rlim' = rlim /\ pc' \notin {"open", "send", "list"}
    BY <2>2, <2>3 DEF conn
  <2>7. ~(rpos' <= rlim') => pos' \in 3..Expected'
    BY <1>b, <2>1, <2>2, <2>3, <2>5, <2>6 DEF Expected
  <2>8. SettledSource'
    BY <2>1, <2>5, <2>6, <2>7 DEF SettledSource, Replaying
  <2> QED
    BY <2>2, <2>4, <2>8
<1>9. CASE ReadLive
  <2>1. /\ pos \in 3..Expected /\ pos <= Len(log) /\ pc = "read" /\ Yield(pos) /\ ~Replaying
    BY <1>9, <1>a DEF ReadLive, SettledSource, Reach
  <2>2. /\ SettledGot' /\ Len(got') \in Nat /\ Len(got') >= Len(got)
        /\ pos = Expected => Len(got') = Len(got) + 1
        /\ pc' \in {"read", "done"}
    BY <1>a, <2>1, YieldOrder
  <2>3. pos' = pos + 1 /\ UNCHANGED <<session, sent, replay>>
    BY <1>9 DEF ReadLive
  <2>4. SettledLog'
    BY <1>a, <2>3 DEF SettledLog, session
  <2>5. pos' \in 3..Expected'
    BY <1>b, <2>1, <2>2, <2>3 DEF Expected
  <2>6. SettledSource'
    BY <2>1, <2>2, <2>3, <2>5 DEF SettledSource, Replaying, replay, session
  <2> QED
    BY <2>2, <2>4, <2>6
<1>10. CASE Dropped
  BY <1>10, <1>3, <1>a DEF Dropped, SettledSource, Replaying, session, locals
<1>11. CASE Retry
  BY <1>11, <1>3, <1>a DEF Retry, Raise, SettledSource, Replaying, session, conn, replay
<1>12. CASE Reopen
  <2>1. pos' \in 3..(Len(log) + 1)
    <3>1. pos' = Len(log) + 1
      BY <1>12 DEF Reopen, Connect
    <3>2. Len(log) >= 2
      BY <1>a, <1>b DEF SettledLog
    <3> QED
      BY <1>b, <3>1, <3>2
  <2> QED
    BY <1>12, <1>3, <1>a, <2>1 DEF Reopen, SettledSource, Replaying, session, replay, locals
<1>13. CASE ReopenDropped
  BY <1>13, <1>3, <1>a DEF ReopenDropped, SettledSource, Replaying, session, replay, locals
<1>14. CASE List
  <2>1. pos \in 3..(Len(log) + 1) /\ pc' = "read" /\ pos' = pos /\ rlim' = Len(log)
    BY <1>14, <1>a DEF List, SettledSource, conn
  <2>3. base = 0 => Len(log) = 2
    BY <1>a DEF SettledLog
  <2>2. rpos' = IF base = 0 THEN 3 ELSE 4
    <3>1. rpos' = MissedFrom
      BY <1>14 DEF List
    <3>2. CASE base = 0
      <4>1. MissedFrom = Len(log) + 1
        BY <1>a, <3>2 DEF MissedFrom
      <4>2. Len(log) = 2
        BY <2>3, <3>2
      <4>3. rpos' = 3
        BY <3>1, <4>1, <4>2
      <4> QED
        BY <3>2, <4>3
    <3>3. CASE base = 3
      <4>1. MissedFrom = base + 1
        BY <1>a, <3>3 DEF MissedFrom
      <4> QED
        BY <3>1, <3>3, <4>1
    <3> QED
      BY <1>a, <3>2, <3>3 DEF SettledLog
  <2>4. UNCHANGED <<session, sent, locals>>
    BY <1>14 DEF List
  <2>5. SettledLog' /\ SettledGot' /\ Expected' = Expected
    BY <1>3, <2>4 DEF session, locals
  <2>6. base = 0 \/ base = 3
    BY <1>a DEF SettledLog
  <2>a. ASSUME base = 0
        PROVE  ~(rpos' <= rlim') /\ pos' \in 3..Expected'
    <3>1. rpos' = 3 /\ rlim' = 2 /\ pos' = 3
      <4>1. Len(log) = 2
        BY <2>3, <2>a
      <4> QED
        BY <2>1, <2>2, <2>a, <4>1
    <3> QED
      BY <1>b, <2>5, <3>1 DEF Expected
  <2>b. ASSUME base = 3
        PROVE  /\ rpos' \in 4..Expected' /\ pos' \in 3..(rlim' + 1)
               /\ ~(rpos' <= rlim') => pos' \in 3..Expected'
    BY <1>b, <2>1, <2>2, <2>5, <2>b DEF Expected
  <2>7. rpos' <= rlim' => rpos' \in 4..Expected' /\ pos' \in 3..(rlim' + 1)
    BY <2>6, <2>a, <2>b
  <2>8. ~(rpos' <= rlim') => pos' \in 3..Expected'
    BY <2>6, <2>a, <2>b
  <2>9. SettledSource'
    BY <2>1, <2>7, <2>8 DEF SettledSource, Replaying
  <2> QED
    BY <2>5, <2>9
<1>15. CASE ListDropped
  BY <1>15, <1>3, <1>a DEF ListDropped, SettledSource, Replaying, session, conn, replay, locals
<1>16. CASE Refused
  BY <1>16, <1>3, <1>a DEF Refused, Raise, SettledSource, Replaying, session, conn, replay, locals
<1>17. CASE UNCHANGED vars
  BY <1>17, <1>3, <1>a DEF vars, SettledSource, Replaying, session, conn, replay, locals
<1> QED
  BY <1>1, <1>2, <1>4, <1>5, <1>6, <1>7, <1>8, <1>9, <1>10, <1>11, <1>12, <1>13, <1>14,
     <1>15, <1>16, <1>17 DEF Next, Session, Reader

(* Through any number of drops, at any moment, a settled turn's events are *)
(* consumed in order, none missing, none twice and none of another turn.   *)
THEOREM FaithfulDelivery == Spec => []Faithful
<1>1. Bookkeeping /\ Order => Faithful
  <2> SUFFICES ASSUME TypeOK, SettledLog, SettledGot, NEW i \in DOMAIN got
               PROVE  got[i] = base + i
    BY DEF Bookkeeping, Order, Faithful
  <2>1. Len(got) \in Nat /\ i \in 1..Len(got) /\ Len(log) \in Nat
    BY DEF TypeOK
  <2>2. 4 \in seen
    BY <2>1 DEF SettledGot
  <2>3. base = 3
    BY <2>2, <2>1 DEF TypeOK, SettledLog
  <2> QED
    BY <2>1, <2>3 DEF SettledGot
<1> QED
  BY <1>1, BookkeepingInit, BookkeepingStep, OrderInit, OrderStep, PTL DEF Spec

(* However the turn was started, no event is consumed twice.               *)
LEMMA GotSeenStep ==
  TypeOK /\ ExactlyOnce /\ (\A i \in DOMAIN got : got[i] \in seen) /\ [Next]_vars
    => ExactlyOnce' /\ (\A i \in DOMAIN got : got[i] \in seen)'
<1> SUFFICES ASSUME TypeOK, ExactlyOnce, \A i \in DOMAIN got : got[i] \in seen, [Next]_vars
             PROVE  ExactlyOnce' /\ (\A i \in DOMAIN got : got[i] \in seen)'
  OBVIOUS
<1>1. ASSUME NEW id \in Nat, Yield(id)
      PROVE  ExactlyOnce' /\ (\A i \in DOMAIN got : got[i] \in seen)'
  <2>1. \/ UNCHANGED <<seen, got>>
        \/ id \notin seen /\ seen' = seen \cup {id} /\ got' = got
        \/ id \notin seen /\ seen' = seen \cup {id} /\ got' = Append(got, id)
    BY <1>1 DEF Yield, Consume, Skip, locals
  <2>2. CASE got' = Append(got, id) /\ id \notin seen /\ seen' = seen \cup {id}
    <3>1. /\ DOMAIN got = 1..Len(got) /\ Len(got) \in Nat /\ DOMAIN got' = 1..(Len(got) + 1)
          /\ \A i \in 1..Len(got) : got'[i] = got[i]
          /\ got'[Len(got) + 1] = id
      BY <2>2 DEF TypeOK
    <3> QED
      BY <2>2, <3>1 DEF ExactlyOnce
  <2> QED
    BY <2>1, <2>2 DEF ExactlyOnce
<1>2. CASE UNCHANGED <<seen, got>>
  BY <1>2 DEF ExactlyOnce
<1>3. \/ UNCHANGED <<seen, got>>
      \/ pc = "read" /\ (Yield(rpos) \/ Yield(pos))
  BY DEF Next, Session, Reader, vars, locals, TakeUp, Emit, Break, Abort, Open, Send, SendFails,
         ReadReplay, ReadLive, Dropped, Retry, Reopen, ReopenDropped, List, ListDropped, Refused
<1> QED
  BY <1>1, <1>2, <1>3 DEF TypeOK

THEOREM NoEventTwice == Spec => []ExactlyOnce
<1>1. Init => ExactlyOnce /\ \A i \in DOMAIN got : got[i] \in seen
  BY DEF Init, ExactlyOnce
<1> QED
  BY <1>1, GotSeenStep, TypeCorrect, PTL DEF Spec

-----------------------------------------------------------------------------
(* The refinement: a settled turn's reader implements TurnReader.          *)

AEvents == IF Settled /\ base # 0 THEN SubSeq(log, base + 1, Len(log)) ELSE <<>>
ARead == IF Settled THEN Len(got) ELSE 0
AState == CASE Settled /\ pc = "done" -> "complete"
            [] Settled /\ pc = "raised" -> "failed"
            [] OTHER -> "reading"

(* What follows the first b elements of a sequence. *)
LEMMA SuffixElements ==
  ASSUME NEW S, NEW s \in Seq(S), NEW b \in Nat, b <= Len(s)
  PROVE  /\ SubSeq(s, b + 1, Len(s)) \in Seq(S)
         /\ Len(SubSeq(s, b + 1, Len(s))) = Len(s) - b
         /\ \A i \in 1..(Len(s) - b) : SubSeq(s, b + 1, Len(s))[i] = s[b + i]
<1>1. Len(s) \in Nat /\ b + 1 \in 1..(Len(s) + 1) /\ Len(s) \in ((b + 1) - 1)..Len(s)
  OBVIOUS
<1>2. /\ SubSeq(s, b + 1, Len(s)) \in Seq(S)
      /\ Len(SubSeq(s, b + 1, Len(s))) = Len(s) - (b + 1) + 1
      /\ \A i \in 1..(Len(s) - (b + 1) + 1) : SubSeq(s, b + 1, Len(s))[i] = s[(b + 1) + i - 1]
  BY <1>1, SubSeqProperties
<1>3. QED
  BY <1>1, <1>2

(* The events of the turn after one more was emitted. *)
LEMMA SuffixAppend ==
  ASSUME NEW S, NEW s \in Seq(S), NEW e \in S, NEW b \in 1..Len(s)
  PROVE  SubSeq(Append(s, e), b + 1, Len(s) + 1) = Append(SubSeq(s, b + 1, Len(s)), e)
<1> DEFINE t == Append(s, e)
           u == SubSeq(t, b + 1, Len(s) + 1)
           v == SubSeq(s, b + 1, Len(s))
<1>1. /\ t \in Seq(S) /\ Len(t) = Len(s) + 1 /\ t[Len(s) + 1] = e
      /\ \A i \in 1..Len(s) : t[i] = s[i]
  OBVIOUS
<1> HIDE DEF t
<1>2. /\ u \in Seq(S) /\ Len(u) = Len(t) - b
      /\ \A i \in 1..(Len(t) - b) : u[i] = t[b + i]
  <2>1. b \in Nat /\ b <= Len(t) /\ u = SubSeq(t, b + 1, Len(t))
    BY <1>1
  <2> QED
    BY <1>1, <2>1, SuffixElements
<1>3. /\ Len(u) = Len(s) - b + 1
      /\ \A i \in 1..(Len(s) - b + 1) : u[i] = t[b + i]
  BY <1>1, <1>2
<1>4. /\ v \in Seq(S) /\ Len(v) = Len(s) - b
      /\ \A i \in 1..(Len(s) - b) : v[i] = s[b + i]
  BY SuffixElements
<1> HIDE DEF t, u, v
<1>5. /\ Append(v, e) \in Seq(S) /\ Len(Append(v, e)) = Len(v) + 1
      /\ Append(v, e)[Len(v) + 1] = e
      /\ \A i \in 1..Len(v) : Append(v, e)[i] = v[i]
  BY <1>4
<1>6. ASSUME NEW i \in 1..Len(u) PROVE u[i] = Append(v, e)[i]
  <2>0. Len(s) \in Nat /\ b \in Nat /\ 1 <= b /\ b <= Len(s)
    OBVIOUS
  <2>1. CASE i = Len(s) - b + 1
    <3>1. u[i] = t[b + i] /\ b + i = Len(s) + 1
      BY <1>3, <2>0, <2>1
    <3>2. Append(v, e)[i] = e
      BY <1>4, <1>5, <2>0, <2>1
    <3> QED
      BY <1>1, <3>1, <3>2
  <2>2. CASE i # Len(s) - b + 1
    <3>1. i \in 1..(Len(s) - b) /\ b + i \in 1..Len(s)
      BY <1>3, <2>0, <2>2
    <3>2. u[i] = t[b + i] /\ v[i] = s[b + i] /\ t[b + i] = s[b + i] /\ Append(v, e)[i] = v[i]
      BY <1>1, <1>3, <1>4, <1>5, <2>0, <3>1
    <3> QED
      BY <3>2
  <2> QED
    BY <2>1, <2>2
<1>7. Len(u) = Len(Append(v, e))
  BY <1>3, <1>4, <1>5
<1>8. u = Append(v, e)
  BY <1>2, <1>5, <1>6, <1>7, SeqEqual
<1> QED
  BY <1>8 DEF t, u, v

(* A yielded event of a settled turn is a Read of the specification, or    *)
(* nothing.                                                                *)
LEMMA YieldReads ==
  ASSUME Bookkeeping, Order, Settled, pc = "read", UNCHANGED session,
         NEW id \in 3..Expected, id <= Len(log), Yield(id)
  PROVE  \/ AEvents' = AEvents /\ ARead' = ARead /\ AState' = AState
         \/ /\ AState = "reading" /\ ARead < Len(AEvents) /\ ARead' = ARead + 1
            /\ AState' = IF AEvents[ARead + 1] \in Terminal THEN "complete" ELSE "reading"
            /\ AEvents' = AEvents
<1> USE DEF Bookkeeping, TypeOK
<1>1. Settled' /\ AEvents' = AEvents /\ ARead = Len(got) /\ ARead' = Len(got') /\ AState = "reading"
  BY DEF Settled, session, AEvents, ARead, AState
<1>2. SettledLog /\ SettledGot /\ id \in Nat /\ Len(got) \in Nat /\ Len(log) \in Nat
  BY DEF Order
<1>3. base = 3
  <2>1. Len(log) >= 3
    BY <1>2 DEF Expected
  <2>2. base = 0 => Len(log) = 2
    BY <1>2 DEF SettledLog
  <2>3. base = 0 \/ base = 3
    BY <1>2 DEF SettledLog
  <2>4. ~(2 >= 3)
    OBVIOUS
  <2>5. base # 0
    <3> HIDE DEF Bookkeeping, TypeOK
    <3> QED BY <2>1, <2>2, <2>4, Zenon
  <2> QED
    <3> HIDE DEF Bookkeeping, TypeOK
    <3> QED BY <2>3, <2>5, Zenon
<1>4. CASE pc' = pc /\ got' = got
  BY <1>1, <1>4 DEF AState, ARead
<1>5. CASE Consume(id) /\ id = Expected
  <2>1. log[id] # "user" /\ id = 4 + Len(got)
    BY <1>2, <1>5 DEF SettledLog, Expected
  <2>2. got' = Append(got, id) /\ Len(got') = Len(got) + 1
    BY <1>5, <2>1 DEF Consume
  <2>3. AEvents = SubSeq(log, 4, Len(log))
    BY <1>3 DEF AEvents
  <2>4. Len(AEvents) = Len(log) - 3 /\ AEvents[Len(got) + 1] = log[id]
    <3>1. \A i \in 4..Len(log) : log[i] \in Kind
      OBVIOUS
    <3>2. /\ Len(AEvents) = Len(log) - 3
          /\ \A i \in 1..(Len(log) - 3) : AEvents[i] = log[4 + i - 1]
      BY <1>2, <2>1, <2>3, <3>1, SubSeqProperties
    <3> QED
      BY <1>2, <2>1, <3>2
  <2>5. pc' = IF log[id] \in Terminal THEN "done" ELSE "read"
    BY <1>5 DEF Consume, streams
  <2>6. AState' = IF log[id] \in Terminal THEN "complete" ELSE "reading"
    BY <1>1, <2>5 DEF AState
  <2> QED
    BY <1>1, <1>2, <2>1, <2>2, <2>4, <2>6
<1>6. id \in seen \/ id = 3 \/ id = Expected
  BY <1>2 DEF SettledGot, Expected
<1>7. id \in seen => pc' = pc /\ got' = got
  BY DEF Yield, Skip, locals
<1>8. id \notin seen /\ id = 3 => pc' = pc /\ got' = got
  <2>1. log[3] = "user"
    BY <1>2, <1>3 DEF SettledLog
  <2> QED
    BY <2>1 DEF Yield, Consume, Terminal
<1> QED
  BY <1>4, <1>5, <1>6, <1>7, <1>8 DEF Yield

LEMMA RefinesStep == Bookkeeping /\ Order /\ [Next]_vars => [Abstract!Next]_(Abstract!vars)
<1> SUFFICES ASSUME Bookkeeping, Order, [Next]_vars
             PROVE  \/ AEvents' = AEvents /\ ARead' = ARead /\ AState' = AState
                    \/ \E k \in Kind : AEvents' = Append(AEvents, k) /\ ARead' = ARead /\ AState' = AState
                    \/ /\ AState = "reading" /\ ARead < Len(AEvents) /\ ARead' = ARead + 1
                       /\ AState' = IF AEvents[ARead + 1] \in Terminal THEN "complete" ELSE "reading"
                       /\ AEvents' = AEvents
                    \/ /\ AState = "reading" /\ AState' = "failed"
                       /\ AEvents' = AEvents /\ ARead' = ARead
  BY Zenon DEF Abstract!Next, Abstract!Emit, Abstract!Read, Abstract!Fail, Abstract!vars,
               AEvents, ARead, AState
<1>0. Settled' = Settled
  BY DEF Settled, Next, Session, Reader, vars, session, TakeUp, Emit, Break, Abort, Open, Send,
         SendFails, ReadReplay, ReadLive, Dropped, Retry, Reopen, ReopenDropped, List,
         ListDropped, Refused
<1>1. CASE ~Settled
  BY <1>0, <1>1 DEF AEvents, ARead, AState
<1>2. CASE Settled
  <2> USE <1>0, <1>2 DEF Bookkeeping, TypeOK
  <2>0. SettledLog /\ SettledGot /\ SettledSource
    BY DEF Order
  <2>1. ASSUME UNCHANGED <<log, base, got>>
        PROVE  AEvents' = AEvents /\ ARead' = ARead
    BY <2>1 DEF AEvents, ARead
  <2>2. ASSUME UNCHANGED <<log, base, got>>, pc \notin Ended, pc' \notin Ended
        PROVE  AEvents' = AEvents /\ ARead' = ARead /\ AState' = AState
    BY <2>1, <2>2 DEF AState, Ended
  <2>3. ASSUME UNCHANGED <<log, base, got>>, pc \notin Ended, pc' = "raised"
        PROVE  /\ AState = "reading" /\ AState' = "failed"
               /\ AEvents' = AEvents /\ ARead' = ARead
    BY <2>1, <2>3 DEF AState, Ended
  <2>4. CASE TakeUp
    <3>1. base = 0 /\ Len(log) = 2 /\ base' = Len(log') /\ UNCHANGED <<pc, got>>
      BY <2>0, <2>4 DEF TakeUp, SettledLog, locals
    <3>2. AEvents = <<>>
      BY <3>1 DEF AEvents
    <3>3. AEvents' = <<>>
      BY <3>1, SubSeqEmpty DEF AEvents
    <3> QED
      BY <3>1, <3>2, <3>3 DEF ARead, AState
  <2>5. ASSUME NEW k \in Ongoing \cup Terminal, Emit(k)
        PROVE  \E kk \in Kind : AEvents' = Append(AEvents, kk) /\ ARead' = ARead /\ AState' = AState
    <3>1. base = 3 /\ k \in Kind /\ base \in 1..Len(log)
      BY <2>0, <2>5 DEF Emit, SettledLog, Kind
    <3>2. log' = Append(log, k) /\ UNCHANGED <<base, pc, got>> /\ Len(log') = Len(log) + 1
      BY <2>5, <3>1 DEF Emit, locals
    <3>3. AEvents' = Append(AEvents, k)
      <4>1. AEvents = SubSeq(log, base + 1, Len(log))
        BY <3>1 DEF AEvents
      <4>2. AEvents' = SubSeq(Append(log, k), base + 1, Len(log) + 1)
        BY <3>1, <3>2 DEF AEvents
      <4>3. SubSeq(Append(log, k), base + 1, Len(log) + 1) = Append(SubSeq(log, base + 1, Len(log)), k)
        BY <3>1, SuffixAppend
      <4> QED
        BY <4>1, <4>2, <4>3
    <3>4. ARead' = ARead /\ AState' = AState
      BY <3>2 DEF ARead, AState
    <3> QED
      BY <3>1, <3>3, <3>4
  <2>6. CASE ReadReplay
    <3>1. /\ rpos \in 3..Expected /\ rpos <= Len(log) /\ pc = "read"
          /\ Yield(rpos) /\ UNCHANGED session
      BY <2>0, <2>6 DEF ReadReplay, SettledSource, Replaying, Expected
    <3> QED
      BY <3>1, YieldReads
  <2>7. CASE ReadLive
    <3>1. /\ pos \in 3..Expected /\ pos <= Len(log) /\ pc = "read"
          /\ Yield(pos) /\ UNCHANGED session
      BY <2>0, <2>7 DEF ReadLive, SettledSource, Reach
    <3> QED
      BY <3>1, YieldReads
  <2>8. CASE UNCHANGED vars \/ Break \/ Abort
    <3>1. UNCHANGED <<log, base, got, pc>>
      BY <2>8 DEF vars, Break, Abort, session, locals
    <3> QED
      BY <2>1, <3>1 DEF AState
  <2>9. CASE Open \/ Send \/ Dropped \/ Reopen \/ ReopenDropped \/ List \/ ListDropped
    <3>1. UNCHANGED <<log, base, got>> /\ pc \notin Ended /\ pc' \notin Ended
      BY <2>9 DEF Open, Send, Dropped, Reopen, ReopenDropped, List, ListDropped, session, locals, Ended
    <3> QED
      BY <2>2, <3>1
  <2>10. CASE SendFails \/ Refused \/ Retry
    <3>1. UNCHANGED <<log, base, got>> /\ pc \notin Ended /\ pc' \in {"raised", "sleep"}
      BY <2>10 DEF SendFails, Refused, Retry, Raise, session, locals, Ended
    <3>2. CASE pc' = "sleep"
      BY <2>2, <3>1, <3>2 DEF Ended
    <3>3. CASE pc' = "raised"
      BY <2>3, <3>1, <3>3
    <3> QED
      BY <3>1, <3>2, <3>3
  <2> QED
    BY <2>4, <2>5, <2>6, <2>7, <2>8, <2>9, <2>10 DEF Next, Session, Reader
<1> QED
  BY <1>1, <1>2

LEMMA RefinesInit == Init => Abstract!Init
<1> SUFFICES ASSUME Init PROVE AEvents = <<>> /\ ARead = 0 /\ AState = "reading"
  BY Zenon DEF Abstract!Init, AEvents, ARead, AState
<1>1. pc = "open" /\ got = <<>> /\ (Settled => base = 0)
  BY DEF Init, Settled
<1> QED
  BY <1>1 DEF AEvents, ARead, AState

(* turn_events with its consumer, over connections that drop, implements   *)
(* the reader that is handed exactly the turn's events.                    *)
THEOREM Refinement == Spec => ImplementsTurnReader
<1>1. Spec => [](Bookkeeping /\ Order)
  BY BookkeepingInit, BookkeepingStep, OrderInit, OrderStep, PTL DEF Spec
<1> QED
  BY <1>1, RefinesInit, RefinesStep, PTL DEF Spec, ImplementsTurnReader, Abstract!Spec
=============================================================================
