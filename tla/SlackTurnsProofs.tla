-------------------------- MODULE SlackTurnsProofs --------------------------
(***************************************************************************)
(* Proofs about SlackTurns, for any messages and threads, any pool, any    *)
(* number of deliveries and crashes, and every combination of faults.      *)
(***************************************************************************)
EXTENDS SlackTurns, TLAPS

(* A message is recorded before it is submitted, by one of its deliveries, *)
(* and submitted before it has a job.                                      *)
Deduplicated ==
  \A m \in Msgs :
    /\ runs[m] <= 1 /\ (runs[m] = 0 => pc[m] = "none")
    /\ m \notin seen => runs[m] = 0
    /\ \A c \in 1..Copies :
         handler[m][c] = "submit" =>
           /\ runs[m] = 0 /\ m \in seen
           /\ \A d \in 1..Copies : handler[m][d] = "submit" => d = c

(* The queue holds the jobs that wait for a worker, once each. *)
Queued == /\ \A i \in 1..Len(queue) : pc[queue[i]] = "queued"
          /\ \A i, j \in 1..Len(queue) : queue[i] = queue[j] => i = j

(* A reply is posted when the job ends, and every job ends with one. *)
Replies == \A m \in Msgs : /\ reply[m] # "none" => pc[m] = "done"
                           /\ pc[m] = "done" => reply[m] # "none" \/ m \in mute

(* The lock: one job of a thread at a time is past it. *)
Exclusive == \A m, n \in Msgs :
               pc[m] \in Holding /\ pc[n] \in Holding /\ Thread[m] = Thread[n] => m = n

(* A job uses the session of its own thread, while it holds the lock. *)
Reading == {"put", "open", "send", "read", "review"}
OwnSession ==
  /\ \A t \in Threads : store[t] # None => Thread[store[t]] = t
  /\ \A m \in Msgs : /\ sid[m] # None => Thread[sid[m]] = Thread[m] /\ pc[m] \in Holding
                     /\ pc[m] \in Reading => sid[m] # None

(* In a thread all of whose turns were read, a session has nothing to do   *)
(* but the message of the job that reads it.                               *)
Clean(t) == t \notin unread
Asked(m, s) == /\ pc[m] \in {"put", "read"} /\ sid[m] = s /\ res[m] = "none" /\ inbox[s] = <<m>>
Fresh == {"none", "queued", "waiting", "resolve", "create", "open"}
Attentive ==
  /\ \A s \in Msgs : Clean(Thread[s]) => inbox[s] = <<>> \/ \E m \in Msgs : Asked(m, s)
  /\ \A m \in Msgs : /\ pc[m] \in Fresh \cup Ended => res[m] = "none"
                     /\ pc[m] = "send" /\ Clean(Thread[m]) => res[m] = "none"
                     /\ Clean(Thread[m]) => from[m] = m

-----------------------------------------------------------------------------
(* Types.  That one revision is asked for at most makes them inductive.    *)

OneRevision == \A m \in Msgs : pc[m] = "review" => revised[m] = 0

(* A function that is changed at one point at most keeps its range. *)
LEMMA Changed ==
  ASSUME NEW S, NEW T, NEW f \in [S -> T], NEW x, NEW v, x \in S => v \in T,
         NEW g, g = f \/ g = [f EXCEPT ![x] = v]
  PROVE  g \in [S -> T]
<1>1. CASE g = f
  BY <1>1
<1>2. CASE g = [f EXCEPT ![x] = v]
  BY <1>2
<1> QED
  BY <1>1, <1>2

LEMMA TypeInit == Init => TypeOK /\ OneRevision
<1> SUFFICES ASSUME Init PROVE TypeOK /\ OneRevision
  OBVIOUS
<1> USE ThreadAssumption, BoundsAssumption, NoneAssumption DEF Init
<1>1. handler \in [Msgs -> [1..Copies -> {"sent", "claim", "submit", "over"}]] /\ queue \in Seq(Msgs)
  OBVIOUS
<1>2. seen \subseteq Msgs /\ store \in [Threads -> Msgs \cup {None}] /\ active \subseteq Threads
  OBVIOUS
<1>3. /\ pc \in [Msgs -> {"none", "queued"} \cup Working \cup Ended]
      /\ sid \in [Msgs -> Msgs \cup {None}] /\ res \in [Msgs -> {"none", "answer", "empty"}]
      /\ from \in [Msgs -> Msgs]
  OBVIOUS
<1>4. /\ answer \subseteq Msgs /\ over \subseteq Msgs /\ revised \in [Msgs -> 0..1]
      /\ inbox \in [Msgs -> Seq(Msgs)] /\ dead \subseteq Msgs
  OBVIOUS
<1>5. /\ reply \in [Msgs -> {"none", "answer", "failed"}]
      /\ runs \in [Msgs -> Nat] /\ crashes \in 0..MaxCrashes /\ unread \subseteq Threads /\ mute \subseteq Msgs
  OBVIOUS
<1>6. OneRevision
  BY DEF OneRevision
<1> QED
  BY <1>1, <1>2, <1>3, <1>4, <1>5, <1>6, Zenon DEF TypeOK

LEMMA TypeStep == TypeOK /\ OneRevision /\ [Next]_vars => (TypeOK /\ OneRevision)'
<1> SUFFICES ASSUME TypeOK, OneRevision, [Next]_vars PROVE TypeOK' /\ OneRevision'
  OBVIOUS
<1> USE ThreadAssumption, BoundsAssumption, NoneAssumption
      DEF TypeOK, db, job, render, sessions, history, To, End, Accept, HandlerTo, Working, Holding, Ended
<1>1. ASSUME NEW m \in Msgs, NEW c \in 1..Copies, Receive(m, c) PROVE TypeOK'
  BY <1>1 DEF Receive
<1>2. ASSUME NEW m \in Msgs, NEW c \in 1..Copies, Claim(m, c) PROVE TypeOK'
  BY <1>2 DEF Claim
<1>3. ASSUME NEW m \in Msgs, NEW c \in 1..Copies, Submit(m, c) PROVE TypeOK'
  BY <1>3 DEF Submit
<1>4. ASSUME NEW m \in Msgs, Begin(m) PROVE TypeOK'
  BY <1>4 DEF Begin
<1>5. ASSUME NEW m \in Msgs, Lock(m) PROVE TypeOK'
  BY <1>5 DEF Lock
<1>6. ASSUME NEW m \in Msgs, Resolve(m) PROVE TypeOK'
  <2>1. store[Thread[m]] \in Msgs \cup {None} /\ (Usable(Thread[m]) => store[Thread[m]] \in Msgs)
    BY DEF Usable
  <2>2. sid' \in [Msgs -> Msgs \cup {None}] /\ pc' \in [Msgs -> {"none", "queued"} \cup Working \cup Ended]
    BY <1>6, <2>1 DEF Resolve
  <2> QED
    BY <1>6, <2>2 DEF Resolve
<1>7. ASSUME NEW m \in Msgs, Create(m) PROVE TypeOK'
  BY <1>7 DEF Create
<1>8. ASSUME NEW m \in Msgs, Put(m) PROVE TypeOK'
  BY <1>8 DEF Put
<1>9. ASSUME NEW m \in Msgs, Open(m) PROVE TypeOK'
  BY <1>9 DEF Open
<1>10. ASSUME NEW m \in Msgs, Send(m) PROVE TypeOK'
  <2>1. Append(inbox[sid[m]], m) \in Seq(Msgs) \/ sid[m] \notin Msgs
    OBVIOUS
  <2>2. inbox' \in [Msgs -> Seq(Msgs)]
    BY <1>10, <2>1 DEF Send
  <2> QED
    BY <1>10, <2>2 DEF Send
<1>11. ASSUME NEW m \in Msgs, Consumed(m) PROVE TypeOK'
  BY <1>11 DEF Consumed
<1>12. ASSUME NEW m \in Msgs, Review(m) PROVE TypeOK'
  <2>1. revised[m] = 0
    BY <1>12 DEF Review, OneRevision
  <2>2. revised' = revised \/ revised' = [revised EXCEPT ![m] = 1]
    BY <1>12, <2>1 DEF Review
  <2>3. revised' \in [Msgs -> 0..1]
    <3>1. revised \in [Msgs -> 0..1] /\ 1 \in 0..1
      OBVIOUS
    <3> HIDE DEF TypeOK
    <3> QED
      BY <2>2, <3>1, Changed
  <2>4. res' = res \/ res' = [res EXCEPT ![m] = "none"]
    BY <1>12 DEF Review
  <2>5. pc' = [pc EXCEPT ![m] = "touch"] \/ pc' = [pc EXCEPT ![m] = "open"]
    BY <1>12 DEF Review
  <2> QED
    BY <1>12, <2>3, <2>4, <2>5 DEF Review
<1>13. ASSUME NEW m \in Msgs, Touch(m) PROVE TypeOK'
  BY <1>13 DEF Touch
<1>14. ASSUME NEW m \in Msgs, Deliver(m) PROVE TypeOK'
  BY <1>14 DEF Deliver
<1>15. ASSUME NEW m \in Msgs, Fail(m) PROVE TypeOK'
  BY <1>15 DEF Fail
<1>16. ASSUME NEW m \in Msgs, Lost(m) PROVE TypeOK'
  BY <1>16 DEF Lost
<1>17. ASSUME NEW m \in Msgs, CreateFails(m) PROVE TypeOK'
  <2>1. inbox' = inbox \/ inbox' = [inbox EXCEPT ![m] = <<m>>]
    BY <1>17 DEF CreateFails
  <2>2. unread' \subseteq Threads
    BY <1>17 DEF CreateFails
  <2>3. inbox' \in [Msgs -> Seq(Msgs)]
    <3>1. inbox \in [Msgs -> Seq(Msgs)] /\ <<m>> \in Seq(Msgs)
      OBVIOUS
    <3> HIDE DEF TypeOK
    <3> QED
      BY <2>1, <3>1, Changed
  <2> QED
    BY <1>17, <2>2, <2>3 DEF CreateFails
<1>18. ASSUME NEW m \in Msgs, SendFails(m) PROVE TypeOK'
  <2>1. Append(inbox[sid[m]], m) \in Seq(Msgs) \/ sid[m] \notin Msgs
    OBVIOUS
  <2>2. inbox' = inbox \/ inbox' = [inbox EXCEPT ![sid[m]] = Append(@, m)]
    BY <1>18 DEF SendFails
  <2>3. unread' \subseteq Threads
    BY <1>18 DEF SendFails
  <2>4. inbox' \in [Msgs -> Seq(Msgs)]
    <3> DEFINE x == sid[m]
               q == Append(inbox[x], m)
    <3>1. inbox \in [Msgs -> Seq(Msgs)] /\ (x \in Msgs => q \in Seq(Msgs))
      OBVIOUS
    <3>2. inbox' = inbox \/ inbox' = [inbox EXCEPT ![x] = q]
      BY <2>2
    <3> HIDE DEF TypeOK, x, q
    <3> QED
      BY <3>1, <3>2, Changed
  <2> QED
    BY <1>18, <2>3, <2>4 DEF SendFails
<1>19. ASSUME NEW m \in Msgs, PostFails(m) PROVE TypeOK'
  BY <1>19 DEF PostFails
<1>20. ASSUME NEW m \in Msgs, FailFails(m) PROVE TypeOK'
  BY <1>20 DEF FailFails
<1>21. ASSUME NEW s \in Msgs, FinishTurn(s) PROVE TypeOK'
  <2>1. PICK o \in {"answer", "empty"}, dies \in BOOLEAN :
          /\ inbox' = [inbox EXCEPT ![s] = IF dies THEN <<>> ELSE Tail(@)]
          /\ dead' = IF dies THEN dead \cup {s} ELSE dead
          /\ res' = [m \in Msgs |-> IF sid[m] = s /\ Listening(m) THEN o ELSE res[m]]
          /\ from' = [m \in Msgs |-> IF m \in Taking(s, o) THEN Head(inbox[s]) ELSE from[m]]
          /\ over' = IF dies THEN over \cup Taking(s, o) ELSE over \ Taking(s, o)
    BY <1>21, Zenon DEF FinishTurn
  <2>2. inbox[s] \in Seq(Msgs) /\ inbox[s] # <<>>
    BY <1>21 DEF FinishTurn
  <2>3. Head(inbox[s]) \in Msgs /\ Tail(inbox[s]) \in Seq(Msgs) /\ <<>> \in Seq(Msgs)
    BY <2>2
  <2>4. inbox' \in [Msgs -> Seq(Msgs)] /\ dead' \subseteq Msgs
    BY <2>1, <2>3
  <2>5. res' \in [Msgs -> {"none", "answer", "empty"}]
    BY <2>1
  <2>6. from' \in [Msgs -> Msgs]
    BY <2>1, <2>3
  <2>7. over' \subseteq Msgs
    BY <2>1 DEF Taking
  <2> QED
    BY <1>21, <2>4, <2>5, <2>6, <2>7 DEF FinishTurn
<1>22. ASSUME Crash PROVE TypeOK'
  BY <1>22 DEF Crash
<1>23. ASSUME UNCHANGED vars PROVE TypeOK'
  BY <1>23 DEF vars
<1>24. TypeOK'
  BY <1>1, <1>2, <1>3, <1>4, <1>5, <1>6, <1>7, <1>8, <1>9, <1>10, <1>11, <1>12, <1>13, <1>14, <1>15, <1>16, <1>17, <1>18, <1>19, <1>20, <1>21, <1>23, <1>22, Zenon DEF Next, Job
<1>25. ASSUME NEW m \in Msgs, pc'[m] = "review" PROVE revised'[m] = 0
  <2> USE <1>25 DEF OneRevision
  <2>1. ASSUME NEW n \in Msgs, NEW c \in 1..Copies, Receive(n, c) \/ Claim(n, c) \/ Submit(n, c)
        PROVE  revised'[m] = 0
    BY <2>1 DEF Receive, Claim, Submit
  <2>2. ASSUME NEW n \in Msgs, Begin(n) \/ Lock(n) \/ Resolve(n) \/ Create(n) \/ Put(n) \/ Open(n)
        PROVE  revised'[m] = 0
    BY <2>2 DEF Begin, Lock, Resolve, Create, Put, Open
  <2>3. ASSUME NEW n \in Msgs, Send(n) \/ Consumed(n) \/ Review(n) \/ Touch(n) \/ Deliver(n) \/ Fail(n)
        PROVE  revised'[m] = 0
    BY <2>3 DEF Send, Consumed, Review, Touch, Deliver, Fail
  <2>4. ASSUME NEW n \in Msgs, Lost(n) \/ CreateFails(n) \/ SendFails(n) \/ PostFails(n) \/ FailFails(n)
        PROVE  revised'[m] = 0
    BY <2>4 DEF Lost, CreateFails, SendFails, PostFails, FailFails
  <2>5. ASSUME Crash \/ UNCHANGED vars \/ \E s \in Msgs : FinishTurn(s)
        PROVE  revised'[m] = 0
    BY <2>5 DEF Crash, vars, FinishTurn
  <2> QED
    BY <2>1, <2>2, <2>3, <2>4, <2>5, Zenon DEF Next, Job
<1> QED
  BY <1>24, <1>25 DEF OneRevision

(* Every variable keeps its type, and at most one revision is asked for.   *)
THEOREM TypeCorrect == Spec => []TypeOK
  BY TypeInit, TypeStep, PTL DEF Spec

-----------------------------------------------------------------------------
(* Jobs.                                                                   *)

(* What a job does once a worker has started it. *)
Works(m) == \/ Lock(m) \/ Resolve(m) \/ Create(m) \/ Put(m) \/ Open(m) \/ Send(m)
            \/ Consumed(m) \/ Review(m) \/ Touch(m) \/ Deliver(m) \/ Fail(m)
            \/ Lost(m) \/ CreateFails(m) \/ SendFails(m) \/ PostFails(m) \/ FailFails(m)

(* It moves within the lock, or takes it. *)
LEMMA WorksMoves ==
  ASSUME NEW m \in Msgs, Works(m)
  PROVE  /\ \E p \in Holding \cup {"done"} : pc' = [pc EXCEPT ![m] = p]
         /\ pc[m] \in Holding \/ (pc[m] = "waiting" /\ ~Locked(Thread[m]))
         /\ UNCHANGED <<handler, seen, queue, runs, crashes>>
<1> USE DEF db, job, render, sessions, history, To, End, Holding
<1>1. CASE Lock(m) \/ Resolve(m) \/ Create(m) \/ Put(m) \/ Open(m) \/ Send(m)
  BY <1>1 DEF Lock, Resolve, Create, Put, Open, Send
<1>2. CASE Consumed(m) \/ Review(m) \/ Touch(m) \/ Deliver(m) \/ Fail(m)
  BY <1>2 DEF Consumed, Review, Touch, Deliver, Fail
<1>3. CASE Lost(m) \/ CreateFails(m) \/ SendFails(m) \/ PostFails(m) \/ FailFails(m)
  BY <1>3 DEF Lost, CreateFails, SendFails, PostFails, FailFails
<1> QED
  BY <1>1, <1>2, <1>3, Zenon DEF Works

Jobs == Deduplicated /\ Queued /\ Exclusive

LEMMA JobsInit == Init => Jobs
  BY ThreadAssumption DEF Init, Jobs, Deduplicated, Queued, Exclusive, Holding

LEMMA JobsStep == TypeOK /\ Jobs /\ [Next]_vars => Jobs'
<1> SUFFICES ASSUME TypeOK, Jobs, [Next]_vars PROVE Jobs'
  OBVIOUS
<1> USE ThreadAssumption, BoundsAssumption
      DEF Jobs, TypeOK, db, job, render, sessions, history, HandlerTo
<1>0. queue \in Seq(Msgs) /\ Len(queue) \in Nat
  OBVIOUS
<1>1. ASSUME NEW m \in Msgs, NEW c \in 1..Copies, Receive(m, c) PROVE Jobs'
  BY <1>1 DEF Receive, Deduplicated, Queued, Exclusive
<1>2. ASSUME NEW m \in Msgs, NEW c \in 1..Copies, Claim(m, c) PROVE Jobs'
  BY <1>2 DEF Claim, Deduplicated, Queued, Exclusive
<1>3. ASSUME NEW m \in Msgs, NEW c \in 1..Copies, Submit(m, c) PROVE Jobs'
  <2>1. runs[m] = 0 /\ pc[m] = "none" /\ m \in seen
    BY <1>3 DEF Submit, Deduplicated
  <2>2. /\ pc' = [pc EXCEPT ![m] = "queued"] /\ runs' = [runs EXCEPT ![m] = 1]
        /\ handler' = [handler EXCEPT ![m][c] = "over"] /\ seen' = seen
    BY <1>3, <2>1 DEF Submit
  <2>3. Deduplicated'
    BY <1>3, <2>1, <2>2 DEF Submit, Deduplicated
  <2>4. /\ Len(queue') = Len(queue) + 1 /\ queue'[Len(queue) + 1] = m
        /\ \A i \in 1..Len(queue) : queue'[i] = queue[i] /\ queue[i] \in Msgs /\ queue[i] # m
    BY <1>0, <1>3, <2>1 DEF Submit, Queued
  <2>5. Queued'
    <3>0. DOMAIN pc = Msgs /\ Queued
      OBVIOUS
    <3> HIDE DEF TypeOK, Jobs
    <3>1. ASSUME NEW i \in 1..Len(queue'), i # Len(queue) + 1
          PROVE  i \in 1..Len(queue) /\ queue'[i] = queue[i] /\ queue[i] # m /\ queue[i] \in Msgs
      <4>1. i \in 1..Len(queue)
        BY <1>0, <2>4, <3>1
      <4> QED
        BY <2>4, <4>1
    <3>2. ASSUME NEW i \in 1..Len(queue') PROVE pc'[queue'[i]] = "queued"
      BY <2>2, <2>4, <3>0, <3>1, <3>2 DEF Queued
    <3>3. ASSUME NEW i \in 1..Len(queue'), NEW j \in 1..Len(queue'), queue'[i] = queue'[j] PROVE i = j
      BY <2>4, <3>0, <3>1, <3>3 DEF Queued
    <3> QED
      BY <3>2, <3>3 DEF Queued
  <2>6. Exclusive'
    BY <2>1, <2>2 DEF Exclusive, Holding
  <2> QED
    BY <2>3, <2>5, <2>6
<1>4. ASSUME NEW m \in Msgs, Begin(m) PROVE Jobs'
  <2>1. /\ Len(queue) \in Nat \ {0} /\ queue[1] = m /\ pc[m] = "queued"
        /\ pc' = [pc EXCEPT ![m] = "waiting"] /\ UNCHANGED <<handler, seen, runs>>
    BY <1>0, <1>4 DEF Begin, Queued, To
  <2>2. /\ Len(queue') = Len(queue) - 1
        /\ \A i \in 1..Len(queue') : queue'[i] = queue[i + 1] /\ queue[i + 1] \in Msgs
    BY <1>0, <1>4, <2>1 DEF Begin
  <2>3. Deduplicated'
    BY <2>1 DEF Deduplicated
  <2>4. Queued'
    <3>0. DOMAIN pc = Msgs /\ Queued
      OBVIOUS
    <3> HIDE DEF TypeOK, Jobs
    <3>1. ASSUME NEW i \in 1..Len(queue')
          PROVE  /\ i \in Nat /\ i + 1 \in 1..Len(queue)
                 /\ queue'[i] = queue[i + 1] /\ queue[i + 1] # m /\ queue[i + 1] \in Msgs
      <4>1. i \in Nat /\ i + 1 \in 1..Len(queue) /\ 1 \in 1..Len(queue) /\ i + 1 # 1
        BY <2>1, <2>2, <3>1
      <4>2. queue[i + 1] # queue[1]
        BY <3>0, <4>1 DEF Queued
      <4> QED
        BY <2>1, <2>2, <4>1, <4>2
    <3>2. ASSUME NEW i \in 1..Len(queue') PROVE pc'[queue'[i]] = "queued"
      BY <2>1, <3>0, <3>1, <3>2 DEF Queued
    <3>3. ASSUME NEW i \in 1..Len(queue'), NEW j \in 1..Len(queue'), queue'[i] = queue'[j] PROVE i = j
      <4>1. i + 1 = j + 1
        BY <3>0, <3>1, <3>3 DEF Queued
      <4> QED
        BY <3>1, <4>1
    <3> QED
      BY <3>2, <3>3 DEF Queued
  <2>5. Exclusive'
    BY <2>1 DEF Exclusive, Holding
  <2> QED
    BY <2>3, <2>4, <2>5
<1>5. ASSUME NEW m \in Msgs, Works(m) PROVE Jobs'
  <2>1. PICK p \in Holding \cup {"done"} : pc' = [pc EXCEPT ![m] = p]
    BY <1>5, WorksMoves
  <2>2. /\ pc[m] \in Holding \/ (pc[m] = "waiting" /\ ~Locked(Thread[m]))
        /\ UNCHANGED <<handler, seen, queue, runs>>
    BY <1>5, WorksMoves
  <2>3. pc[m] # "none" /\ pc[m] # "queued"
    BY <2>2 DEF Holding
  <2>4. Deduplicated'
    BY <2>1, <2>2, <2>3 DEF Deduplicated
  <2>5. Queued'
    BY <1>0, <2>1, <2>2, <2>3 DEF Queued
  <2>6. Exclusive'
    BY <2>1, <2>2 DEF Exclusive, Locked
  <2> QED
    BY <2>4, <2>5, <2>6
<1>6. ASSUME NEW s \in Msgs, FinishTurn(s) PROVE Jobs'
  BY <1>6 DEF FinishTurn, Deduplicated, Queued, Exclusive
<1>7. CASE Crash
  BY <1>7 DEF Crash, Deduplicated, Queued, Exclusive, Holding, Ended
<1>8. CASE UNCHANGED vars
  BY <1>8 DEF vars, Deduplicated, Queued, Exclusive
<1> QED
  BY <1>1, <1>2, <1>3, <1>4, <1>5, <1>6, <1>7, <1>8, Zenon DEF Next, Job, Works

(* Whatever Slack delivers again, whichever handlers race and however      *)
(* often the orchestrator dies, a message is run once (already_seen).      *)
THEOREM RunsAtMostOnce == Spec => []RunsOnce
<1>1. Jobs => RunsOnce
  BY DEF Jobs, Deduplicated, RunsOnce
<1> QED
  BY <1>1, TypeInit, TypeStep, JobsInit, JobsStep, PTL DEF Spec

-----------------------------------------------------------------------------
(* Replies.                                                                *)

LEMMA RepliesInit == Init => Replies
  BY DEF Init, Replies

LEMMA RepliesStep == TypeOK /\ Jobs /\ Replies /\ [Next]_vars => Replies'
<1> SUFFICES ASSUME TypeOK, Jobs, Replies, [Next]_vars PROVE Replies'
  OBVIOUS
<1> USE BoundsAssumption DEF TypeOK, Replies, db, job, render, sessions, history, To, End
<1>1. ASSUME NEW m \in Msgs, NEW c \in 1..Copies, Receive(m, c) \/ Claim(m, c) PROVE Replies'
  BY <1>1 DEF Receive, Claim
<1>2. ASSUME NEW m \in Msgs, NEW c \in 1..Copies, Submit(m, c) PROVE Replies'
  <2>1. pc[m] = "none"
    BY <1>2 DEF Submit, Jobs, Deduplicated
  <2> QED
    BY <1>2, <2>1 DEF Submit
<1>3. ASSUME NEW m \in Msgs, Begin(m) PROVE Replies'
  <2>1. pc[m] = "queued"
    BY <1>3 DEF Begin, Jobs, Queued
  <2> QED
    BY <1>3, <2>1 DEF Begin
<1>4. ASSUME NEW m \in Msgs, Lock(m) \/ Resolve(m) \/ Create(m) \/ Put(m) \/ Open(m) \/ Send(m)
                              \/ Consumed(m) \/ Review(m) \/ Touch(m)
      PROVE  Replies'
  BY <1>4 DEF Lock, Resolve, Create, Put, Open, Send, Consumed, Review, Touch
<1>5. ASSUME NEW m \in Msgs, Deliver(m) \/ Fail(m) \/ FailFails(m) PROVE Replies'
  BY <1>5 DEF Deliver, Fail, FailFails
<1>6. ASSUME NEW m \in Msgs, Lost(m) \/ CreateFails(m) \/ SendFails(m) \/ PostFails(m) PROVE Replies'
  BY <1>6 DEF Lost, CreateFails, SendFails, PostFails
<1>7. ASSUME NEW s \in Msgs, FinishTurn(s) PROVE Replies'
  BY <1>7 DEF FinishTurn
<1>8. CASE Crash
  BY <1>8 DEF Crash, Ended
<1>9. CASE UNCHANGED vars
  BY <1>9 DEF vars
<1> QED
  BY <1>1, <1>2, <1>3, <1>4, <1>5, <1>6, <1>7, <1>8, <1>9, Zenon DEF Next, Job

(* A job ends with an answer or a failure message in its thread, whatever  *)
(* raised in it, unless Slack refused the failure message itself (handle). *)
THEOREM AlwaysAWord == Spec => []NeverSilent
<1>1. Replies => NeverSilent
  BY DEF Replies, NeverSilent
<1> QED
  BY <1>1, TypeInit, TypeStep, JobsInit, JobsStep, RepliesInit, RepliesStep, PTL DEF Spec

-----------------------------------------------------------------------------
(* Sessions.                                                               *)

LEMMA OwnSessionInit == Init => OwnSession
  BY ThreadAssumption DEF Init, OwnSession, Reading

LEMMA OwnSessionStep == TypeOK /\ Jobs /\ OwnSession /\ [Next]_vars => OwnSession'
<1> SUFFICES ASSUME TypeOK, Jobs, OwnSession, [Next]_vars PROVE OwnSession'
  OBVIOUS
<1> USE ThreadAssumption, BoundsAssumption, NoneAssumption
      DEF TypeOK, OwnSession, Reading, Holding, db, job, render, sessions, history, To, End
<1>1. ASSUME NEW m \in Msgs, NEW c \in 1..Copies, Receive(m, c) \/ Claim(m, c) PROVE OwnSession'
  BY <1>1 DEF Receive, Claim
<1>2. ASSUME NEW m \in Msgs, NEW c \in 1..Copies, Submit(m, c) PROVE OwnSession'
  <2>1. pc[m] = "none"
    BY <1>2 DEF Submit, Jobs, Deduplicated
  <2> QED
    BY <1>2, <2>1 DEF Submit
<1>3. ASSUME NEW m \in Msgs, Begin(m) PROVE OwnSession'
  <2>1. pc[m] = "queued"
    BY <1>3 DEF Begin, Jobs, Queued
  <2> QED
    BY <1>3, <2>1 DEF Begin
<1>4. ASSUME NEW m \in Msgs, Lock(m) \/ Open(m) \/ Send(m) \/ Consumed(m) \/ Review(m) \/ Touch(m)
      PROVE  OwnSession'
  <2>1. /\ \E p \in Holding : pc' = [pc EXCEPT ![m] = p] /\ (p \in Reading => pc[m] \in Reading)
        /\ pc[m] \in Holding \cup {"waiting"} /\ sid' = sid /\ store' = store
    BY <1>4 DEF Lock, Open, Send, Consumed, Review, Touch
  <2> QED
    BY <2>1
<1>5. ASSUME NEW m \in Msgs, Resolve(m) PROVE OwnSession'
  <2>1. /\ pc[m] = "resolve" /\ store' = store
        /\ \/ /\ pc' = [pc EXCEPT ![m] = "open"] /\ sid' = [sid EXCEPT ![m] = store[Thread[m]]]
              /\ store[Thread[m]] # None
           \/ pc' = [pc EXCEPT ![m] = "create"] /\ sid' = sid
    BY <1>5 DEF Resolve, Usable
  <2> DEFINE s == store[Thread[m]]
  <2>2. Thread[m] \in Threads /\ (s # None => Thread[s] = Thread[m])
    OBVIOUS
  <2>3. CASE pc' = [pc EXCEPT ![m] = "open"] /\ sid' = [sid EXCEPT ![m] = s] /\ s # None
    <3> HIDE DEF s
    <3> QED
      BY <2>1, <2>2, <2>3
  <2>4. CASE pc' = [pc EXCEPT ![m] = "create"] /\ sid' = sid
    BY <2>1, <2>4
  <2> QED
    BY <2>1, <2>3, <2>4
<1>6. ASSUME NEW m \in Msgs, Create(m) PROVE OwnSession'
  <2>1. /\ pc[m] = "create" /\ store' = store
        /\ pc' = [pc EXCEPT ![m] = "put"] /\ sid' = [sid EXCEPT ![m] = m]
    BY <1>6 DEF Create
  <2> QED
    BY <2>1
<1>7. ASSUME NEW m \in Msgs, Put(m) PROVE OwnSession'
  <2>1. pc[m] = "put" /\ pc' = [pc EXCEPT ![m] = "read"] /\ sid' = sid /\ store' = [store EXCEPT ![Thread[m]] = m]
    BY <1>7 DEF Put
  <2> QED
    BY <2>1
<1>8. ASSUME NEW m \in Msgs, Deliver(m) \/ Fail(m) \/ FailFails(m) PROVE OwnSession'
  <2>1. /\ pc' = [pc EXCEPT ![m] = "done"] /\ sid' = [sid EXCEPT ![m] = None] /\ store' = store
    BY <1>8 DEF Deliver, Fail, FailFails
  <2> QED
    BY <2>1
<1>9. ASSUME NEW m \in Msgs, Lost(m) \/ CreateFails(m) \/ SendFails(m) \/ PostFails(m) PROVE OwnSession'
  <2>1. pc[m] \in Holding /\ pc' = [pc EXCEPT ![m] = "fail"] /\ sid' = sid /\ store' = store
    BY <1>9 DEF Lost, CreateFails, SendFails, PostFails
  <2> QED
    BY <2>1
<1>10. ASSUME NEW s \in Msgs, FinishTurn(s) PROVE OwnSession'
  BY <1>10 DEF FinishTurn
<1>11. CASE Crash
  BY <1>11 DEF Crash, Ended
<1>12. CASE UNCHANGED vars
  BY <1>12 DEF vars
<1> QED
  BY <1>1, <1>2, <1>3, <1>4, <1>5, <1>6, <1>7, <1>8, <1>9, <1>10, <1>11, <1>12, Zenon DEF Next, Job

(* Two jobs of one thread never read at once, and those of two threads     *)
(* never read the same session.                                            *)
THEOREM OneReaderPerSession == Spec => []OneReader
<1>1. TypeOK /\ Jobs /\ OwnSession => OneReader
  <2> SUFFICES ASSUME Jobs, OwnSession, NEW m \in Msgs, NEW n \in Msgs, m # n,
                      pc[m] \in {"put", "send", "read"}, pc[n] \in {"put", "send", "read"}, sid[m] = sid[n]
               PROVE  FALSE
    BY DEF OneReader
  <2>1. Thread[m] = Thread[n]
    BY DEF OwnSession, Reading
  <2> QED
    BY <2>1 DEF Jobs, Exclusive, Holding
<1> QED
  BY <1>1, TypeInit, TypeStep, JobsInit, JobsStep, OwnSessionInit, OwnSessionStep, PTL DEF Spec

-----------------------------------------------------------------------------
(* Answers.                                                                *)

LEMMA AttentiveInit == Init => Attentive
  BY ThreadAssumption DEF Init, Attentive, Clean

(* A step of a job that is not asking a clean session, before or after.    *)
LEMMA Unasked ==
  ASSUME TypeOK, Attentive, NEW m \in Msgs,
         unread \subseteq unread',
         pc[m] \notin {"put", "read"} \/ res[m] # "none" \/ Thread[m] \in unread',
         \A s \in Msgs : Thread[s] \notin unread' => inbox'[s] = inbox[s],
         \A n \in Msgs : n # m => pc'[n] = pc[n] /\ sid'[n] = sid[n] /\ res'[n] = res[n],
         \A n \in Msgs : from'[n] \in {from[n], n},
         pc'[m] \in Fresh \cup Ended => res'[m] = "none",
         pc'[m] = "send" /\ Thread[m] \notin unread' => res'[m] = "none",
         \A s \in Msgs : sid[m] = s => Thread[s] = Thread[m]
  PROVE  Attentive'
<1>1. ASSUME NEW s \in Msgs, Thread[s] \notin unread', inbox'[s] # <<>>
      PROVE  \E n \in Msgs : Asked(n, s)'
  <2>1. PICK n \in Msgs : Asked(n, s)
    BY <1>1 DEF Attentive, Clean
  <2>2. n # m
    BY <1>1, <2>1 DEF Asked
  <2> QED
    BY <1>1, <2>1, <2>2 DEF Asked
<1>2. ASSUME NEW n \in Msgs
      PROVE  /\ pc'[n] \in Fresh \cup Ended => res'[n] = "none"
             /\ pc'[n] = "send" /\ Thread[n] \notin unread' => res'[n] = "none"
             /\ Thread[n] \notin unread' => from'[n] = n
  BY DEF Attentive, Clean
<1> QED
  BY <1>1, <1>2 DEF Attentive, Clean

(* The session a job asks has nothing else to do, in a clean thread. *)
LEMMA Alone ==
  ASSUME Jobs, OwnSession, Attentive, NEW m \in Msgs, NEW s \in Msgs,
         pc[m] \in Holding, sid[m] = s, Clean(Thread[m]), inbox[s] # <<>>
  PROVE  pc[m] \in {"put", "read"} /\ inbox[s] = <<m>> /\ Thread[s] = Thread[m]
<1>0. Thread[s] = Thread[m]
  <2>1. None \notin Msgs
    BY NoneAssumption
  <2> QED
    BY <2>1 DEF OwnSession
<1>1. PICK n \in Msgs : Asked(n, s)
  BY <1>0 DEF Attentive
<1>2. pc[n] \in Holding /\ Thread[n] = Thread[s]
  BY <1>1, NoneAssumption DEF Asked, OwnSession, Holding
<1>3. n = m
  BY <1>0, <1>2 DEF Jobs, Exclusive
<1> QED
  BY <1>0, <1>1, <1>3 DEF Asked

LEMMA AttentiveStep == TypeOK /\ Jobs /\ OwnSession /\ Attentive /\ [Next]_vars => Attentive'
<1> SUFFICES ASSUME TypeOK, Jobs, OwnSession, Attentive, [Next]_vars PROVE Attentive'
  OBVIOUS
<1>0. ASSUME NEW m \in Msgs, NEW s \in Msgs, sid[m] = s PROVE Thread[s] = Thread[m]
  BY <1>0, NoneAssumption DEF OwnSession
<1>t. /\ pc \in [Msgs -> {"none", "queued"} \cup Working \cup Ended]
      /\ sid \in [Msgs -> Msgs \cup {None}] /\ res \in [Msgs -> {"none", "answer", "empty"}]
      /\ from \in [Msgs -> Msgs] /\ inbox \in [Msgs -> Seq(Msgs)]
  BY DEF TypeOK
<1> USE ThreadAssumption, BoundsAssumption, NoneAssumption
      DEF db, job, render, sessions, history, To, End, Accept, Fresh, Ended
<1>1. ASSUME NEW m \in Msgs, NEW c \in 1..Copies, Receive(m, c) \/ Claim(m, c) PROVE Attentive'
  BY <1>1 DEF Receive, Claim, Attentive, Clean, Asked
<1>2. ASSUME NEW m \in Msgs, NEW c \in 1..Copies, Submit(m, c) PROVE Attentive'
  <2>1. pc[m] = "none" /\ res[m] = "none"
    BY <1>2 DEF Submit, Jobs, Deduplicated, Attentive
  <2> QED
    BY <1>0, <1>t, <1>2, <2>1, Unasked DEF Submit
<1>3. ASSUME NEW m \in Msgs, Begin(m) PROVE Attentive'
  <2>1. pc[m] = "queued" /\ res[m] = "none"
    BY <1>3 DEF Begin, Jobs, Queued, TypeOK, Attentive
  <2> QED
    BY <1>0, <1>t, <1>3, <2>1, Unasked DEF Begin
<1>4. ASSUME NEW m \in Msgs, Lock(m) \/ Resolve(m) \/ Open(m) PROVE Attentive'
  <2>1. pc[m] \in {"waiting", "resolve", "open"} /\ res[m] = "none"
    BY <1>4 DEF Lock, Resolve, Open, Attentive
  <2>2. UNCHANGED <<unread, inbox, res, from>>
    BY <1>4 DEF Lock, Resolve, Open
  <2>3. \A n \in Msgs : n # m => pc'[n] = pc[n] /\ sid'[n] = sid[n]
    BY <1>t, <1>4 DEF Lock, Resolve, Open
  <2> QED
    BY <1>0, <2>1, <2>2, <2>3, Unasked
<1>5. ASSUME NEW m \in Msgs, Consumed(m) \/ Review(m) \/ Touch(m) \/ PostFails(m) PROVE Attentive'
  <2>1. /\ pc[m] \notin {"put", "read"} \/ res[m] # "none"
        /\ pc'[m] \notin Fresh \cup Ended \cup {"send"} \/ res'[m] = "none"
    BY <1>t, <1>5 DEF Consumed, Review, Touch, PostFails
  <2>2. /\ UNCHANGED <<unread, inbox, sid, from>>
        /\ \A n \in Msgs : n # m => pc'[n] = pc[n] /\ res'[n] = res[n]
    BY <1>t, <1>5 DEF Consumed, Review, Touch, PostFails
  <2> QED
    BY <1>0, <2>1, <2>2, Unasked
<1>6. ASSUME NEW m \in Msgs, Deliver(m) \/ Fail(m) \/ FailFails(m) PROVE Attentive'
  <2>1. /\ pc[m] \in {"deliver", "fail"} /\ pc'[m] = "done" /\ res'[m] = "none"
        /\ UNCHANGED <<unread, inbox>>
    BY <1>t, <1>6 DEF Deliver, Fail, FailFails
  <2>2. \A n \in Msgs : n # m => pc'[n] = pc[n] /\ sid'[n] = sid[n] /\ res'[n] = res[n]
    BY <1>t, <1>6 DEF Deliver, Fail, FailFails
  <2>3. \A n \in Msgs : from'[n] \in {from[n], n}
    BY <1>t, <1>6 DEF Deliver, Fail, FailFails
  <2>4. /\ unread \subseteq unread' /\ \A s \in Msgs : inbox'[s] = inbox[s]
        /\ pc[m] \notin {"put", "read"} /\ pc'[m] # "send"
    BY <2>1
  <2> QED
    BY <1>0, <2>1, <2>2, <2>3, <2>4, Unasked
<1>7. ASSUME NEW m \in Msgs, Lost(m) \/ CreateFails(m) \/ SendFails(m) PROVE Attentive'
  <2>1. /\ pc'[m] = "fail" /\ unread \subseteq unread' /\ UNCHANGED <<sid, res, from>>
        /\ \A n \in Msgs : n # m => pc'[n] = pc[n]
    BY <1>t, <1>7 DEF Lost, CreateFails, SendFails
  <2>2. pc[m] \notin {"put", "read"} \/ Thread[m] \in unread'
    BY <1>7 DEF Lost, CreateFails, SendFails
  <2>3. ASSUME NEW s \in Msgs, Thread[s] \notin unread' PROVE inbox'[s] = inbox[s]
    <3>1. CASE Lost(m)
      BY <3>1 DEF Lost
    <3>2. CASE CreateFails(m)
      BY <1>t, <2>3, <3>2 DEF CreateFails
    <3>3. CASE SendFails(m)
      BY <1>0, <1>t, <2>3, <3>3 DEF SendFails
    <3> QED
      BY <1>7, <3>1, <3>2, <3>3
  <2> QED
    BY <1>0, <2>1, <2>2, <2>3, Unasked
<1>8. ASSUME NEW m \in Msgs, Create(m) PROVE Attentive'
  <2>1. /\ pc[m] = "create" /\ pc' = [pc EXCEPT ![m] = "put"] /\ sid' = [sid EXCEPT ![m] = m]
        /\ inbox' = [inbox EXCEPT ![m] = <<m>>] /\ UNCHANGED <<unread, res, from>>
    BY <1>8 DEF Create
  <2>2. res[m] = "none"
    BY <2>1 DEF Attentive
  <2>3. ASSUME NEW s \in Msgs, Clean(Thread[s]), inbox'[s] # <<>> PROVE \E n \in Msgs : Asked(n, s)'
    <3>1. CASE s = m
      BY <1>t, <2>1, <2>2, <3>1 DEF Asked
    <3>2. CASE s # m
      <4>1. PICK n \in Msgs : Asked(n, s)
        BY <1>t, <2>1, <2>3, <3>2 DEF Attentive
      <4> QED
        BY <1>t, <2>1, <3>2, <4>1 DEF Asked
    <3> QED
      BY <3>1, <3>2
  <2> QED
    BY <1>t, <2>1, <2>3 DEF Attentive, Clean
<1>9. ASSUME NEW m \in Msgs, Put(m) PROVE Attentive'
  <2>1. /\ pc[m] = "put" /\ pc' = [pc EXCEPT ![m] = "read"] /\ UNCHANGED <<sid, inbox, unread, res, from>>
    BY <1>9 DEF Put
  <2> QED
    BY <1>t, <2>1 DEF Attentive, Clean, Asked
<1>10. ASSUME NEW m \in Msgs, Send(m) PROVE Attentive'
  <2> DEFINE s == sid[m]
  <2>1. /\ pc[m] = "send" /\ pc' = [pc EXCEPT ![m] = "read"] /\ UNCHANGED <<sid, unread, res, from>>
        /\ inbox' = [inbox EXCEPT ![s] = Append(inbox[s], m)]
    BY <1>10 DEF Send
  <2>2. s \in Msgs /\ Thread[s] = Thread[m]
    BY <1>t, <2>1 DEF OwnSession, Reading
  <2>3. Clean(Thread[m]) => res[m] = "none" /\ inbox[s] = <<>>
    BY <2>1, <2>2, Alone DEF Attentive, Holding
  <2>4. ASSUME NEW r \in Msgs, Clean(Thread[r]), inbox'[r] # <<>> PROVE \E n \in Msgs : Asked(n, r)'
    <3>1. CASE r = s
      <4>1. inbox'[s] = <<m>>
        BY <1>t, <2>1, <2>2, <2>3, <2>4, <3>1
      <4> QED
        BY <1>t, <2>1, <2>2, <2>3, <2>4, <3>1, <4>1 DEF Asked
    <3>2. CASE r # s
      <4>1. inbox'[r] = inbox[r]
        BY <1>t, <2>1, <3>2
      <4>2. PICK n \in Msgs : Asked(n, r)
        BY <2>4, <4>1 DEF Attentive
      <4> QED
        BY <1>t, <2>1, <3>2, <4>1, <4>2 DEF Asked
    <3> QED
      BY <3>1, <3>2
  <2> HIDE DEF s
  <2> QED
    BY <1>t, <2>1, <2>4 DEF Attentive, Clean
<1>11. ASSUME NEW s \in Msgs, FinishTurn(s) PROVE Attentive'
  <2>1. PICK o \in {"answer", "empty"}, dies \in BOOLEAN :
          /\ inbox' = [inbox EXCEPT ![s] = IF dies THEN <<>> ELSE Tail(@)]
          /\ res' = [m \in Msgs |-> IF sid[m] = s /\ Listening(m) THEN o ELSE res[m]]
          /\ from' = [m \in Msgs |-> IF m \in Taking(s, o) THEN Head(inbox[s]) ELSE from[m]]
    BY <1>11, Zenon DEF FinishTurn
  <2>2. inbox[s] # <<>> /\ UNCHANGED <<pc, sid, unread>>
    BY <1>11 DEF FinishTurn
  <2>3. ASSUME NEW m \in Msgs, sid[m] = s, Listening(m), Clean(Thread[m])
        PROVE  pc[m] \in {"put", "read"} /\ inbox[s] = <<m>>
    <3>1. pc[m] \in Holding
      BY <2>3 DEF Listening, Holding
    <3> QED
      BY <2>2, <2>3, <3>1, Alone
  <2>4. ASSUME NEW r \in Msgs, Clean(Thread[r]), inbox'[r] # <<>> PROVE \E n \in Msgs : Asked(n, r)'
    <3>1. CASE r = s
      <4>1. PICK n \in Msgs : Asked(n, s)
        BY <2>2, <2>4, <3>1 DEF Attentive
      <4>2. inbox[s] = <<n>> /\ Tail(inbox[s]) = <<>>
        BY <4>1 DEF Asked
      <4>3. inbox'[s] = <<>>
        BY <1>t, <2>1, <4>2
      <4> QED
        BY <2>4, <3>1, <4>3
    <3>2. CASE r # s
      <4>1. inbox'[r] = inbox[r]
        BY <1>t, <2>1, <3>2
      <4>2. PICK n \in Msgs : Asked(n, r)
        BY <2>4, <4>1 DEF Attentive
      <4>3. res'[n] = res[n]
        BY <2>1, <3>2, <4>2 DEF Asked
      <4> QED
        BY <2>2, <4>1, <4>2, <4>3 DEF Asked
    <3> QED
      BY <3>1, <3>2
  <2>5. ASSUME NEW m \in Msgs
        PROVE  /\ pc[m] \in Fresh \cup Ended => res'[m] = "none"
               /\ pc[m] = "send" /\ Clean(Thread[m]) => res'[m] = "none"
    BY <2>1, <2>3 DEF Listening, Attentive
  <2>6. ASSUME NEW m \in Msgs, Clean(Thread[m]) PROVE from'[m] = m
    <3>1. CASE m \in Taking(s, o)
      <4>1. inbox[s] = <<m>>
        BY <2>3, <2>6, <3>1 DEF Taking
      <4> QED
        BY <2>1, <3>1, <4>1
    <3>2. CASE m \notin Taking(s, o)
      BY <2>1, <2>6, <3>2 DEF Attentive
    <3> QED
      BY <3>1, <3>2
  <2> QED
    BY <2>2, <2>4, <2>5, <2>6 DEF Attentive, Clean
<1>12. CASE Crash
  <2>1. /\ unread' = unread \cup {Thread[m] : m \in {n \in Msgs : sid[n] # None}} /\ inbox' = inbox
        /\ res' = [m \in Msgs |-> "none"] /\ from' = [m \in Msgs |-> m]
    BY <1>12 DEF Crash
  <2>2. ASSUME NEW s \in Msgs, Thread[s] \notin unread' PROVE inbox'[s] = <<>>
    <3>1. \A n \in Msgs : sid[n] # s
      BY <1>0, <2>1, <2>2
    <3>2. Clean(Thread[s])
      BY <2>1, <2>2 DEF Clean
    <3> QED
      BY <2>1, <3>1, <3>2 DEF Attentive, Asked
  <2> QED
    BY <2>1, <2>2 DEF Attentive, Clean
<1>13. CASE UNCHANGED vars
  BY <1>13 DEF vars, Attentive, Clean, Asked
<1> QED
  BY <1>1, <1>2, <1>3, <1>4, <1>5, <1>6, <1>7, <1>8, <1>9, <1>10, <1>11, <1>12, <1>13, Zenon
     DEF Next, Job

(* As long as no turn of its thread went unread, the answer that is posted *)
(* for a message is the answer to it: no outcome of an earlier turn, of a  *)
(* revision or of another thread is taken for it.                          *)
THEOREM AnswersAreOwn == Spec => AnswersOwnMessage
<1>1. TypeOK /\ Attentive /\ [Next]_vars =>
        [\A m \in Msgs : reply'[m] = "answer" /\ reply[m] # "answer" =>
                           from[m] = m \/ Thread[m] \in unread]_vars
  BY DEF Attentive, Clean
<1> QED
  BY <1>1, TypeInit, TypeStep, JobsInit, JobsStep, OwnSessionInit, OwnSessionStep,
     AttentiveInit, AttentiveStep, PTL DEF Spec, AnswersOwnMessage

-----------------------------------------------------------------------------
(* Refinement.                                                             *)

LEMMA TalkInit == Init => Talk!Init
<1> SUFFICES ASSUME Init PROVE Stage = [m \in Msgs |-> "new"]
  BY Zenon DEF Talk!Init
<1> QED
  BY DEF Init, Stage, Ended

LEMMA TalkStep == TypeOK /\ Jobs /\ Replies /\ [Next]_vars => [Talk!Next]_Stage
<1> SUFFICES ASSUME TypeOK, Jobs, Replies, [Next]_vars
             PROVE  \/ Stage' = Stage
                    \/ \E m \in Msgs : Stage[m] = "new" /\ Stage' = [Stage EXCEPT ![m] = "taken"]
                    \/ \E m \in Msgs : /\ Stage[m] = "taken"
                                       /\ \E r \in {"answered", "failed"} : Stage' = [Stage EXCEPT ![m] = r]
                    \/ \E L \in SUBSET {m \in Msgs : Stage[m] = "taken"} :
                         Stage' = [m \in Msgs |-> IF m \in L THEN "lost" ELSE Stage[m]]
  BY Zenon DEF Talk!Next, Talk!Take, Talk!Reply, Talk!Lose
<1> USE DEF db, job, render, sessions, history, To, End
<1>t. /\ pc \in [Msgs -> {"none", "queued"} \cup Working \cup Ended]
      /\ reply \in [Msgs -> {"none", "answer", "failed"}]
  BY DEF TypeOK
<1>1. ASSUME reply' = reply,
             \A n \in Msgs : \/ pc'[n] = pc[n]
                             \/ pc[n] \notin {"none"} \cup Ended /\ pc'[n] \notin {"none"} \cup Ended
      PROVE  Stage' = Stage
  BY <1>1 DEF Stage
<1>2. ASSUME NEW m \in Msgs, NEW c \in 1..Copies, Receive(m, c) \/ Claim(m, c) PROVE Stage' = Stage
  BY <1>1, <1>2 DEF Receive, Claim
<1>3. ASSUME NEW m \in Msgs, NEW c \in 1..Copies, Submit(m, c)
      PROVE  Stage[m] = "new" /\ Stage' = [Stage EXCEPT ![m] = "taken"]
  <2>1. pc[m] = "none" /\ reply[m] = "none"
    BY <1>t, <1>3 DEF Submit, Jobs, Deduplicated, Replies
  <2>2. pc' = [pc EXCEPT ![m] = "queued"] /\ reply' = reply
    BY <1>3 DEF Submit
  <2> QED
    BY <1>t, <2>1, <2>2 DEF Stage, Ended
<1>4. ASSUME NEW m \in Msgs, Begin(m) PROVE Stage' = Stage
  <2>1. pc[m] = "queued" /\ pc' = [pc EXCEPT ![m] = "waiting"] /\ reply' = reply
    BY <1>4 DEF Begin, Jobs, Queued, TypeOK
  <2> QED
    BY <1>t, <1>1, <2>1 DEF Ended
<1>5. ASSUME NEW m \in Msgs, Lock(m) \/ Resolve(m) \/ Create(m) \/ Put(m) \/ Open(m) \/ Send(m)
                              \/ Consumed(m) \/ Review(m) \/ Touch(m)
      PROVE  Stage' = Stage
  <2>1. reply' = reply /\ pc[m] \in Working /\ \E p \in Working : pc' = [pc EXCEPT ![m] = p]
    BY <1>5 DEF Lock, Resolve, Create, Put, Open, Send, Consumed, Review, Touch, Working, Holding
  <2> QED
    BY <1>t, <1>1, <2>1 DEF Ended, Working, Holding
<1>6. ASSUME NEW m \in Msgs, Lost(m) \/ CreateFails(m) \/ SendFails(m) \/ PostFails(m)
      PROVE  Stage' = Stage
  <2>1. reply' = reply /\ pc[m] \in Working /\ pc' = [pc EXCEPT ![m] = "fail"]
    BY <1>6 DEF Lost, CreateFails, SendFails, PostFails, Working, Holding
  <2> QED
    BY <1>t, <1>1, <2>1 DEF Ended, Working, Holding
<1>7. ASSUME NEW m \in Msgs, Deliver(m) \/ Fail(m)
      PROVE  Stage[m] = "taken" /\ \E r \in {"answered", "failed"} : Stage' = [Stage EXCEPT ![m] = r]
  <2>1. pc[m] \in {"deliver", "fail"} /\ reply[m] = "none" /\ pc' = [pc EXCEPT ![m] = "done"]
    BY <1>t, <1>7 DEF Deliver, Fail, Replies
  <2>2. Stage[m] = "taken"
    BY <2>1 DEF Stage, Ended
  <2>3. ASSUME NEW k \in {"answer", "failed"}, reply' = [reply EXCEPT ![m] = k]
        PROVE  Stage' = [Stage EXCEPT ![m] = IF k = "answer" THEN "answered" ELSE "failed"]
    BY <1>t, <2>1, <2>3 DEF Stage, Ended
  <2> QED
    BY <1>7, <2>2, <2>3 DEF Deliver, Fail
<1>8. ASSUME NEW m \in Msgs, FailFails(m)
      PROVE  \E L \in SUBSET {n \in Msgs : Stage[n] = "taken"} :
               Stage' = [n \in Msgs |-> IF n \in L THEN "lost" ELSE Stage[n]]
  <2>1. pc[m] = "fail" /\ reply[m] = "none" /\ pc' = [pc EXCEPT ![m] = "done"] /\ reply' = reply
    BY <1>t, <1>8 DEF FailFails, Replies
  <2>2. Stage[m] = "taken"
    BY <2>1 DEF Stage, Ended
  <2>3. Stage' = [n \in Msgs |-> IF n \in {m} THEN "lost" ELSE Stage[n]]
    BY <1>t, <2>1 DEF Stage, Ended
  <2> QED
    BY <2>2, <2>3
<1>9. ASSUME NEW s \in Msgs, FinishTurn(s) PROVE Stage' = Stage
  BY <1>1, <1>9 DEF FinishTurn
<1>10. ASSUME Crash
       PROVE  \E L \in SUBSET {n \in Msgs : Stage[n] = "taken"} :
                Stage' = [n \in Msgs |-> IF n \in L THEN "lost" ELSE Stage[n]]
  <2> DEFINE L == {n \in Msgs : pc[n] \notin {"none"} \cup Ended}
  <2>1. /\ pc' = [m \in Msgs |-> IF pc[m] \in {"none"} \cup Ended THEN pc[m] ELSE "crashed"]
        /\ reply' = reply
    BY <1>10 DEF Crash
  <2>2. \A n \in L : reply[n] = "none" /\ Stage[n] = "taken"
    BY <1>t DEF Replies, Stage, Ended
  <2>3. Stage' = [n \in Msgs |-> IF n \in L THEN "lost" ELSE Stage[n]]
    BY <2>1, <2>2 DEF Stage, Ended
  <2> QED
    BY <2>2, <2>3
<1>11. CASE UNCHANGED vars
  BY <1>11 DEF vars, Stage
<1> QED
  BY <1>2, <1>3, <1>4, <1>5, <1>6, <1>7, <1>8, <1>9, <1>10, <1>11, Zenon DEF Next, Job

(* The orchestrator, with its handlers, pool, sessions and crashes,        *)
(* implements Conversation: one reply at most to a message, and final.     *)
THEOREM Refinement == Spec => ImplementsConversation
  BY TypeInit, TypeStep, JobsInit, JobsStep, RepliesInit, RepliesStep, TalkInit, TalkStep, PTL
     DEF Spec, ImplementsConversation, Talk!Spec
=============================================================================
