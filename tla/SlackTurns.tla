----------------------------- MODULE SlackTurns -----------------------------
(***************************************************************************)
(* The Slack orchestrator (slack/app.py, slack/sessions.py): events come   *)
(* in on a socket, are deduplicated in a database, and each is answered by *)
(* a turn of its thread's session, on a pool of workers.                   *)
(*                                                                         *)
(* How a turn's events reach their reader is TurnStream's subject.  Here   *)
(* a session is the queue of the messages it has still to answer, and the  *)
(* job that holds its stream is given the outcome of the first turn that   *)
(* finishes, or loses its view of the session.  A session is named by the  *)
(* message whose job created it.                                           *)
(***************************************************************************)
EXTENDS Naturals, Sequences, FiniteSets

CONSTANTS Msgs,
          Threads,
          Thread,      \* the thread of each message
          Mentions,    \* those that mention the bot or are sent to it directly
          Pool,        \* max_concurrent
          Copies,      \* bound: how often Slack delivers one event
          MaxCrashes,  \* bound: how often the orchestrator dies
          None,        \* no session
          Faults       \* which of AllFaults may happen

(* "lost"   the stream of a turn ends for good (StreamEnded)               *)
(* "api"    a call of the sessions API fails, whether it took effect or not*)
(* "stale"  the thread's session cannot be retrieved, or is past its TTL   *)
(* "slack"  a post to Slack fails                                          *)
AllFaults == {"lost", "api", "stale", "slack"}

ASSUME ThreadAssumption == Thread \in [Msgs -> Threads] /\ Mentions \subseteq Msgs
ASSUME BoundsAssumption == Pool \in Nat \ {0} /\ Copies \in Nat /\ MaxCrashes \in Nat
ASSUME NoneAssumption == None \notin Msgs
ASSUME FaultsAssumption == Faults \subseteq AllFaults

VARIABLES
  handler,   \* by message and copy: the Bolt handler of that delivery
  seen,      \* the database: seen_events
  store,     \* the database: the session of each thread
  active,    \* the database: the threads whose row says "active"
  queue,     \* the pool's jobs that no worker has started
  pc,        \* by message: its job
  sid,       \* the session the job found or made
  res,       \* the outcome of the turn it reads, once that finished
  from,      \* the message that turn was about
  answer,    \* the messages that have a `render.answer` to be posted
  over,      \* those whose render says that the session terminated
  revised,   \* the revisions it asked for
  inbox,     \* by session: what it has still to answer
  dead,      \* the sessions that terminated
  reply,     \* what was posted for the message
  runs, crashes,
  unread,    \* threads one of whose turns nobody reads any more
  mute       \* messages whose reply Slack refused

db == <<seen, store, active>>
render == <<res, from, answer, over, revised>>   \* what consume returns, and the revision
job == <<pc, sid, render>>
sessions == <<inbox, dead>>
history == <<runs, crashes, unread, mute>>
vars == <<handler, db, queue, job, sessions, reply, history>>

(* A job between taking its thread's lock and giving it back. *)
Holding == {"resolve", "create", "put", "open", "send", "read", "review", "touch", "deliver", "fail"}
Working == Holding \cup {"waiting"}
Ended == {"done", "crashed"}

TypeOK ==
  /\ handler \in [Msgs -> [1..Copies -> {"sent", "claim", "submit", "over"}]]
  /\ seen \subseteq Msgs
  /\ store \in [Threads -> Msgs \cup {None}] /\ active \subseteq Threads
  /\ queue \in Seq(Msgs)
  /\ pc \in [Msgs -> {"none", "queued"} \cup Working \cup Ended]
  /\ sid \in [Msgs -> Msgs \cup {None}]
  /\ res \in [Msgs -> {"none", "answer", "empty"}]
  /\ from \in [Msgs -> Msgs]
  /\ answer \subseteq Msgs /\ over \subseteq Msgs /\ revised \in [Msgs -> 0..1]
  /\ inbox \in [Msgs -> Seq(Msgs)] /\ dead \subseteq Msgs
  /\ reply \in [Msgs -> {"none", "answer", "failed"}]
  /\ runs \in [Msgs -> Nat] /\ crashes \in 0..MaxCrashes
  /\ unread \subseteq Threads /\ mute \subseteq Msgs

Init ==
  /\ handler = [m \in Msgs |-> [c \in 1..Copies |-> "sent"]]
  /\ seen = {} /\ store = [t \in Threads |-> None] /\ active = {}
  /\ queue = <<>>
  /\ pc = [m \in Msgs |-> "none"]
  /\ sid = [m \in Msgs |-> None]
  /\ res = [m \in Msgs |-> "none"]
  /\ from = [m \in Msgs |-> m]
  /\ answer = {} /\ over = {} /\ revised = [m \in Msgs |-> 0]
  /\ inbox = [m \in Msgs |-> <<>>] /\ dead = {}
  /\ reply = [m \in Msgs |-> "none"]
  /\ runs = [m \in Msgs |-> 0] /\ crashes = 0 /\ unread = {} /\ mute = {}

-----------------------------------------------------------------------------
(* The handlers.  Bolt runs them on threads of its own, so two deliveries  *)
(* of one event may be handled at the same time.                           *)

HandlerTo(m, c, h) == handler' = [handler EXCEPT ![m][c] = h]

(* on_mention looks at nothing; on_message needs the thread to be known. *)
Receive(m, c) ==
  /\ handler[m][c] = "sent"
  /\ HandlerTo(m, c, IF m \in Mentions \/ store[Thread[m]] # None THEN "claim" ELSE "over")
  /\ UNCHANGED <<db, queue, job, sessions, reply, history>>

(* Fault: an event that was seen is run all the same. *)
ClaimUnchecked(m, c) ==
  /\ handler[m][c] = "claim"
  /\ HandlerTo(m, c, "submit")
  /\ seen' = seen \cup {m}
  /\ UNCHANGED <<store, active, queue, job, sessions, reply, history>>

(* already_seen, which the database answers for one of the copies only. *)
Claim(m, c) ==
  /\ handler[m][c] = "claim"
  /\ HandlerTo(m, c, IF m \in seen THEN "over" ELSE "submit")
  /\ seen' = seen \cup {m}
  /\ UNCHANGED <<store, active, queue, job, sessions, reply, history>>

(* dispatch: the job is queued. *)
Submit(m, c) ==
  /\ handler[m][c] = "submit"
  /\ HandlerTo(m, c, "over")
  /\ queue' = Append(queue, m)
  /\ pc' = [pc EXCEPT ![m] = "queued"]
  /\ runs' = [runs EXCEPT ![m] = @ + 1]
  /\ UNCHANGED <<db, sid, render, sessions, reply, crashes, unread, mute>>

-----------------------------------------------------------------------------
(* The pool.                                                               *)

To(m, p) == pc' = [pc EXCEPT ![m] = p]

Begin(m) ==
  /\ queue # <<>> /\ m = Head(queue)
  /\ Cardinality({n \in Msgs : pc[n] \in Working}) < Pool
  /\ queue' = Tail(queue)
  /\ To(m, "waiting")
  /\ UNCHANGED <<handler, db, sid, render, sessions, reply, history>>

(* Faults: no lock, or one that a job does not give back. *)
LockedNever(t) == FALSE
LockedForGood(t) == \E n \in Msgs : Thread[n] = t /\ pc[n] \in Holding \cup {"done"}

Locked(t) == \E n \in Msgs : Thread[n] = t /\ pc[n] \in Holding

(* The thread's lock: whichever waiting worker gets it. *)
Lock(m) ==
  /\ pc[m] = "waiting" /\ ~Locked(Thread[m])
  /\ To(m, "resolve")
  /\ UNCHANGED <<handler, db, queue, sid, render, sessions, reply, history>>

-----------------------------------------------------------------------------
(* One job.                                                                *)

(* resolve: the thread's session if it can be used, or a new one. *)
Usable(t) == t \in active /\ store[t] # None /\ store[t] \notin dead

Resolve(m) ==
  /\ pc[m] = "resolve"
  /\ \/ /\ Usable(Thread[m])
        /\ sid' = [sid EXCEPT ![m] = store[Thread[m]]]
        /\ To(m, "open")
     \/ /\ ~Usable(Thread[m]) \/ "stale" \in Faults
        /\ To(m, "create")
        /\ UNCHANGED sid
  /\ UNCHANGED <<handler, db, queue, render, sessions, reply, history>>

(* create_session, whose initial event starts the turn. *)
Create(m) ==
  /\ pc[m] = "create"
  /\ sid' = [sid EXCEPT ![m] = m]
  /\ inbox' = [inbox EXCEPT ![m] = <<m>>]
  /\ To(m, "put")
  /\ UNCHANGED <<handler, db, queue, render, dead, reply, history>>

(* store.put; then the stream is opened, and read from the start. *)
Put(m) ==
  /\ pc[m] = "put"
  /\ store' = [store EXCEPT ![Thread[m]] = m]
  /\ active' = active \cup {Thread[m]}
  /\ To(m, "read")
  /\ UNCHANGED <<handler, seen, queue, sid, render, sessions, reply, history>>

Open(m) ==
  /\ pc[m] = "open"
  /\ To(m, "send")
  /\ UNCHANGED <<handler, db, queue, sid, render, sessions, reply, history>>

Accept(m) == inbox' = [inbox EXCEPT ![sid[m]] = Append(@, m)]

(* The message, or the prompt of its revision, goes to the open session. *)
Send(m) ==
  /\ pc[m] = "send" /\ sid[m] \notin dead
  /\ Accept(m)
  /\ To(m, "read")
  /\ UNCHANGED <<handler, db, queue, sid, render, dead, reply, history>>

(* consume returned.  A revision's answer replaces the first; a revision   *)
(* without one leaves it.                                                  *)
Consumed(m) ==
  /\ pc[m] = "read" /\ res[m] # "none"
  /\ answer' = IF res[m] = "answer" THEN answer \cup {m} ELSE answer
  /\ To(m, IF res[m] = "answer" /\ revised[m] = 0 THEN "review" ELSE "touch")
  /\ UNCHANGED <<handler, db, queue, sid, res, from, over, revised, sessions, reply, history>>

(* Fault: the revision is sent, but the first answer is taken for its. *)
ReviewNotRead(m) ==
  /\ pc[m] = "review"
  /\ \/ To(m, "touch") /\ UNCHANGED revised
     \/ To(m, "open") /\ revised' = [revised EXCEPT ![m] = @ + 1]
  /\ UNCHANGED <<handler, db, queue, sid, res, from, answer, over, sessions, reply, history>>

(* review.check finds nothing, or one revision is asked for. *)
Review(m) ==
  /\ pc[m] = "review"
  /\ \/ To(m, "touch") /\ UNCHANGED <<revised, res>>
     \/ /\ To(m, "open")
        /\ revised' = [revised EXCEPT ![m] = @ + 1]
        /\ res' = [res EXCEPT ![m] = "none"]
  /\ UNCHANGED <<handler, db, queue, sid, from, answer, over, sessions, reply, history>>

Touch(m) ==
  /\ pc[m] = "touch"
  /\ active' = IF m \in over THEN active \ {Thread[m]} ELSE active \cup {Thread[m]}
  /\ To(m, IF m \in answer THEN "deliver" ELSE "fail")
  /\ UNCHANGED <<handler, seen, store, queue, sid, render, sessions, reply, history>>

(* `handle` returns and gives the lock back; its locals are gone. *)
End(m) ==
  /\ To(m, "done")
  /\ sid' = [sid EXCEPT ![m] = None] /\ res' = [res EXCEPT ![m] = "none"]
  /\ from' = [from EXCEPT ![m] = m]
  /\ answer' = answer \ {m} /\ over' = over \ {m} /\ revised' = [revised EXCEPT ![m] = 0]

Deliver(m) ==
  /\ pc[m] = "deliver"
  /\ reply' = [reply EXCEPT ![m] = "answer"]
  /\ End(m)
  /\ UNCHANGED <<handler, db, queue, sessions, history>>

(* Fault: a failed turn is tried again. *)
FailRetrying(m) ==
  /\ pc[m] = "fail"
  /\ reply' = [reply EXCEPT ![m] = "failed"]
  /\ To(m, "waiting")
  /\ UNCHANGED <<handler, db, queue, sid, render, sessions, history>>

Fail(m) ==
  /\ pc[m] = "fail"
  /\ reply' = [reply EXCEPT ![m] = "failed"]
  /\ End(m)
  /\ UNCHANGED <<handler, db, queue, sessions, history>>

-----------------------------------------------------------------------------
(* What goes wrong in a job: `handle` turns every exception into a failure *)
(* message.                                                                *)

(* Fault: `handle` does not catch StreamEnded. *)
LostUncaught(m) ==
  /\ "lost" \in Faults /\ pc[m] = "read" /\ res[m] = "none"
  /\ End(m)
  /\ unread' = unread \cup {Thread[m]}
  /\ UNCHANGED <<handler, db, queue, sessions, reply, runs, crashes, mute>>

(* The stream is lost for good; the session works on, unread. *)
Lost(m) ==
  /\ "lost" \in Faults /\ pc[m] = "read" /\ res[m] = "none"
  /\ To(m, "fail")
  /\ unread' = unread \cup {Thread[m]}
  /\ UNCHANGED <<handler, db, queue, sid, render, sessions, reply, runs, crashes, mute>>

CreateFails(m) ==
  /\ "api" \in Faults /\ pc[m] = "create"
  /\ \/ UNCHANGED <<inbox, unread>>
     \/ inbox' = [inbox EXCEPT ![m] = <<m>>] /\ unread' = unread \cup {Thread[m]}
  /\ To(m, "fail")
  /\ UNCHANGED <<handler, db, queue, sid, render, dead, reply, runs, crashes, mute>>

(* A terminated session refuses the message. *)
SendFails(m) ==
  /\ pc[m] \in {"open", "send"} /\ ("api" \in Faults \/ sid[m] \in dead)
  /\ \/ UNCHANGED <<inbox, unread>>
     \/ pc[m] = "send" /\ sid[m] \notin dead /\ Accept(m) /\ unread' = unread \cup {Thread[m]}
  /\ To(m, "fail")
  /\ UNCHANGED <<handler, db, queue, sid, render, dead, reply, runs, crashes, mute>>

(* Slack refuses the placeholder, which is posted before the first turn,   *)
(* or the answer, revised or not: the failure is posted.                   *)
PostFails(m) ==
  /\ "slack" \in Faults
  /\ pc[m] = "deliver" \/ (pc[m] \in {"create", "open"} /\ revised[m] = 0)
  /\ To(m, "fail")
  /\ UNCHANGED <<handler, db, queue, sid, render, sessions, reply, history>>

(* It refuses the failure too: the exception ends in the job's future. *)
FailFails(m) ==
  /\ "slack" \in Faults /\ pc[m] = "fail"
  /\ End(m)
  /\ mute' = mute \cup {m}
  /\ UNCHANGED <<handler, db, queue, sessions, reply, runs, crashes, unread>>

Job(m) == \/ Begin(m) \/ Lock(m) \/ Resolve(m) \/ Create(m) \/ Put(m) \/ Open(m) \/ Send(m)
          \/ Consumed(m) \/ Review(m) \/ Touch(m) \/ Deliver(m) \/ Fail(m)
          \/ Lost(m) \/ CreateFails(m) \/ SendFails(m) \/ PostFails(m) \/ FailFails(m)

-----------------------------------------------------------------------------
(* The sessions (external).                                                *)

(* The jobs a session's events reach: those with a stream open on it, and  *)
(* the one that reads it from the start.                                   *)
Listening(m) == pc[m] \in {"put", "send", "read"} /\ res[m] = "none"

(* Those for whose render the turn counts: not a revision without answer. *)
Taking(s, o) == {m \in Msgs : sid[m] = s /\ Listening(m) /\ (o = "answer" \/ revised[m] = 0)}

(* A session finishes a turn, with an answer or without, or terminates in  *)
(* it and drops what it had still to do.                                   *)
FinishTurn(s) ==
  /\ inbox[s] # <<>>
  /\ \E o \in {"answer", "empty"}, dies \in BOOLEAN :
       /\ inbox' = [inbox EXCEPT ![s] = IF dies THEN <<>> ELSE Tail(@)]
       /\ dead' = IF dies THEN dead \cup {s} ELSE dead
       /\ res' = [m \in Msgs |-> IF sid[m] = s /\ Listening(m) THEN o ELSE res[m]]
       /\ from' = [m \in Msgs |-> IF m \in Taking(s, o) THEN Head(inbox[s]) ELSE from[m]]
       /\ over' = IF dies THEN over \cup Taking(s, o) ELSE over \ Taking(s, o)
  /\ UNCHANGED <<handler, db, queue, pc, sid, answer, revised, reply, history>>

(* The orchestrator dies and is started again.  The database and the       *)
(* sessions stay; Slack does not deliver again what was acknowledged.      *)
Crash ==
  /\ crashes < MaxCrashes
  /\ crashes' = crashes + 1
  /\ handler' = [m \in Msgs |-> [c \in 1..Copies |-> IF handler[m][c] = "sent" THEN "sent" ELSE "over"]]
  /\ queue' = <<>>
  /\ pc' = [m \in Msgs |-> IF pc[m] \in {"none"} \cup Ended THEN pc[m] ELSE "crashed"]
  /\ sid' = [m \in Msgs |-> None] /\ res' = [m \in Msgs |-> "none"]
  /\ from' = [m \in Msgs |-> m]
  /\ answer' = {} /\ over' = {} /\ revised' = [m \in Msgs |-> 0]
  /\ unread' = unread \cup {Thread[m] : m \in {n \in Msgs : sid[n] # None}}
  /\ UNCHANGED <<db, sessions, reply, runs, mute>>

Next == \/ \E m \in Msgs : Job(m) \/ \E c \in 1..Copies : Receive(m, c) \/ Claim(m, c) \/ Submit(m, c)
        \/ \E s \in Msgs : FinishTurn(s)
        \/ Crash

Spec == Init /\ [][Next]_vars

(* A worker that can go on does, and sessions finish their turns.  That    *)
(* the lock is not fair makes no difference, as messages are finitely many.*)
FairSpec == /\ Spec
            /\ \A m \in Msgs : WF_vars(Job(m))
            /\ \A s \in Msgs : WF_vars(FinishTurn(s))

-----------------------------------------------------------------------------
(* Properties.                                                             *)

(* A message runs at most once, over any redelivery, concurrent handlers   *)
(* and restarts (already_seen).                                            *)
RunsOnce == \A m \in Msgs : runs[m] <= 1

(* Two jobs never have a session's stream open at the same time, so that   *)
(* their output cannot interleave (the thread's lock, app.py:58).          *)
OneReader ==
  \A m, n \in Msgs : /\ m # n
                     /\ pc[m] \in {"put", "send", "read"} /\ pc[n] \in {"put", "send", "read"}
                     => sid[m] # sid[n]

(* The answer posted for a message is about that message, unless a turn of *)
(* its thread went unread before.                                          *)
AnswersOwnMessage ==
  [][\A m \in Msgs : reply'[m] = "answer" /\ reply[m] # "answer" =>
                       from[m] = m \/ Thread[m] \in unread]_vars

(* A job never ends without a word in its thread, whatever failed, as long *)
(* as Slack takes what it posts (handle: "never leave a thread hanging").  *)
NeverSilent == \A m \in Msgs : pc[m] = "done" => reply[m] # "none" \/ m \in mute

(* Every message that is queued is replied to or gives up, although the    *)
(* jobs of one busy thread may block all workers: who waits for a lock     *)
(* waits for a job that has a worker.                                      *)
EveryJobEnds == \A m \in Msgs : pc[m] = "queued" ~> pc[m] \in Ended

(* The orchestrator implements Conversation: what was posted for a message *)
(* is final, and a message is taken up only once.                          *)
Stage == [m \in Msgs |-> CASE reply[m] = "answer" -> "answered"
                           [] reply[m] = "failed" -> "failed"
                           [] reply[m] = "none" /\ pc[m] \in Ended -> "lost"
                           [] reply[m] = "none" /\ pc[m] = "none" -> "new"
                           [] OTHER -> "taken"]

Talk == INSTANCE Conversation WITH state <- Stage

ImplementsConversation == Talk!Spec
=============================================================================
