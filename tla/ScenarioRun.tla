---------------------------- MODULE ScenarioRun -----------------------------
(***************************************************************************)
(* A suite of scenario runs (scenario/runner.py, cli.py's _run_scenarios): *)
(* each starts a poller, creates a session, reads the turn the session     *)
(* begins with, perhaps sends a revision and a follow-up and reads those,  *)
(* while a watchdog thread ends a run whose sandbox failed or that takes   *)
(* too long.  A turn is read as TurnStream has it: completely, or not.     *)
(*                                                                         *)
(* External: the session, which may work for ever, and may end its turn in *)
(* any way; its containers (Sandbox), which run while it is at work.       *)
(***************************************************************************)
EXTENDS Sandbox

CONSTANTS Runs,       \* how many runs the suite makes
          FollowUp,   \* the scenario has a follow-up
          MaxFaults   \* bound: failing calls

ASSUME SuiteAssumption == Runs \in Nat \ {0} /\ FollowUp \in BOOLEAN /\ MaxFaults \in Nat

(* The turns: the session's first, the revision, the follow-up. *)
Turns == 1..3

VARIABLES
  pc,         \* the runner
  attempt,    \* the run it is at
  turn,       \* the turn whose stream it opens or reads
  invalid,    \* run.invalid is set
  firstOk,    \* the first turn's `ok`
  broken,     \* history: a turn of the run was not read to its end
  graded,     \* history: the run was graded, without errors
  errors,     \* run.errors is not empty
  session,    \* "busy", or how it ended its turn: "complete" (end_turn), "stopped" (its
              \* budget or retries), "erred" (after an error), "cut" (otherwise)
  told,       \* it was interrupted since its last message
  astray,     \* history: an earlier run's session was left at work
  dog,        \* the watchdog
  stream,     \* watchdog.stream: the turn whose stream it would close
  closed,     \* the turns whose streams it closed
  late,       \* history: it closed while the runner went on to a new stream
  expired,    \* the deadline has passed
  faults

outcome == <<firstOk, broken, errors, graded, astray>>
runner == <<pc, attempt, turn, invalid, outcome>>
watchdog == <<dog, stream, closed, late, expired>>
platform == <<session, told>>
vars == <<runner, watchdog, platform, faults, sandbox>>

Ended == {"returned", "raised"}

TypeOK ==
  /\ SandboxTypeOK
  /\ pc \in {"begin", "create", "open", "attach", "send", "read", "look", "review",
             "next", "end", "stop", "raise", "join"} \cup Ended
  /\ attempt \in 1..Runs /\ turn \in Turns
  /\ invalid \in BOOLEAN /\ firstOk \in BOOLEAN /\ broken \in BOOLEAN /\ errors \in BOOLEAN
  /\ graded \in BOOLEAN
  /\ session \in {"none", "busy", "complete", "stopped", "erred", "cut"}
  /\ told \in BOOLEAN /\ astray \in BOOLEAN
  /\ dog \in {"off", "watch", "interrupt", "grace", "stopping", "gone"}
  /\ stream \in {0} \cup Turns /\ closed \subseteq Turns
  /\ late \in BOOLEAN /\ expired \in BOOLEAN /\ faults \in 0..MaxFaults
  /\ pc \in {"join"} \cup Ended => dog \in {"off", "stopping", "gone"}

Init ==
  /\ SandboxInit
  /\ pc = "begin" /\ attempt = 1 /\ turn = 1
  /\ invalid = FALSE /\ firstOk = FALSE /\ broken = FALSE /\ errors = FALSE
  /\ graded = FALSE
  /\ session = "none" /\ told = FALSE /\ astray = FALSE
  /\ dog = "off" /\ stream = 0 /\ closed = {} /\ late = FALSE /\ expired = FALSE
  /\ faults = 0

-----------------------------------------------------------------------------
(* run_once.                                                               *)

Goto(a, b) == pc = a /\ pc' = b

(* start_poller: the log is a new one. *)
StartPoller ==
  /\ Goto("begin", "create") /\ lines' = {}
  /\ UNCHANGED <<attempt, turn, invalid, outcome, watchdog, platform, faults, box,
                 workspace, next, evidence, boxes>>

(* The session begins to work at once, and the watchdog to watch.          *)
CreateSession ==
  /\ Goto("create", "open")
  /\ session' = "busy" /\ told' = FALSE /\ dog' = "watch"
  /\ UNCHANGED <<attempt, turn, invalid, outcome, stream, closed, late, expired, faults,
                 sandbox>>

OpenStream ==
  /\ Goto("open", "attach")
  /\ UNCHANGED <<attempt, turn, invalid, outcome, watchdog, platform, faults, sandbox>>

(* watchdog.stream = stream. *)
Attach ==
  /\ Goto("attach", IF turn = 1 THEN "read" ELSE "send")
  /\ stream' = turn
  /\ UNCHANGED <<attempt, turn, invalid, outcome, dog, closed, late, expired, platform,
                 faults, sandbox>>

Send ==
  /\ Goto("send", "read") /\ session' = "busy" /\ told' = FALSE
  /\ UNCHANGED <<attempt, turn, invalid, outcome, watchdog, faults, sandbox>>

AfterTurn == CASE turn = 1 -> "look" [] turn = 2 -> "next" [] turn = 3 -> "end"

(* Fault: a turn that was cut is taken for one that was completed.         *)
ConsumeAnyTurn ==
  /\ Goto("read", AfterTurn) /\ session \notin {"none", "busy"}
  /\ broken' = (broken \/ session = "cut")
  /\ errors' = (errors \/ session = "erred")
  /\ firstOk' = IF turn = 1 THEN session = "complete" ELSE firstOk
  /\ UNCHANGED <<attempt, turn, invalid, graded, astray, watchdog, platform, faults,
                 sandbox>>

(* _consume_turn: the session ended the turn; unless properly or with an   *)
(* error, the run is invalid.  An error may be the account's (Billing).    *)
ConsumeTurn ==
  /\ Goto("read", AfterTurn) /\ session \notin {"none", "busy"}
  /\ broken' = (broken \/ session = "cut")
  /\ invalid' = (invalid \/ session = "cut")
  /\ errors' = (errors \/ session = "erred")
  /\ firstOk' = IF turn = 1 THEN session = "complete" ELSE firstOk
  /\ UNCHANGED <<attempt, turn, graded, astray, watchdog, platform, faults, sandbox>>

(* or the stream was closed by the watchdog, or lost once too often.       *)
TurnLost ==
  /\ Goto("read", AfterTurn)
  /\ \/ turn \in closed /\ UNCHANGED faults
     \/ faults < MaxFaults /\ faults' = faults + 1
  /\ broken' = TRUE /\ invalid' = TRUE
  /\ firstOk' = IF turn = 1 THEN TRUE ELSE firstOk   \* an empty Turn is ok
  /\ UNCHANGED <<attempt, turn, errors, graded, astray, watchdog, platform, sandbox>>

(* The run stays valid and goes on to the review, if there is one.         *)
Look ==
  /\ pc = "look"
  /\ pc' \in IF firstOk /\ ~invalid THEN {"review", "next"} ELSE {"next"}
  /\ UNCHANGED <<attempt, turn, invalid, outcome, watchdog, platform, faults, sandbox>>

(* check, which may take long; it asks for a revision or not.              *)
Review ==
  /\ pc = "review"
  /\ \/ pc' = "open" /\ turn' = 2
     \/ pc' = "next" /\ UNCHANGED turn
  /\ UNCHANGED <<attempt, invalid, outcome, watchdog, platform, faults, sandbox>>

GoOn ==
  /\ pc = "next"
  /\ IF FollowUp /\ firstOk /\ ~invalid THEN pc' = "open" /\ turn' = 3
     ELSE pc' = "end" /\ UNCHANGED turn
  /\ UNCHANGED <<attempt, invalid, outcome, watchdog, platform, faults, sandbox>>

(* _interrupt: the session may go idle, or not. *)
Interrupt == told' = TRUE /\ session' \in {session} \cup (IF session = "busy" THEN {"cut"} ELSE {})

(* Fault: an abandoned session is left alone. *)
EndSilently ==
  /\ Goto("end", "stop")
  /\ UNCHANGED <<attempt, turn, invalid, outcome, watchdog, platform, faults, sandbox>>

End ==
  /\ Goto("end", "stop")
  /\ IF invalid THEN Interrupt ELSE UNCHANGED platform
  /\ UNCHANGED <<attempt, turn, invalid, outcome, watchdog, faults, sandbox>>

(* The finally: the watchdog is stopped, joined for a while, and the       *)
(* poller stopped.                                                         *)
Stop ==
  /\ pc \in {"stop", "raise"}
  /\ pc' = IF pc = "stop" THEN "join" ELSE "raised"
  /\ dog' = CASE dog \in {"watch", "grace"} -> "gone" [] dog = "interrupt" -> "stopping"
             [] OTHER -> dog
  /\ UNCHANGED <<attempt, turn, invalid, outcome, stream, closed, late, expired, platform,
                 faults, sandbox>>

Return ==
  /\ Goto("join", "returned") /\ graded' = (~invalid /\ ~errors)
  /\ UNCHANGED <<attempt, turn, invalid, firstOk, broken, errors, astray, watchdog,
                 platform, faults, sandbox>>

(* A call raises: the poller does not start, a session is not created, a   *)
(* stream not opened, a message not sent, the cost not read; or the first  *)
(* turn's error is that the account is out of credit.                      *)
Raise ==
  /\ \/ pc \in {"begin", "create", "open", "send", "review", "end"}
        /\ faults < MaxFaults /\ faults' = faults + 1
     \/ pc = "look" /\ errors /\ UNCHANGED faults
  /\ pc' = "raise"
  /\ UNCHANGED <<attempt, turn, invalid, outcome, watchdog, platform, sandbox>>

(* _run_scenarios: the next run of the suite, after one that returned or   *)
(* could not begin; any other exception ends the suite.                    *)
NextRun ==
  /\ attempt < Runs /\ (pc = "returned" \/ (pc = "raised" /\ session = "none"))
  /\ pc' = "begin" /\ attempt' = attempt + 1 /\ turn' = 1
  /\ invalid' = FALSE /\ firstOk' = FALSE /\ broken' = FALSE /\ errors' = FALSE
  /\ graded' = FALSE
  /\ astray' = (astray \/ (session = "busy" /\ ~told /\ dog # "stopping"))
  /\ session' = "none" /\ told' = FALSE
  /\ dog' = "off" /\ stream' = 0 /\ closed' = {} /\ expired' = FALSE
  /\ box' = "none" /\ dirs' = {} /\ full' = {} /\ seen' = {} /\ got' = {} /\ next' = 0
  /\ files' = {} /\ tmp' = {} /\ calls' = 0 /\ boxes' = 0 /\ lines' = {}
  /\ UNCHANGED <<late, faults>>

-----------------------------------------------------------------------------
(* Watchdog._watch.                                                        *)

Mark ==
  /\ dog = "watch" /\ ("sandbox_failed" \in lines \/ expired)
  /\ invalid' = TRUE /\ dog' = "interrupt"
  /\ UNCHANGED <<pc, attempt, turn, outcome, stream, closed, late, expired, platform,
                 faults, sandbox>>

DogInterrupts ==
  /\ dog \in {"interrupt", "stopping"} /\ Interrupt
  /\ dog' = IF dog = "interrupt" THEN "grace" ELSE "gone"
  /\ UNCHANGED <<runner, stream, closed, late, expired, faults, sandbox>>

(* Fault: the watchdog does not close a stream. *)
CloseNothing ==
  /\ dog = "grace" /\ dog' = "gone"
  /\ UNCHANGED <<runner, stream, closed, late, expired, platform, faults, sandbox>>

(* The grace period is over: the stream that is current then is closed,    *)
(* and the watchdog is done.                                               *)
Close ==
  /\ dog = "grace" /\ dog' = "gone"
  /\ closed' = closed \cup ({stream} \ {0})
  /\ late' = (late \/ pc \in {"review", "open", "attach"})
  /\ UNCHANGED <<runner, stream, expired, platform, faults, sandbox>>

Expire ==
  /\ dog = "watch" /\ ~expired /\ expired' = TRUE
  /\ UNCHANGED <<runner, dog, stream, closed, late, platform, faults, sandbox>>

-----------------------------------------------------------------------------
(* The session (external), and its containers while it has work for them.  *)

FinishTurn ==
  /\ session = "busy" /\ session' \in {"complete", "stopped", "erred", "cut"}
  /\ UNCHANGED <<runner, watchdog, told, faults, sandbox>>

InSandbox ==
  /\ pc \notin Ended \cup {"begin"} /\ SandboxNext
  /\ (box = "none" \/ calls' # calls) => session = "busy"
  /\ UNCHANGED <<runner, watchdog, platform, faults>>

Runner ==
  \/ StartPoller \/ CreateSession \/ OpenStream \/ Attach \/ Send \/ ConsumeTurn \/ TurnLost
  \/ Look \/ Review \/ GoOn \/ End \/ Stop \/ Return \/ NextRun
Dog == Mark \/ DogInterrupts \/ Close \/ Expire

Next == Runner \/ Raise \/ Dog \/ FinishTurn \/ InSandbox

Spec == Init /\ [][Next]_vars

(* Every call of the runner and of the watchdog returns, and time passes;  *)
(* neither the session nor a container need ever do anything.              *)
FairSpec == Spec /\ WF_vars(Runner) /\ WF_vars(Mark) /\ WF_vars(DogInterrupts)
                 /\ WF_vars(Close) /\ WF_vars(Expire)

-----------------------------------------------------------------------------
(* Properties.                                                             *)

(* #2: a run that counts read every one of its turns to its proper end.    *)
GradedIsWhole == pc = "returned" /\ graded => ~broken /\ session \in {"complete", "stopped"}

(* _interrupt: when a run begins, no earlier run's session is still at     *)
(* work that nobody interrupted, whose tool calls its poller would serve.  *)
NextRunAlone == ~astray

(* Watchdog: whatever the session and its containers do, the suite comes   *)
(* to its end, unless the grace period passed while the runner was between *)
(* its look at run.invalid and a new stream, which nobody closes then.     *)
EverySuiteEnds == <>(late \/ (pc \in Ended /\ ~ENABLED NextRun))
=============================================================================
