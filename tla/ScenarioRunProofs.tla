-------------------------- MODULE ScenarioRunProofs --------------------------
(***************************************************************************)
(* Proofs about Sandbox and about ScenarioRun, which is composed of it.    *)
(* Sandbox: its state is well-typed, the record of tool results keeps what *)
(* it has and its order, and an item served without skills is reported,    *)
(* for any skills and any bounds.  ScenarioRun: its state is well-typed, a *)
(* run that is graded read its turns whole, and no abandoned session is    *)
(* left at work for the next run, for suites of any length, with and       *)
(* without a follow-up.                                                    *)
(***************************************************************************)
EXTENDS ScenarioRun, TLAPS

(* The skills the watcher saw were there.  Directories that a killed       *)
(* container left behind are those of the next one too, which counts them  *)
(* as its own when it serves.                                              *)
SeenWereThere ==
  /\ box = "serving" => full \subseteq got
  /\ box \in {"none", "starting"} => seen = {}

(* Numbers follow calls.  There is always a highest one, so that the count *)
(* can resume from it, and while calls are served it is ahead of all.      *)
CountIsAhead ==
  /\ Numbers \subseteq 1..calls
  /\ \E m \in Numbers \cup {0} : \A n \in Numbers : n <= m
  /\ box = "serving" => /\ next \in 1..(calls + 1)
                        /\ \A n \in Numbers : n < next
  /\ \A f \in files : f[2] \in 1..calls

InOrder == \A f, g \in files : f[1] < g[1] <=> f[2] < g[2]

SandboxInv == SandboxTypeOK /\ SeenWereThere /\ CountIsAhead /\ InOrder

-----------------------------------------------------------------------------
(* The number the count resumes from is past all that are used.            *)
LEMMA ResumedIsPast ==
  ASSUME SandboxTypeOK, CountIsAhead
  PROVE  Resumed \in 1..(calls + 1) /\ \A n \in Numbers : n < Resumed
<1>1. PICK m \in Numbers \cup {0} : \A n \in Numbers : n <= m
  BY DEF CountIsAhead
<1>2. Numbers \subseteq 1..calls /\ calls \in Nat
  BY DEF CountIsAhead, SandboxTypeOK
<1>3. \A y \in Numbers \cup {0} : m >= y
  BY <1>1, <1>2
<1>4. Max(Numbers \cup {0}) \in Numbers \cup {0}
        /\ \A y \in Numbers \cup {0} : Max(Numbers \cup {0}) >= y
  BY <1>1, <1>3 DEF Max
<1> DEFINE top == Max(Numbers \cup {0})
<1>5. top \in Numbers \cup {0} /\ \A y \in Numbers \cup {0} : top >= y
  BY <1>4
<1>6. Resumed = top + 1
  BY DEF Resumed
<1> HIDE DEF top
<1>7. top \in 0..calls
  BY <1>2, <1>5
<1>8. \A n \in Numbers : n \in Nat /\ n <= top
  BY <1>2, <1>5, <1>7
<1>9. QED
  BY <1>2, <1>6, <1>7, <1>8

LEMMA InitSatisfiesInv ==
  ASSUME SandboxInit PROVE SandboxInv
  BY SandboxBounds DEF SandboxInit, SandboxInv, SandboxTypeOK, SeenWereThere, CountIsAhead,
                       InOrder, Numbers

(* A step that leaves the record and the count alone.                      *)
LEMMA CountUnchanged ==
  ASSUME CountIsAhead, InOrder, UNCHANGED evidence,
         box' = "serving" => box = "serving" /\ next' = next
  PROVE  CountIsAhead' /\ InOrder'
  BY DEF CountIsAhead, InOrder, Numbers, evidence

(* A call takes a number past all others, and puts it into a file or not.  *)
LEMMA CallCounted ==
  ASSUME SandboxInv, box = "serving", calls < MaxCalls, calls' = calls + 1,
         \/ files' = files \cup {<<next, calls + 1>>} /\ UNCHANGED tmp
         \/ tmp' = tmp \cup {next} /\ UNCHANGED files
         \/ UNCHANGED <<files, tmp>>,
         box' = "serving" => next' = next + 1
  PROVE  /\ CountIsAhead' /\ InOrder'
         /\ files' \subseteq (1..MaxCalls) \X (1..MaxCalls) /\ tmp' \subseteq 1..MaxCalls
         /\ calls' \in 0..MaxCalls
<1>1. /\ calls \in Nat /\ MaxCalls \in Nat /\ calls + 1 \in 1..MaxCalls
      /\ next \in 1..(calls + 1) /\ \A n \in Numbers : n < next
      /\ Numbers \subseteq 1..calls
      /\ files \subseteq (1..MaxCalls) \X (1..MaxCalls) /\ tmp \subseteq 1..MaxCalls
  BY SandboxBounds DEF SandboxInv, SandboxTypeOK, CountIsAhead
<1>2. Numbers' \subseteq Numbers \cup {next}
  BY DEF Numbers
<1>3. Numbers' \subseteq 1..calls' /\ \A n \in Numbers' : n < next + 1 /\ n <= next
  BY <1>1, <1>2
<1>4. \E m \in Numbers' \cup {0} : \A n \in Numbers' : n <= m
  <2>1. CASE next \in Numbers'
    BY <1>3, <2>1
  <2>2. CASE next \notin Numbers'
    <3>1. Numbers' = Numbers
      BY <1>2, <2>2 DEF Numbers
    <3>2. QED
      BY <3>1 DEF SandboxInv, CountIsAhead
  <2>3. QED
    BY <2>1, <2>2
<1>5. \A f \in files' : f \in files \/ f = <<next, calls + 1>>
  OBVIOUS
<1>6. \A f \in files : f[1] \in Numbers /\ f[1] < next /\ f[2] < calls + 1 /\ f[1] \in Nat /\ f[2] \in Nat
  BY <1>1 DEF SandboxInv, CountIsAhead, Numbers
<1>7. \A f \in files' : f[2] \in 1..calls'
  BY <1>1, <1>5 DEF SandboxInv, CountIsAhead
<1>8. InOrder'
  BY <1>1, <1>5, <1>6 DEF SandboxInv, InOrder
<1>9. files' \subseteq (1..MaxCalls) \X (1..MaxCalls) /\ tmp' \subseteq 1..MaxCalls
  <2>1. next \in 1..MaxCalls
    BY <1>1
  <2>2. <<next, calls + 1>> \in (1..MaxCalls) \X (1..MaxCalls)
    BY <1>1, <2>1
  <2>3. QED
    BY <1>1, <2>1, <2>2
<1>10. QED
  BY <1>1, <1>3, <1>4, <1>7, <1>8, <1>9 DEF CountIsAhead

LEMMA StepPreservesInv ==
  ASSUME SandboxInv, [SandboxNext]_sandbox
  PROVE  SandboxInv'
<1> USE SandboxBounds
<1>1. CASE StartBox
  <2>1. CountIsAhead' /\ InOrder'
    BY <1>1, CountUnchanged DEF SandboxInv, StartBox
  <2>2. QED
    BY <1>1, <2>1 DEF SandboxInv, SandboxTypeOK, SeenWereThere, StartBox, workspace, evidence
<1>2. CASE FailToStart
  <2>1. CountIsAhead' /\ InOrder'
    BY <1>2, CountUnchanged DEF SandboxInv, FailToStart
  <2>2. QED
    BY <1>2, <2>1 DEF SandboxInv, SandboxTypeOK, SeenWereThere, FailToStart, workspace, evidence
<1>3. CASE Serve
  <2>1. Resumed \in 1..(calls + 1) /\ \A n \in Numbers : n < Resumed
    BY ResumedIsPast DEF SandboxInv
  <2>2. CountIsAhead' /\ InOrder'
    BY <1>3, <2>1 DEF SandboxInv, CountIsAhead, InOrder, Numbers, Serve, evidence
  <2>3. next' \in Nat
    BY <1>3, <2>1 DEF Serve, SandboxInv, SandboxTypeOK
  <2>4. QED
    BY <1>3, <2>2, <2>3 DEF SandboxInv, SandboxTypeOK, SeenWereThere, Serve, evidence
<1>4. CASE Download
  <2>1. CountIsAhead' /\ InOrder'
    BY <1>4, CountUnchanged DEF SandboxInv, Download
  <2>2. QED
    BY <1>4, <2>1 DEF SandboxInv, SandboxTypeOK, SeenWereThere, Download, evidence
<1>5. CASE Sample
  <2>1. CountIsAhead' /\ InOrder'
    BY <1>5, CountUnchanged DEF SandboxInv, Sample
  <2>2. QED
    BY <1>5, <2>1 DEF SandboxInv, SandboxTypeOK, SeenWereThere, Sample, evidence
<1>6. CASE CallTool
  <2>1. /\ CountIsAhead' /\ InOrder'
        /\ files' \subseteq (1..MaxCalls) \X (1..MaxCalls) /\ tmp' \subseteq 1..MaxCalls
        /\ calls' \in 0..MaxCalls
    BY <1>6, CallCounted DEF CallTool
  <2>2. QED
    BY <1>6, <2>1 DEF SandboxInv, SandboxTypeOK, SeenWereThere, CallTool, workspace
<1>7. CASE EndItem
  <2>1. CountIsAhead' /\ InOrder'
    BY <1>7, CountUnchanged DEF SandboxInv, EndItem
  <2>2. QED
    BY <1>7, <2>1 DEF SandboxInv, SandboxTypeOK, SeenWereThere, EndItem, evidence
<1>8. CASE Report
  <2>1. CountIsAhead' /\ InOrder'
    BY <1>8, CountUnchanged DEF SandboxInv, Report, Gone
  <2>2. QED
    BY <1>8, <2>1 DEF SandboxInv, SandboxTypeOK, SeenWereThere, Report, Gone, evidence
<1>9. CASE KillBox
  <2>1. /\ CountIsAhead' /\ InOrder'
        /\ files' \subseteq (1..MaxCalls) \X (1..MaxCalls) /\ tmp' \subseteq 1..MaxCalls
        /\ calls' \in 0..MaxCalls
    <3>1. CASE UNCHANGED evidence
      BY <1>9, <3>1, CountUnchanged DEF SandboxInv, SandboxTypeOK, KillBox, Gone, evidence
    <3>2. CASE ~UNCHANGED evidence
      BY <1>9, <3>2, CallCounted DEF KillBox, Gone
    <3>3. QED
      BY <3>1, <3>2
  <2>2. QED
    BY <1>9, <2>1 DEF SandboxInv, SandboxTypeOK, SeenWereThere, KillBox, Gone
<1>a. CASE ItemRaises
  <2>1. CountIsAhead' /\ InOrder'
    BY <1>a, CountUnchanged DEF SandboxInv, ItemRaises, Gone
  <2>2. QED
    BY <1>a, <2>1 DEF SandboxInv, SandboxTypeOK, SeenWereThere, ItemRaises, Gone, evidence
<1>10. CASE UNCHANGED sandbox
  BY <1>10 DEF SandboxInv, SandboxTypeOK, SeenWereThere, CountIsAhead, InOrder, Numbers,
               sandbox, workspace, evidence
<1>11. QED
  BY <1>1, <1>2, <1>3, <1>4, <1>5, <1>6, <1>7, <1>8, <1>9, <1>a, <1>10 DEF SandboxNext

-----------------------------------------------------------------------------
THEOREM InvHolds == SandboxSpec => []SandboxInv
<1>1. SandboxInit => SandboxInv
  BY InitSatisfiesInv
<1>2. SandboxInv /\ [SandboxNext]_sandbox => SandboxInv'
  BY StepPreservesInv
<1>3. QED
  BY <1>1, <1>2, PTL DEF SandboxSpec

(* The state of a session's containers is well-typed, and the watcher has  *)
(* seen no skill that was not there.                                       *)
THEOREM TypeCorrect == SandboxSpec => []SandboxTypeOK
<1>1. SandboxInv => SandboxTypeOK
  BY DEF SandboxInv
<1>2. QED
  BY <1>1, InvHolds, PTL

(* What is recorded stays, and its numbers keep the order of the calls.    *)
THEOREM RecordIsKept == SandboxSpec => RecordKept
<1>1. ASSUME SandboxInv, SandboxInv', [SandboxNext]_sandbox
      PROVE  /\ files \subseteq files'
             /\ \A f, g \in files' : f[1] < g[1] <=> f[2] < g[2]
  <2>1. files \subseteq files'
    BY <1>1 DEF SandboxNext, StartBox, FailToStart, Serve, Download, Sample, CallTool,
                EndItem, ItemRaises, Report, KillBox, sandbox, evidence
  <2>2. QED
    BY <1>1, <2>1 DEF SandboxInv, InOrder
<1>2. QED
  BY <1>1, InvHolds, PTL DEF SandboxSpec, RecordKept

(* An item that was served while none of its skills was in the workspace   *)
(* leaves its failure in the poller's log.                                 *)
THEOREM LossesAreReported == SandboxSpec => LossIsReported
<1>1. SandboxInv => (Report /\ got = {} /\ Expected # {} => "sandbox_failed" \in lines')
  BY DEF SandboxInv, SandboxTypeOK, Report
<1>2. QED
  BY <1>1, InvHolds, PTL DEF SandboxSpec, LossIsReported

-----------------------------------------------------------------------------
(* The run.                                                                *)

AfterRead == {"look", "review", "next", "end"}
Closing == {"stop", "join", "returned"}

(* What the runner knows of a turn it has read.  While it is neither       *)
(* invalid nor in error, the session ended every turn properly, and it has *)
(* been idle since.                                                        *)
TurnsWereRead ==
  /\ broken => invalid
  /\ pc \in AfterRead /\ ~invalid => session \notin {"none", "busy"}
  /\ pc \in AfterRead \cup Closing /\ ~invalid /\ ~errors => session \in {"complete", "stopped"}

(* An invalid run's session was interrupted before the run was closed.     *)
LeftAlone == pc \in Closing => told \/ session \notin {"none", "busy"}

RunInv == TypeOK /\ SandboxInv /\ TurnsWereRead /\ LeftAlone /\ GradedIsWhole /\ NextRunAlone

-----------------------------------------------------------------------------
LEMMA InitSatisfiesRunInv ==
  ASSUME Init PROVE RunInv
<1>1. SandboxInv
  BY InitSatisfiesInv DEF Init
<1>2. SandboxTypeOK
  BY <1>1 DEF SandboxInv
<1>a. /\ invalid \in BOOLEAN /\ firstOk \in BOOLEAN /\ broken \in BOOLEAN /\ errors \in BOOLEAN
      /\ graded \in BOOLEAN /\ told \in BOOLEAN /\ astray \in BOOLEAN /\ late \in BOOLEAN
      /\ expired \in BOOLEAN
  BY Zenon DEF Init
<1>b. /\ pc = "begin" /\ attempt = 1 /\ turn = 1 /\ session = "none" /\ dog = "off"
      /\ stream = 0 /\ closed = {} /\ faults = 0
  BY DEF Init
<1>3. TypeOK
  BY <1>2, <1>a, <1>b, SuiteAssumption DEF TypeOK, Turns, Ended
<1>4. TurnsWereRead /\ LeftAlone /\ GradedIsWhole /\ NextRunAlone
  BY DEF Init, TurnsWereRead, LeftAlone, GradedIsWhole, NextRunAlone, AfterRead, Closing
<1>5. QED
  BY <1>1, <1>3, <1>4 DEF RunInv

(* The containers' invariant where a step of the run leaves them alone,    *)
(* clears the poller's log, or begins with another session.                *)
LEMMA SandboxKept ==
  ASSUME SandboxInv,
         \/ UNCHANGED sandbox
         \/ UNCHANGED <<box, workspace, next, evidence, boxes>> /\ lines' = {}
  PROVE  SandboxInv'
  BY DEF SandboxInv, SandboxTypeOK, SeenWereThere, CountIsAhead, InOrder, Numbers,
         sandbox, workspace, evidence

LEMMA SandboxRenewed ==
  ASSUME NextRun PROVE SandboxInv'
  BY SandboxBounds DEF NextRun, SandboxInv, SandboxTypeOK, SeenWereThere, CountIsAhead,
                       InOrder, Numbers

LEMMA RunStep ==
  ASSUME RunInv, [Next]_vars
  PROVE  RunInv'
<1> USE SuiteAssumption
<1> SUFFICES /\ SandboxInv' /\ TypeOK'
             /\ (TurnsWereRead /\ LeftAlone /\ GradedIsWhole /\ NextRunAlone)'
  BY DEF RunInv
<1>0. TypeOK /\ SandboxInv /\ TurnsWereRead /\ LeftAlone /\ GradedIsWhole /\ NextRunAlone
  BY DEF RunInv
<1>1. CASE StartPoller
  <2>1. SandboxInv'
    BY <1>0, <1>1, SandboxKept DEF StartPoller
  <2>2. SandboxTypeOK'
    BY <2>1 DEF SandboxInv
  <2>3. TypeOK'
    BY <1>0, <1>1, <2>2 DEF TypeOK, Turns, Ended,
      StartPoller, Goto, runner, outcome, watchdog, platform
  <2>4. (TurnsWereRead /\ LeftAlone /\ GradedIsWhole /\ NextRunAlone)'
    BY <1>0, <1>1 DEF TypeOK, TurnsWereRead, LeftAlone, GradedIsWhole, NextRunAlone,
      AfterRead, Closing, Ended, StartPoller, Goto, runner, outcome, watchdog, platform
  <2>5. QED
    BY <2>1, <2>3, <2>4
<1>2. CASE CreateSession
  <2>1. SandboxInv'
    BY <1>0, <1>2, SandboxKept DEF CreateSession
  <2>2. SandboxTypeOK'
    BY <2>1 DEF SandboxInv
  <2>3. TypeOK'
    BY <1>0, <1>2, <2>2 DEF TypeOK, Turns, Ended,
      CreateSession, Goto, runner, outcome, watchdog, platform
  <2>4. (TurnsWereRead /\ LeftAlone /\ GradedIsWhole /\ NextRunAlone)'
    BY <1>0, <1>2 DEF TypeOK, TurnsWereRead, LeftAlone, GradedIsWhole, NextRunAlone,
      AfterRead, Closing, Ended, CreateSession, Goto, runner, outcome, watchdog, platform
  <2>5. QED
    BY <2>1, <2>3, <2>4
<1>3. CASE OpenStream
  <2>1. SandboxInv'
    BY <1>0, <1>3, SandboxKept DEF OpenStream
  <2>2. SandboxTypeOK'
    BY <2>1 DEF SandboxInv
  <2>3. TypeOK'
    BY <1>0, <1>3, <2>2 DEF TypeOK, Turns, Ended,
      OpenStream, Goto, runner, outcome, watchdog, platform
  <2>4. (TurnsWereRead /\ LeftAlone /\ GradedIsWhole /\ NextRunAlone)'
    BY <1>0, <1>3 DEF TypeOK, TurnsWereRead, LeftAlone, GradedIsWhole, NextRunAlone,
      AfterRead, Closing, Ended, OpenStream, Goto, runner, outcome, watchdog, platform
  <2>5. QED
    BY <2>1, <2>3, <2>4
<1>4. CASE Attach
  <2>1. SandboxInv'
    BY <1>0, <1>4, SandboxKept DEF Attach
  <2>2. SandboxTypeOK'
    BY <2>1 DEF SandboxInv
  <2>3. TypeOK'
    BY <1>0, <1>4, <2>2 DEF TypeOK, Turns, Ended,
      Attach, Goto, runner, outcome, watchdog, platform
  <2>4. (TurnsWereRead /\ LeftAlone /\ GradedIsWhole /\ NextRunAlone)'
    BY <1>0, <1>4 DEF TypeOK, TurnsWereRead, LeftAlone, GradedIsWhole, NextRunAlone,
      AfterRead, Closing, Ended, Attach, Goto, runner, outcome, watchdog, platform
  <2>5. QED
    BY <2>1, <2>3, <2>4
<1>5. CASE Send
  <2>1. SandboxInv'
    BY <1>0, <1>5, SandboxKept DEF Send
  <2>2. SandboxTypeOK'
    BY <2>1 DEF SandboxInv
  <2>6. told' \in BOOLEAN
    BY <1>5 DEF Send
  <2>3. TypeOK'
    BY <1>0, <1>5, <2>2, <2>6, SMTT(30) DEF TypeOK, Turns, Ended,
      Send, Goto, runner, outcome, watchdog, platform
  <2>4. (TurnsWereRead /\ LeftAlone /\ GradedIsWhole /\ NextRunAlone)'
    BY <1>0, <1>5 DEF TypeOK, TurnsWereRead, LeftAlone, GradedIsWhole, NextRunAlone,
      AfterRead, Closing, Ended, Send, Goto, runner, outcome, watchdog, platform
  <2>5. QED
    BY <2>1, <2>3, <2>4
<1>6. CASE ConsumeTurn
  <2>1. SandboxInv'
    BY <1>0, <1>6, SandboxKept DEF ConsumeTurn
  <2>2. SandboxTypeOK'
    BY <2>1 DEF SandboxInv
  <2>6. pc' \in {"look", "next", "end"}
    BY <1>0, <1>6 DEF TypeOK, Turns, ConsumeTurn, Goto, AfterTurn
  <2>7. broken' \in BOOLEAN /\ errors' \in BOOLEAN /\ firstOk' \in BOOLEAN /\ invalid' \in BOOLEAN
    BY <1>0, <1>6, Zenon DEF TypeOK, ConsumeTurn
  <2>3. TypeOK'
    BY <1>0, <1>6, <2>2, <2>6, <2>7 DEF TypeOK, Turns, Ended,
      ConsumeTurn, runner, outcome, watchdog, platform
  <2>4. (TurnsWereRead /\ LeftAlone /\ GradedIsWhole /\ NextRunAlone)'
    BY <1>0, <1>6, <2>6, <2>7 DEF TypeOK, TurnsWereRead, LeftAlone, GradedIsWhole, NextRunAlone,
      AfterRead, Closing, Ended, ConsumeTurn, runner, outcome, watchdog, platform
  <2>5. QED
    BY <2>1, <2>3, <2>4
<1>7. CASE TurnLost
  <2>1. SandboxInv'
    BY <1>0, <1>7, SandboxKept DEF TurnLost
  <2>2. SandboxTypeOK'
    BY <2>1 DEF SandboxInv
  <2>6. pc' \in {"look", "next", "end"}
    BY <1>0, <1>7 DEF TypeOK, Turns, TurnLost, Goto, AfterTurn
  <2>7. broken' \in BOOLEAN /\ errors' \in BOOLEAN /\ firstOk' \in BOOLEAN /\ invalid' \in BOOLEAN
    BY <1>0, <1>7, Zenon DEF TypeOK, TurnLost
  <2>8. faults' \in 0..MaxFaults
    BY <1>0, <1>7 DEF TypeOK, TurnLost
  <2>9. UNCHANGED <<attempt, turn, graded, session, told, astray, watchdog>>
    BY <1>7 DEF TurnLost, platform
  <2>3. TypeOK'
    BY <1>0, <2>2, <2>6, <2>7, <2>8, <2>9 DEF TypeOK, Turns, Ended, watchdog
  <2>4. (TurnsWereRead /\ LeftAlone /\ GradedIsWhole /\ NextRunAlone)'
    BY <1>0, <1>7, <2>6, <2>7 DEF TypeOK, TurnsWereRead, LeftAlone, GradedIsWhole, NextRunAlone,
      AfterRead, Closing, Ended, TurnLost, runner, outcome, watchdog, platform
  <2>5. QED
    BY <2>1, <2>3, <2>4
<1>8. CASE Look
  <2>1. SandboxInv'
    BY <1>0, <1>8, SandboxKept DEF Look
  <2>2. SandboxTypeOK'
    BY <2>1 DEF SandboxInv
  <2>3. TypeOK'
    BY <1>0, <1>8, <2>2 DEF TypeOK, Turns, Ended,
      Look, runner, outcome, watchdog, platform
  <2>4. (TurnsWereRead /\ LeftAlone /\ GradedIsWhole /\ NextRunAlone)'
    BY <1>0, <1>8 DEF TypeOK, TurnsWereRead, LeftAlone, GradedIsWhole, NextRunAlone,
      AfterRead, Closing, Ended, Look, runner, outcome, watchdog, platform
  <2>5. QED
    BY <2>1, <2>3, <2>4
<1>9. CASE Review
  <2>1. SandboxInv'
    BY <1>0, <1>9, SandboxKept DEF Review
  <2>2. SandboxTypeOK'
    BY <2>1 DEF SandboxInv
  <2>3. TypeOK'
    BY <1>0, <1>9, <2>2 DEF TypeOK, Turns, Ended,
      Review, runner, outcome, watchdog, platform
  <2>4. (TurnsWereRead /\ LeftAlone /\ GradedIsWhole /\ NextRunAlone)'
    BY <1>0, <1>9 DEF TypeOK, TurnsWereRead, LeftAlone, GradedIsWhole, NextRunAlone,
      AfterRead, Closing, Ended, Review, runner, outcome, watchdog, platform
  <2>5. QED
    BY <2>1, <2>3, <2>4
<1>10. CASE GoOn
  <2>1. SandboxInv'
    BY <1>0, <1>10, SandboxKept DEF GoOn
  <2>2. SandboxTypeOK'
    BY <2>1 DEF SandboxInv
  <2>3. TypeOK'
    BY <1>0, <1>10, <2>2 DEF TypeOK, Turns, Ended,
      GoOn, runner, outcome, watchdog, platform
  <2>4. (TurnsWereRead /\ LeftAlone /\ GradedIsWhole /\ NextRunAlone)'
    BY <1>0, <1>10 DEF TypeOK, TurnsWereRead, LeftAlone, GradedIsWhole, NextRunAlone,
      AfterRead, Closing, Ended, GoOn, runner, outcome, watchdog, platform
  <2>5. QED
    BY <2>1, <2>3, <2>4
<1>11. CASE End
  <2>1. SandboxInv'
    BY <1>0, <1>11, SandboxKept DEF End
  <2>2. SandboxTypeOK'
    BY <2>1 DEF SandboxInv
  <2>6. told' \in BOOLEAN
    BY <1>0, <1>11, Zenon DEF TypeOK, End, Interrupt, platform
  <2>7. session' \in {"none", "busy", "complete", "stopped", "erred", "cut"}
    BY <1>0, <1>11 DEF TypeOK, End, Interrupt, platform
  <2>3. TypeOK'
    BY <1>0, <1>11, <2>2, <2>6, <2>7 DEF TypeOK, Turns, Ended,
      End, Goto, runner, outcome, watchdog, platform
  <2>4. (TurnsWereRead /\ LeftAlone /\ GradedIsWhole /\ NextRunAlone)'
    BY <1>0, <1>11 DEF TypeOK, TurnsWereRead, LeftAlone, GradedIsWhole, NextRunAlone,
      AfterRead, Closing, Ended, End, Goto, Interrupt, runner, outcome, watchdog, platform
  <2>5. QED
    BY <2>1, <2>3, <2>4
<1>12. CASE Stop
  <2>1. SandboxInv'
    BY <1>0, <1>12, SandboxKept DEF Stop
  <2>2. SandboxTypeOK'
    BY <2>1 DEF SandboxInv
  <2>3. TypeOK'
    BY <1>0, <1>12, <2>2 DEF TypeOK, Turns, Ended,
      Stop, runner, outcome, watchdog, platform
  <2>4. (TurnsWereRead /\ LeftAlone /\ GradedIsWhole /\ NextRunAlone)'
    BY <1>0, <1>12 DEF TypeOK, TurnsWereRead, LeftAlone, GradedIsWhole, NextRunAlone,
      AfterRead, Closing, Ended, Stop, runner, outcome, watchdog, platform
  <2>5. QED
    BY <2>1, <2>3, <2>4
<1>13. CASE Return
  <2>1. SandboxInv'
    BY <1>0, <1>13, SandboxKept DEF Return
  <2>2. SandboxTypeOK'
    BY <2>1 DEF SandboxInv
  <2>3. TypeOK'
    BY <1>0, <1>13, <2>2 DEF TypeOK, Turns, Ended,
      Return, Goto, runner, outcome, watchdog, platform
  <2>4. (TurnsWereRead /\ LeftAlone /\ GradedIsWhole /\ NextRunAlone)'
    BY <1>0, <1>13 DEF TypeOK, TurnsWereRead, LeftAlone, GradedIsWhole, NextRunAlone,
      AfterRead, Closing, Ended, Return, Goto, runner, outcome, watchdog, platform
  <2>5. QED
    BY <2>1, <2>3, <2>4
<1>14. CASE NextRun
  <2>1. SandboxInv'
    BY <1>14, SandboxRenewed
  <2>2. SandboxTypeOK'
    BY <2>1 DEF SandboxInv
  <2>6. astray' \in BOOLEAN /\ told' \in BOOLEAN /\ expired' \in BOOLEAN
    BY <1>0, <1>14, Zenon DEF TypeOK, NextRun
  <2>7. attempt' \in 1..Runs
    BY <1>0, <1>14 DEF TypeOK, NextRun
  <2>8. /\ pc' = "begin" /\ turn' = 1 /\ session' = "none" /\ dog' = "off"
        /\ stream' = 0 /\ closed' = {} /\ faults' = faults
    BY <1>14 DEF NextRun
  <2>9. /\ invalid' \in BOOLEAN /\ firstOk' \in BOOLEAN /\ broken' \in BOOLEAN
        /\ errors' \in BOOLEAN /\ graded' \in BOOLEAN /\ late' \in BOOLEAN
    BY <1>0, <1>14, Zenon DEF TypeOK, NextRun
  <2>3. TypeOK'
    BY <1>0, <2>2, <2>6, <2>7, <2>8, <2>9 DEF TypeOK, Turns, Ended
  <2>4. (TurnsWereRead /\ LeftAlone /\ GradedIsWhole /\ NextRunAlone)'
    BY <1>0, <1>14 DEF TypeOK, TurnsWereRead, LeftAlone, GradedIsWhole, NextRunAlone,
      AfterRead, Closing, Ended, NextRun, runner, outcome, watchdog, platform
  <2>5. QED
    BY <2>1, <2>3, <2>4
<1>15. CASE Raise
  <2>1. SandboxInv'
    BY <1>0, <1>15, SandboxKept DEF Raise
  <2>2. SandboxTypeOK'
    BY <2>1 DEF SandboxInv
  <2>3. TypeOK'
    BY <1>0, <1>15, <2>2 DEF TypeOK, Turns, Ended,
      Raise, runner, outcome, watchdog, platform
  <2>4. (TurnsWereRead /\ LeftAlone /\ GradedIsWhole /\ NextRunAlone)'
    BY <1>0, <1>15 DEF TypeOK, TurnsWereRead, LeftAlone, GradedIsWhole, NextRunAlone,
      AfterRead, Closing, Ended, Raise, runner, outcome, watchdog, platform
  <2>5. QED
    BY <2>1, <2>3, <2>4
<1>16. CASE Mark
  <2>1. SandboxInv'
    BY <1>0, <1>16, SandboxKept DEF Mark
  <2>2. SandboxTypeOK'
    BY <2>1 DEF SandboxInv
  <2>3. TypeOK'
    BY <1>0, <1>16, <2>2 DEF TypeOK, Turns, Ended,
      Mark, runner, outcome, watchdog, platform
  <2>4. (TurnsWereRead /\ LeftAlone /\ GradedIsWhole /\ NextRunAlone)'
    BY <1>0, <1>16 DEF TypeOK, TurnsWereRead, LeftAlone, GradedIsWhole, NextRunAlone,
      AfterRead, Closing, Ended, Mark, runner, outcome, watchdog, platform
  <2>5. QED
    BY <2>1, <2>3, <2>4
<1>17. CASE DogInterrupts
  <2>1. SandboxInv'
    BY <1>0, <1>17, SandboxKept DEF DogInterrupts
  <2>2. SandboxTypeOK'
    BY <2>1 DEF SandboxInv
  <2>3. TypeOK'
    BY <1>0, <1>17, <2>2 DEF TypeOK, Turns, Ended,
      DogInterrupts, Interrupt, runner, outcome, watchdog, platform
  <2>4. (TurnsWereRead /\ LeftAlone /\ GradedIsWhole /\ NextRunAlone)'
    BY <1>0, <1>17 DEF TypeOK, TurnsWereRead, LeftAlone, GradedIsWhole, NextRunAlone,
      AfterRead, Closing, Ended, DogInterrupts, Interrupt, runner, outcome, watchdog, platform
  <2>5. QED
    BY <2>1, <2>3, <2>4
<1>18. CASE Close
  <2>1. SandboxInv'
    BY <1>0, <1>18, SandboxKept DEF Close
  <2>2. SandboxTypeOK'
    BY <2>1 DEF SandboxInv
  <2>3. TypeOK'
    BY <1>0, <1>18, <2>2 DEF TypeOK, Turns, Ended,
      Close, runner, outcome, watchdog, platform
  <2>4. (TurnsWereRead /\ LeftAlone /\ GradedIsWhole /\ NextRunAlone)'
    BY <1>0, <1>18 DEF TypeOK, TurnsWereRead, LeftAlone, GradedIsWhole, NextRunAlone,
      AfterRead, Closing, Ended, Close, runner, outcome, watchdog, platform
  <2>5. QED
    BY <2>1, <2>3, <2>4
<1>19. CASE Expire
  <2>1. SandboxInv'
    BY <1>0, <1>19, SandboxKept DEF Expire
  <2>2. SandboxTypeOK'
    BY <2>1 DEF SandboxInv
  <2>3. TypeOK'
    BY <1>0, <1>19, <2>2 DEF TypeOK, Turns, Ended,
      Expire, runner, outcome, watchdog, platform
  <2>4. (TurnsWereRead /\ LeftAlone /\ GradedIsWhole /\ NextRunAlone)'
    BY <1>0, <1>19 DEF TypeOK, TurnsWereRead, LeftAlone, GradedIsWhole, NextRunAlone,
      AfterRead, Closing, Ended, Expire, runner, outcome, watchdog, platform
  <2>5. QED
    BY <2>1, <2>3, <2>4
<1>20. CASE FinishTurn
  <2>1. SandboxInv'
    BY <1>0, <1>20, SandboxKept DEF FinishTurn
  <2>2. SandboxTypeOK'
    BY <2>1 DEF SandboxInv
  <2>3. TypeOK'
    BY <1>0, <1>20, <2>2 DEF TypeOK, Turns, Ended,
      FinishTurn, runner, outcome, watchdog, platform
  <2>4. (TurnsWereRead /\ LeftAlone /\ GradedIsWhole /\ NextRunAlone)'
    BY <1>0, <1>20 DEF TypeOK, TurnsWereRead, LeftAlone, GradedIsWhole, NextRunAlone,
      AfterRead, Closing, Ended, FinishTurn, runner, outcome, watchdog, platform
  <2>5. QED
    BY <2>1, <2>3, <2>4
<1>21. CASE InSandbox
  <2>1. SandboxInv'
    BY <1>0, <1>21, StepPreservesInv DEF InSandbox
  <2>2. SandboxTypeOK'
    BY <2>1 DEF SandboxInv
  <2>3. TypeOK'
    BY <1>0, <1>21, <2>2 DEF TypeOK, Turns, Ended,
      InSandbox, runner, outcome, watchdog, platform
  <2>4. (TurnsWereRead /\ LeftAlone /\ GradedIsWhole /\ NextRunAlone)'
    BY <1>0, <1>21 DEF TypeOK, TurnsWereRead, LeftAlone, GradedIsWhole, NextRunAlone,
      AfterRead, Closing, Ended, InSandbox, runner, outcome, watchdog, platform
  <2>5. QED
    BY <2>1, <2>3, <2>4
<1>22. CASE UNCHANGED vars
  <2>1. SandboxInv'
    BY <1>0, <1>22, SandboxKept DEF vars
  <2>2. SandboxTypeOK'
    BY <2>1 DEF SandboxInv
  <2>3. TypeOK'
    BY <1>0, <1>22, <2>2 DEF TypeOK, Turns, Ended,
      vars, runner, outcome, watchdog, platform
  <2>4. (TurnsWereRead /\ LeftAlone /\ GradedIsWhole /\ NextRunAlone)'
    BY <1>0, <1>22 DEF TypeOK, TurnsWereRead, LeftAlone, GradedIsWhole, NextRunAlone,
      AfterRead, Closing, Ended, vars, runner, outcome, watchdog, platform
  <2>5. QED
    BY <2>1, <2>3, <2>4
<1>23. QED
  BY <1>1, <1>2, <1>3, <1>4, <1>5, <1>6, <1>7, <1>8, <1>9, <1>10, <1>11, <1>12, <1>13,
     <1>14, <1>15, <1>16, <1>17, <1>18, <1>19, <1>20, <1>21, <1>22
  DEF Next, Runner, Dog

-----------------------------------------------------------------------------
THEOREM RunInvHolds == Spec => []RunInv
<1>1. Init => RunInv
  BY InitSatisfiesRunInv
<1>2. RunInv /\ [Next]_vars => RunInv'
  BY RunStep
<1>3. QED
  BY <1>1, <1>2, PTL DEF Spec

(* The runner, its watchdog and the session's containers are well-typed,   *)
(* and a run is closed only after its watchdog was told to stop.           *)
THEOREM RunTypeCorrect == Spec => []TypeOK
<1>1. RunInv => TypeOK
  BY DEF RunInv
<1>2. QED
  BY <1>1, RunInvHolds, PTL

(* A run that is graded read every turn to its proper end.                 *)
THEOREM GradedRunsAreWhole == Spec => []GradedIsWhole
<1>1. RunInv => GradedIsWhole
  BY DEF RunInv
<1>2. QED
  BY <1>1, RunInvHolds, PTL

(* When a run begins, no earlier run's session is at work uninterrupted.   *)
THEOREM RunsBeginAlone == Spec => []NextRunAlone
<1>1. RunInv => NextRunAlone
  BY DEF RunInv
<1>2. QED
  BY <1>1, RunInvHolds, PTL
=============================================================================
