------------------------------ MODULE Sandbox -------------------------------
(***************************************************************************)
(* The containers of one session (worker/entrypoint.py, worker/runner.py)  *)
(* and what they leave: lines in the poller's log, and the record of tool  *)
(* results in the session's workspace (evidence.py, tools.py).  The poller *)
(* runs one container of a session at a time.                              *)
(*                                                                         *)
(* External: the SDK's worker, which downloads the agent's skills when it  *)
(* begins, serves the tool calls of the session, and removes the skills    *)
(* when it ends.                                                           *)
(***************************************************************************)
EXTENDS Naturals, FiniteSets, FiniteSetsExt

CONSTANTS Expected,   \* K8SRCA_SKILLS
          MaxCalls,   \* bound: tool calls of the session
          MaxBoxes    \* bound: containers of the session

ASSUME SandboxBounds == MaxCalls \in Nat /\ MaxBoxes \in Nat

VARIABLES
  box,      \* "none", "starting", "serving", "ending"
  dirs,     \* the skills with a directory in the workspace
  full,     \* those of them whose directory is not empty
  seen,     \* what the watcher saw
  got,      \* history: the skills that were there while the item was served
  next,     \* the record's counter
  files,    \* the record's files: number and call
  tmp,      \* numbers of which a temporary file is left
  calls, boxes,
  lines     \* the failures the session's containers logged at the poller

workspace == <<dirs, full, seen, got>>
evidence == <<files, tmp, calls>>
sandbox == <<box, workspace, next, evidence, boxes, lines>>

SandboxTypeOK ==
  /\ box \in {"none", "starting", "serving", "ending"}
  /\ full \subseteq dirs /\ dirs \subseteq Expected
  /\ seen \subseteq got /\ got \subseteq Expected
  /\ next \in Nat /\ files \subseteq (1..MaxCalls) \X (1..MaxCalls) /\ tmp \subseteq 1..MaxCalls
  /\ calls \in 0..MaxCalls /\ boxes \in 0..MaxBoxes
  /\ lines \subseteq {"sandbox_failed", "manifest_mismatch"}

SandboxInit ==
  /\ box = "none" /\ dirs = {} /\ full = {} /\ seen = {} /\ got = {} /\ next = 0
  /\ files = {} /\ tmp = {} /\ calls = 0 /\ boxes = 0 /\ lines = {}

Numbers == {f[1] : f \in files} \cup tmp

(* Fault: the count starts anew. *)
FromOne == 1

(* EvidenceRecord: the count resumes from the files that are there.        *)
Resumed == Max(Numbers \cup {0}) + 1

StartBox ==
  /\ box = "none" /\ boxes < MaxBoxes
  /\ boxes' = boxes + 1 /\ box' = "starting"
  /\ UNCHANGED <<workspace, next, evidence, lines>>

(* main: verify_manifests fails, or the servers cannot be reached.         *)
FailToStart ==
  /\ box = "starting" /\ box' = "none"
  /\ \E line \in {"sandbox_failed", "manifest_mismatch"} : lines' = lines \cup {line}
  /\ UNCHANGED <<workspace, next, evidence, boxes>>

(* The tools are made, with the session's record; the SDK makes the        *)
(* skills' directories, or none when the workspace cannot be written.      *)
Serve ==
  /\ box = "starting" /\ box' = "serving"
  /\ next' = Resumed /\ got' = full
  /\ \E S \in SUBSET Expected : dirs' = dirs \cup S
  /\ UNCHANGED <<full, seen, evidence, boxes, lines>>

Download ==
  /\ box = "serving"
  /\ \E s \in dirs \ full : full' = full \cup {s} /\ got' = got \cup {s}
  /\ UNCHANGED <<box, dirs, seen, next, evidence, boxes, lines>>

(* Fault: a directory counts though nothing is in it. *)
SampleDirectories ==
  /\ box = "serving" /\ seen' = seen \cup dirs /\ seen' # seen
  /\ UNCHANGED <<box, dirs, full, got, next, evidence, boxes, lines>>

(* watch_skills, every half second. *)
Sample ==
  /\ box = "serving" /\ seen' = seen \cup full /\ seen' # seen
  /\ UNCHANGED <<box, dirs, full, got, next, evidence, boxes, lines>>

(* A tool call, whose result is written beside and then put in its place;  *)
(* the disk may fail either, and the call succeeds all the same.           *)
CallTool ==
  /\ box = "serving" /\ calls < MaxCalls
  /\ calls' = calls + 1 /\ next' = next + 1
  /\ \/ files' = files \cup {<<next, calls + 1>>} /\ UNCHANGED tmp
     \/ tmp' = tmp \cup {next} /\ UNCHANGED files
     \/ UNCHANGED <<files, tmp>>
  /\ UNCHANGED <<box, workspace, boxes, lines>>

(* The item is done, or a signal cancels it: the skills are removed.       *)
EndItem ==
  /\ box = "serving" /\ box' = "ending" /\ dirs' = {} /\ full' = {}
  /\ UNCHANGED <<seen, got, next, evidence, boxes, lines>>

(* Nothing of the container's own memory is left. *)
Gone == box' = "none" /\ seen' = {} /\ got' = {} /\ next' = 0

(* handle_item raises while it serves: main logs that, and report_skills   *)
(* is not reached; whether the SDK removed the skills is its affair.       *)
ItemRaises ==
  /\ box = "serving" /\ Gone
  /\ lines' = lines \cup {"sandbox_failed"}
  /\ (dirs' = {} /\ full' = {}) \/ UNCHANGED <<dirs, full>>
  /\ UNCHANGED <<evidence, boxes>>

(* report_skills: an item that was served with none of the skills fails.   *)
Report ==
  /\ box = "ending" /\ Gone
  /\ lines' = IF Expected # {} /\ seen = {} THEN lines \cup {"sandbox_failed"} ELSE lines
  /\ UNCHANGED <<dirs, full, evidence, boxes>>

(* The container is killed, in the middle of a write perhaps. *)
KillBox ==
  /\ box # "none" /\ Gone
  /\ \/ UNCHANGED evidence
     \/ /\ box = "serving" /\ calls < MaxCalls /\ calls' = calls + 1
        /\ tmp' = tmp \cup {next} /\ UNCHANGED files
  /\ UNCHANGED <<dirs, full, boxes, lines>>

SandboxNext ==
  \/ StartBox \/ FailToStart \/ Serve \/ Download \/ Sample \/ CallTool
  \/ EndItem \/ ItemRaises \/ Report \/ KillBox

SandboxSpec == SandboxInit /\ [][SandboxNext]_sandbox

-----------------------------------------------------------------------------
(* Properties.                                                             *)

(* evidence.py: however containers of a session end, a number is one       *)
(* call's, in the order of the calls, and what is recorded stays.          *)
RecordKept ==
  [][ /\ files \subseteq files'
      /\ \A f, g \in files' : f[1] < g[1] <=> f[2] < g[2] ]_sandbox

(* report_skills: afterwards a download that failed looks like one that    *)
(* succeeded; all the same no item ends unreported that was served while   *)
(* none of its skills was in the workspace.                                *)
LossIsReported ==
  [][Report /\ got = {} /\ Expected # {} => "sandbox_failed" \in lines']_sandbox
=============================================================================
