------------------------------- MODULE Scores -------------------------------
(***************************************************************************)
(* How runs of a scenario become numbers, and numbers a comparison: the    *)
(* commands `scenario run`, `rescore`, `checklist`, `baseline` and         *)
(* `compare` (cli.py, scenario/runner.py, scenario/report.py,              *)
(* scenario/checklist.py), on files that people edit meanwhile: the        *)
(* capture, the truth that was reviewed against it, and the checklist.     *)
(* A batch is measured by an instrument (the checklist's text, what its    *)
(* score reads, and the grader) on a world (the capture), and its results  *)
(* carry pins of these.                                                    *)
(***************************************************************************)
EXTENDS Naturals, Sequences, FiniteSets, SequencesExt

CONSTANTS Attempts,    \* runs of a batch (--n)
          MaxVersion,  \* bound: versions of what is edited
          MaxEdits,    \* bound: edits
          MaxCommands  \* bound: commands that grade or score

ASSUME ScoresBounds == {Attempts, MaxVersion, MaxEdits, MaxCommands} \subseteq Nat \ {0}

Version == 1..MaxVersion
List == [view : Version, marks : Version]  \* what the grader reads, and what it does not

(* One run's record in a detail file; `saw`, `graded` and `by` are history: *)
(* the capture it ran on, the list it was graded and scored by, the grader. *)
NoList == [view |-> 0, marks |-> 0]
Rec == [saw : Version, graded : List \cup {NoList}, by : 0..MaxVersion,
        pin : Version, sha : List \cup {NoList}, grader : 0..MaxVersion]

NoResults == [taken |-> FALSE, pin |-> 0, sha |-> NoList, grader |-> 0, of |-> <<>>]
NoCommand == [op |-> "idle", truth |-> 1, code |-> 1, list |-> NoList, left |-> 0, batch |-> <<>>]

VARIABLES
  cap, truth, checklist, code, \* the tree: the capture, the one truth.yaml pins, checklist.yaml,
                            \* and the grader (its prompt, schema and model)
  details,                  \* the records in the detail files
  command,                  \* the command that runs, and what it loaded when it began
  last, base,               \* last-run.json, baseline.json
  out, tabled,              \* what the last table said of the baseline; history: and of what
  agreements,               \* what `scenario checklist --grades 3` wrote
  forced,                   \* history: the baseline was recorded with --force
  raced, moved, old,        \* history: an edit while a command ran; a rescore of a run of
                            \* another capture; of a run of another grader
  edits, commands

tree == <<cap, truth, checklist, code>>
results == <<last, base, out, tabled, forced>>
history == <<raced, moved, old>>
scoresVars == <<tree, details, command, results, agreements, history, edits, commands>>

ScoresInit ==
  /\ cap = 1 /\ truth = 1 /\ checklist = [view |-> 1, marks |-> 1] /\ code = 1
  /\ details = {} /\ command = NoCommand /\ last = NoResults /\ base = NoResults /\ out = "none" /\ tabled = NoResults
  /\ agreements = {} /\ forced = FALSE
  /\ raced = FALSE /\ moved = FALSE /\ old = FALSE
  /\ edits = 0 /\ commands = 0

-----------------------------------------------------------------------------
(* The results of a batch, and the table.                                  *)

Scored(batch) == {r \in ToSet(batch) : r.grader # 0}

First(batch) ==
  batch[CHOOSE i \in DOMAIN batch :
          batch[i].grader # 0 /\ \A j \in DOMAIN batch : batch[j].grader # 0 => i <= j]

(* Aggregate: the pins are the first run's, those of the checklist the     *)
(* first that was graded.                                                  *)
Payload(batch) ==
  LET s == Scored(batch) IN
  [taken |-> TRUE, pin |-> batch[1].pin, of |-> batch,
   sha |-> IF s = {} THEN NoList ELSE First(batch).sha,
   grader |-> IF s = {} THEN 0 ELSE First(batch).grader]

(* Fault: only the world is compared. *)
SameWorld(a, b) == IF a.pin # b.pin THEN "changed" ELSE "compared"

(* _world_changed *)
Pinned(a, b) == IF a.pin # b.pin \/ a.sha # b.sha THEN "changed" ELSE "compared"

(* checklist_comparable, by a process with grader c. *)
Comparable(c) == base.taken /\ base.grader = c

(* checklist_table, checklist_delta: by a process with grader c.           *)
Table(c, a) ==
  CASE a.grader = 0 \/ ~base.taken -> "none"
    [] a.grader # 0 /\ base.taken /\ ~Comparable(c) -> "n/a"
    [] OTHER -> Pinned(a, base)

Show(c, a) == out' = Table(c, a) /\ tabled' = a

(* compare: whether `scenario compare` refuses the two. *)
Refuses(b, a) == b.grader # a.grader \/ b.pin # a.pin \/ b.sha # a.sha

-----------------------------------------------------------------------------
(* `scenario run`                                                          *)

Begin(op) ==
  /\ command.op = "idle" /\ commands < MaxCommands /\ commands' = commands + 1
  /\ command' = [op |-> op, truth |-> truth, code |-> code, left |-> Attempts, batch |-> <<>>,
                 list |-> IF op = "agree" THEN checklist ELSE NoList]

StartRun ==
  /\ Begin("run")
  /\ UNCHANGED <<tree, details, results, agreements, history, edits>>

(* run_once: a capture the truth was not written for is refused; otherwise *)
(* the session runs, and the list it will be graded by is read.            *)
Attempt ==
  /\ command.op = "run" /\ command.left > 0
  /\ command' = IF command.truth # cap THEN [command EXCEPT !.left = @ - 1]
                ELSE [command EXCEPT !.op = "grade", !.list = checklist]
  /\ UNCHANGED <<tree, details, results, agreements, history, edits, commands>>

Keep(r) ==
  /\ command' = [command EXCEPT !.op = "run", !.left = @ - 1, !.batch = Append(@, r)]
  /\ details' = details \cup {r}

(* grade_checklist: the file is read again for its digest.                 *)
Grade ==
  /\ command.op = "grade"
  /\ Keep([saw |-> cap, pin |-> command.truth, graded |-> command.list, sha |-> checklist,
           by |-> command.code, grader |-> command.code])
  /\ UNCHANGED <<tree, results, agreements, history, edits, commands>>

(* The turn did not finish (invalid), or grading it failed.                *)
Ungraded ==
  /\ command.op = "grade"
  /\ Keep([saw |-> cap, pin |-> command.truth, graded |-> NoList, sha |-> NoList,
           by |-> 0, grader |-> 0])
  /\ UNCHANGED <<tree, results, agreements, history, edits, commands>>

(* All attempts were made, or the account is out of credit: what completed *)
(* is compared with the baseline, and saved.                               *)
EndRun ==
  /\ command.op = "run" /\ command' = NoCommand
  /\ IF command.batch = <<>> THEN UNCHANGED <<last, out, tabled>>
     ELSE /\ last' = Payload(command.batch) /\ Show(command.code, Payload(command.batch))
  /\ UNCHANGED <<tree, details, base, forced, agreements, history, edits, commands>>

-----------------------------------------------------------------------------
(* `scenario rescore`: no calls, so it is one step.  The truth's capture   *)
(* becomes the run's.                                                      *)

Rescorable(r) == r.grader # 0 /\ r.sha.view = checklist.view

Rescored(r) ==
  [r EXCEPT !.pin = truth, !.sha = checklist, !.graded = [view |-> r.graded.view, marks |-> checklist.marks]]

Rescore ==
  /\ command.op = "idle" /\ commands < MaxCommands /\ commands' = commands + 1
  /\ \E S \in SUBSET details :
       /\ Cardinality(S) \in 1..Attempts
       /\ LET good == {r \in S : Rescorable(r)}
              batch == SetToSeq({Rescored(r) : r \in good})
          IN  /\ good # {}
              /\ details' = details \cup ToSet(batch)
              /\ Show(code, Payload(batch))
              /\ last' = IF good = S THEN Payload(batch) ELSE last  \* else not saved
              /\ moved' = (moved \/ \E r \in good : r.saw # truth)
              /\ old' = (old \/ \E r \in good : r.grader # code)
  /\ UNCHANGED <<tree, command, base, forced, agreements, raced, edits>>

-----------------------------------------------------------------------------
(* `scenario checklist --grades 3` and `scenario baseline`                 *)

(* The lists are read once; their digests when the gradings are written.   *)
StartAgreement ==
  /\ \E r \in details : r.grader # 0
  /\ Begin("agree")
  /\ UNCHANGED <<tree, details, results, agreements, history, edits>>

EndAgreement ==
  /\ command.op = "agree" /\ command' = NoCommand
  /\ \E passed \in BOOLEAN :
       agreements' = agreements \cup
         {[sha |-> checklist, grader |-> command.code, graded |-> command.list, passed |-> passed]}
  /\ UNCHANGED <<tree, details, results, history, edits, commands>>

(* Fault: gradings of any grader will do. *)
AgreesByList(res) == \E a \in agreements : a.sha = res.sha /\ a.passed

(* _baseline_checklist: the files given with --agreement, of this checklist *)
(* by this grader, are judged as one pool. Its share of agreeing gradings  *)
(* is a mean of theirs and its splits are their union, so a pool meets the *)
(* bar only if a file does, and that file can be given alone.              *)
Agrees(res) == \E a \in agreements : a.sha = res.sha /\ a.grader = res.grader /\ a.passed

(* promote: verbatim; what a table said of the baseline before is history. *)
Promote == base' = last /\ out' = "none" /\ tabled' = NoResults

Baseline(force) ==
  /\ command.op = "idle" /\ last.taken
  /\ last.grader # 0 => last.grader = code /\ (force \/ Agrees(last))
  /\ Promote /\ forced' = force
  /\ UNCHANGED <<tree, details, command, last, agreements, history, edits, commands>>

-----------------------------------------------------------------------------
(* People edit the tree.                                                   *)

Edit ==
  /\ edits < MaxEdits /\ edits' = edits + 1
  /\ raced' = (raced \/ command.op # "idle")
  /\ \/ cap < MaxVersion /\ cap' = cap + 1 /\ UNCHANGED <<truth, checklist, code>>
     \/ truth # cap /\ truth' = cap /\ UNCHANGED <<cap, checklist, code>>
     \/ checklist' \in List \ {checklist} /\ UNCHANGED <<cap, truth, code>>
     \/ code < MaxVersion /\ code' = code + 1 /\ UNCHANGED <<cap, truth, checklist>>
  /\ UNCHANGED <<details, command, results, agreements, moved, old, commands>>

ScoresNext ==
  \/ StartRun \/ Attempt \/ Grade \/ Ungraded \/ EndRun
  \/ Rescore \/ StartAgreement \/ EndAgreement
  \/ Baseline(FALSE) \/ Baseline(TRUE)
  \/ Edit

ScoresSpec == ScoresInit /\ [][ScoresNext]_scoresVars

-----------------------------------------------------------------------------
(* Properties.                                                             *)

(* The two were measured alike: all runs of both saw one capture, and were *)
(* graded and scored by one list and one grader.                           *)
Alike(a, b) ==
  \A r, q \in Scored(a.of) \cup Scored(b.of) :
    r.saw = q.saw /\ r.graded = q.graded /\ r.by = q.by

(* _world_changed, compare: whatever is edited, recorded again, rescored   *)
(* or promoted in between, a movement is only reported between results     *)
(* that were measured alike -- unless a file was edited while a command    *)
(* ran, or a rescore gave a run the pin of a capture it never saw, or took *)
(* runs of a grader that is not today's.                                     *)
LikeWithLike ==
  ~raced /\ ~moved /\ ~old =>
    /\ out = "compared" => Alike(tabled, base)
    /\ last.grader # 0 /\ base.grader # 0 /\ ~Refuses(base, last) => Alike(last, base)

(* _baseline_checklist: a baseline that was not forced stands on gradings  *)
(* that agreed, of the very list its runs were graded by and by their      *)
(* grader.                                                                 *)
BaselineAgreed ==
  base.grader # 0 /\ ~forced /\ ~raced /\ ~old =>
    \E a \in agreements : /\ a.passed
                          /\ \A r \in Scored(base.of) : r.graded = a.graded /\ r.by = a.grader
=============================================================================
