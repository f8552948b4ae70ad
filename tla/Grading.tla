------------------------------- MODULE Grading -------------------------------
(***************************************************************************)
(* How one saved answer becomes a verdict, by the checklist                *)
(* (scenario/checklist.py, rescore) or by the rubric (scenario/grader.py,  *)
(* regrade), while people edit the checklist and the truth.  The model     *)
(* that grades may misread one thing the answer did, or skip one, each     *)
(* time it is asked; what it says is settled by the files.                 *)
(* A trap stands for a gap too: both are the grader's word for each.  A    *)
(* scenario with a checklist is graded by it, one without by the rubric;   *)
(* the rubric's use on both, which the author can ask for, is left out.    *)
(***************************************************************************)
EXTENDS Naturals, Sequences, FiniteSets, TLC

CONSTANTS Candidates,  \* of truth.yaml
          Traps,       \* of truth.yaml
          Readings,    \* what an answer may do with a candidate
          Replies,     \* what an answer may do with everything in truth.yaml
          Truths,      \* revisions of truth.yaml
          Items,       \* of checklist.yaml
          Texts,       \* of an item: what the grader is shown of it
          Grades,      \* gradings of an answer by the rubric (--grades)
          Nil,         \* no verdict, no checklist
          MaxRevisions   \* bound: revisions of the truth or the checklist

Standings == {"most_likely", "not_ruled_out", "ruled_out"}

ASSUME GradingAssumption ==
  /\ Nil \notin BOOLEAN /\ Grades \in Nat
  /\ Replies # {}
  /\ \A r \in Replies : r.traps \in [Traps -> BOOLEAN] /\ r.declined \in BOOLEAN
  /\ \A t \in Truths : /\ t.restraint \in BOOLEAN
                       /\ \A c \in Candidates : t.candidates[c].accepted \subseteq Standings

VARIABLES
  answer,   \* what the answer did
  states,   \* which texts of the checklist's items it states
  held,     \* truth.yaml
  items,    \* checklist.yaml, or Nil
  panel,    \* the rubric's gradings so far, and the truth they are settled by
  verdict,  \* a run's `grade`: its dimensions; and what it came from
  saved,    \* a run's verdicts on the checklist, with the view they were given on
  score,    \* its score, and the list that was scored
  revisions

gradingVars == <<answer, states, held, items, panel, verdict, saved, score, revisions>>

Strengths == {"strong", "weak", "unstated"}
Dims == {"standing", "calibration", "traps", "restraint"}

Item == {i \in [text : Texts, present : BOOLEAN, diagnosis : BOOLEAN] : i.diagnosis => i.present}

NoPanel == [open |-> FALSE, by |-> Nil, cast |-> <<>>]
NoVerdict == [made |-> FALSE, dims |-> <<>>, by |-> Nil, cast |-> <<>>]
NoSaved == [made |-> FALSE, says |-> <<>>, view |-> <<>>]
NoScore == [made |-> FALSE, met |-> {}, diagnosis |-> Nil, of |-> <<>>]

-----------------------------------------------------------------------------
(* The rubric.                                                             *)

(* One grading as the model gives it: each part for the things it reports. *)
Read == [candidates |-> answer.candidates, traps |-> answer.traps,
         strength |-> answer.strength, restraint |-> answer.declined]

Without(f, x) == [y \in DOMAIN f \ {x} |-> f[y]]

Gradings ==
  {Read}
  \cup {[Read EXCEPT !.candidates[c] = r] : c \in Candidates, r \in Readings}
  \cup {[Read EXCEPT !.candidates = Without(@, c)] : c \in Candidates}
  \cup {[Read EXCEPT !.candidates = @ @@ ("other" :> r)] : r \in Readings}
  \cup {[Read EXCEPT !.traps[t] = ~@] : t \in Traps}
  \cup {[Read EXCEPT !.traps = Without(@, t)] : t \in Traps}
  \cup {[Read EXCEPT !.strength = s] : s \in Strengths}
  \cup {[Read EXCEPT !.restraint = r] : r \in BOOLEAN \cup {Nil}}

(* settle_candidates: a reading against truth.yaml.                        *)
StandingOk(c, r, by) == c \in Candidates /\ r.standing \in by.candidates[c].accepted

Calibrated(c, r, by) ==
  c \in Candidates =>
    /\ r.standing = "ruled_out" => r.grounded # FALSE
    /\ r.standing \in {"most_likely", "not_ruled_out"} =>
         by.candidates[c].strength = {} \/ r.strength \in by.candidates[c].strength \cup {"unstated"}

Absent == [standing |-> "absent", strength |-> "n/a", grounded |-> Nil]

(* Fault: only what the grader reports is settled. *)
SettledAsGiven(g) == g.candidates

(* A candidate the grader skipped is one the answer did not place. *)
Settled(g) == [c \in DOMAIN g.candidates \cup Candidates |->
                 IF c \in DOMAIN g.candidates THEN g.candidates[c] ELSE Absent]

(* settle_restraint *)
Restraint(g, by) == IF ~by.restraint THEN Nil ELSE IF g.restraint = Nil THEN FALSE ELSE g.restraint

All(S) == IF S = {} THEN Nil ELSE FALSE \notin S

(* Grade.dimensions *)
Dimensions(g, by) ==
  LET cs == Settled(g)
  IN  [standing    |-> All({StandingOk(c, cs[c], by) : c \in DOMAIN cs}),
       calibration |-> All({Calibrated(c, cs[c], by) : c \in DOMAIN cs}
                            \cup (IF by.range = {} THEN {} ELSE {g.strength \in by.range})),
       traps       |-> All({g.traps[t] : t \in DOMAIN g.traps}),
       restraint   |-> Restraint(g, by)]

(* PanelGrade: the majority of those that gave a verdict; a tie fails.     *)
Majority(votes) ==
  [d \in Dims |->
     LET counted == {m \in DOMAIN votes : votes[m][d] # Nil}
         yes == {m \in counted : votes[m][d]}
     IN  IF counted = {} THEN Nil ELSE 2 * Cardinality(yes) > Cardinality(counted)]

-----------------------------------------------------------------------------
(* The checklist.                                                          *)

(* grader_view *)
View(l) == [i \in Items |-> l[i].text]

(* met: what is unclear meets nothing.                                     *)
Met(item, says) == says # "unclear" /\ (says = "yes") = item.present

(* score *)
Score(l, says) ==
  LET met == {i \in Items : Met(l[i], says[i])}
      marked == {i \in Items : l[i].diagnosis}
  IN  [made |-> TRUE, met |-> met, of |-> l,
       diagnosis |-> IF marked = {} THEN Nil ELSE marked \subseteq met]

States(l) == [i \in Items |-> IF <<i, l[i].text>> \in states THEN "yes" ELSE "no"]

-----------------------------------------------------------------------------
GradingInit ==
  /\ held \in Truths
  /\ \/ items = Nil /\ states = {} /\ answer \in Replies
     \/ /\ items \in [Items -> Item] /\ states \in SUBSET (Items \X Texts)
        /\ answer = CHOOSE a \in Replies : TRUE
  /\ panel = NoPanel /\ verdict = NoVerdict /\ saved = NoSaved /\ score = NoScore
  /\ revisions = 0

(* The grade of a run, or `scenario regrade`.  Bound: one that completes.  *)
StartGrade ==
  /\ items = Nil /\ ~panel.open /\ ~verdict.made
  /\ panel' = [open |-> TRUE, by |-> held, cast |-> <<>>]
  /\ UNCHANGED <<answer, states, held, items, verdict, saved, score, revisions>>

GradeOnce ==
  /\ panel.open /\ Len(panel.cast) < Grades
  /\ \E g \in Gradings : panel' = [panel EXCEPT !.cast = Append(@, g)]
  /\ UNCHANGED <<answer, states, held, items, verdict, saved, score, revisions>>

(* The account's credit ran out: the answer keeps the grade it had.        *)
GradeFails ==
  /\ panel.open /\ panel' = NoPanel
  /\ UNCHANGED <<answer, states, held, items, verdict, saved, score, revisions>>

EndGrade ==
  /\ panel.open /\ Len(panel.cast) = Grades /\ panel' = NoPanel
  /\ verdict' = [made |-> TRUE, by |-> panel.by, cast |-> panel.cast,
                 dims |-> Majority([m \in 1..Grades |-> Dimensions(panel.cast[m], panel.by)])]
  /\ UNCHANGED <<answer, states, held, items, saved, score, revisions>>

(* checklist.grade: an item the grader skipped comes back unclear.         *)
GradeList ==
  /\ items # Nil
  /\ LET said == States(items)
     IN  \E i \in Items : \E s \in {"yes", "no", "unclear"} :
           saved' = [made |-> TRUE, says |-> [said EXCEPT ![i] = s], view |-> View(items)]
  /\ score' = Score(items, saved'.says)
  /\ UNCHANGED <<answer, states, held, items, panel, verdict, revisions>>

(* Fault: what the grader was shown is not compared. *)
RescoreAnyway ==
  /\ saved.made
  /\ score' = Score(items, saved.says)
  /\ UNCHANGED <<answer, states, held, items, panel, verdict, saved, revisions>>

(* rescore: refused when the text the grader was shown has changed.        *)
ScoreAgain ==
  /\ saved.made /\ saved.view = View(items)
  /\ score' = Score(items, saved.says)
  /\ UNCHANGED <<answer, states, held, items, panel, verdict, saved, revisions>>

Revise ==
  /\ revisions < MaxRevisions /\ revisions' = revisions + 1
  /\ \/ items = Nil /\ held' \in Truths \ {held} /\ UNCHANGED items
     \/ /\ items # Nil /\ UNCHANGED held
        /\ \E i \in Items : \E e \in Item \ {items[i]} : items' = [items EXCEPT ![i] = e]
  /\ UNCHANGED <<answer, states, panel, verdict, saved, score>>

GradingNext ==
  \/ StartGrade \/ GradeOnce \/ GradeFails \/ EndGrade
  \/ GradeList \/ ScoreAgain
  \/ Revise

GradingSpec == GradingInit /\ [][GradingNext]_gradingVars

-----------------------------------------------------------------------------
(* Properties.                                                             *)

(* The members that misread a thing.  Skipping counts as misreading for a  *)
(* trap and for calibration, where what a member skips it does not fail;   *)
(* for standing and restraint a member must say something the answer does  *)
(* not do.                                                                 *)
Members == DOMAIN verdict.cast
MisreadCandidate(c) ==
  {m \in Members : /\ c \in DOMAIN verdict.cast[m].candidates
                   /\ verdict.cast[m].candidates[c] # answer.candidates[c]}
MisreadTrap(t) ==
  {m \in Members : t \in DOMAIN verdict.cast[m].traps => verdict.cast[m].traps[t] # answer.traps[t]}
MisreadStrength == {m \in Members : verdict.cast[m].strength # answer.strength}
MisreadRestraint == {m \in Members : verdict.cast[m].restraint \notin {Nil, answer.declined}}

Skipped(c) == {m \in Members : c \notin DOMAIN verdict.cast[m].candidates}

Most(members) == 2 * Cardinality(members) > Grades

(* settle_candidates "A candidate the grader skipped is one the answer did *)
(* not place", settle_restraint, PanelGrade: an answer passes a dimension  *)
(* only if each thing the truth held it to, as the grading read truth.yaml,*)
(* is right in the answer, or most of the panel misread that very thing.   *)
(* Gradings that err on different things never pass a wrong answer, and a  *)
(* candidate nobody reports never passes for one the answer placed.        *)
PassedOnMerit ==
  verdict.made =>
    LET passed(d) == verdict.dims[d] = TRUE
        by == verdict.by
        did == answer.candidates
    IN  /\ passed("standing") =>
             \A c \in Candidates : StandingOk(c, did[c], by) \/ Most(MisreadCandidate(c))
        /\ passed("calibration") =>
             /\ \A c \in Candidates : Calibrated(c, did[c], by) \/ Most(MisreadCandidate(c) \cup Skipped(c))
             /\ by.range = {} \/ answer.strength \in by.range \/ Most(MisreadStrength)
        /\ passed("traps") => \A t \in Traps : answer.traps[t] \/ Most(MisreadTrap(t))
        /\ passed("restraint") => answer.declined \/ Most(MisreadRestraint)

(* rescore, grader_view "Two checklists with the same view get the same    *)
(* verdicts", met: whatever is edited and scored again, an item counts as  *)
(* met only if the answer meets it as the scored list words and expects    *)
(* it, or the grader misread the text it was shown.  By what it skipped or *)
(* called unclear nothing is met.                                          *)
MetOnMerit ==
  score.made =>
    \A i \in score.met :
      \/ (<<i, score.of[i].text>> \in states) = score.of[i].present
      \/ saved.says[i] = IF <<i, saved.view[i]>> \in states THEN "no" ELSE "yes"
=============================================================================
