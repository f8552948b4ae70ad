----------------------------- MODULE Standings ------------------------------
(***************************************************************************)
(* How facts stand on claims: the three-valued part of kb_query.py that    *)
(* `open` runs on.  A line is [f, v, t]: a fact, its value, and whether it *)
(* is stated true; a store is a set of lines, one for a fact and value.    *)
(***************************************************************************)
EXTENDS Knowledge, FiniteSets, SequencesExt

T == 2
U == 1
F == 0
Truth(b) == IF b THEN T ELSE F

Alike(l, m) == l.f = m.f /\ l.v = m.v
Contradicts(l, m) == Alike(l, m) /\ l.t # m.t

(* parse_facts: a line that contradicts an earlier one is refused; one     *)
(* that says the same again adds nothing.                                  *)
Parse(lines) ==
  {lines[i] : i \in {j \in DOMAIN lines : ~\E k \in 1..(j - 1) : Contradicts(lines[k], lines[j])}}

(* cmd_open: what the agent recorded takes the place of what was derived.  *)
Store(derived, told) ==
  Parse(told) \cup {l \in Parse(derived) : ~\E i \in DOMAIN told : Alike(told[i], l)}

(* The truth of a stored fact against a condition's comparison, negated or *)
(* not.                                                                    *)
Judged(c, l) ==
  LET v == IF l.v \in c.ne THEN (IF l.t THEN F ELSE U) ELSE Truth(l.t)
  IN IF c.neg THEN T - v ELSE v

Hits(store, c) == {l \in store : l.f = c.f /\ c.v \in {Some, l.v}}

(* Fault: what is not recorded is false. *)
ValueClosed(store, c) ==
  LET hits == Hits(store, c)
  IN IF hits = {} THEN {Truth(c.neg)} ELSE {Judged(c, l) : l \in hits}

(* _value: the condition under each way of binding its variable.  How one  *)
(* is bound matters to no other condition (KnowledgeChecked).              *)
Value(store, c) ==
  LET hits == Hits(store, c)
      otherwise == c.f \in Functional /\ c.v # Some
                   /\ \E l \in store : l.f = c.f /\ l.v # c.v /\ l.t
  IN CASE hits # {} -> {Judged(c, l) : l \in hits}
       [] hits = {} /\ otherwise -> {Truth(c.neg)}
       [] OTHER -> {U}

(* _alternative: the conjunction is true, or unknown, at the best binding; *)
(* and what is unknown there.                                              *)
IsTrue(store, alt) == \A i \in DOMAIN alt : T \in Value(store, alt[i])
IsOpen(store, alt) == ~IsTrue(store, alt) /\ \A i \in DOMAIN alt : Value(store, alt[i]) # {F}
Unknown(store, alt) == {c \in Elements(alt) : T \notin Value(store, c)}

Greatest(S) == CHOOSE n \in S \cup {0} : \A m \in S : n >= m

RuledOut(store, c) == \E i \in DOMAIN c.rulesOut : IsTrue(store, c.rulesOut[i])

(* status.  An alternative that is unknown would still move the claim; a   *)
(* reserved fact is not to be had from a tool.                             *)
Standing(store, c) ==
  LET holds(part) == {i \in DOMAIN part : IsTrue(store, part[i][2])}
      held == Greatest({c.for[i][1] : i \in holds(c.for)})
      lowered == MapThenSumSet(LAMBDA i : CASE c.against[i][1] = Strong -> 2
                                            [] c.against[i][1] = Moderate -> 1
                                            [] OTHER -> 0,
                               holds(c.against))
      live == Elements(c.rulesOut) \cup {x[2] : x \in {y \in Elements(c.for) : y[1] > held}}
      checkable == \E a \in live :
                     IsOpen(store, a) /\ \A x \in Unknown(store, a) : x.f \notin Reserved
      grade == IF held > lowered THEN held - lowered ELSE 0
  IN IF RuledOut(store, c)
     THEN [status |-> IF held = Strong THEN "conflicting" ELSE "ruled_out", grade |-> 0]
     ELSE [status |-> IF grade > 0 THEN "supported"
                      ELSE IF checkable THEN "open" ELSE "could_not_check", grade |-> grade]

(* widened: a symptom whose candidates are all sub-causes of one claim is  *)
(* opened as the symptom that claim is a candidate of.                     *)
Widened ==
  [symptom \in DOMAIN Symptoms |->
     LET mine == Elements(Symptoms[symptom])
         wider == {s \in DOMAIN Symptoms \ {symptom} :
                     \E c \in Elements(Symptoms[s]) : mine \subseteq Subs(c)}
     IN IF wider = {} THEN symptom ELSE CHOOSE s \in wider : TRUE]

(* visit: the sub-causes of a claim are looked at unless it is ruled out   *)
(* or in conflict, and theirs (KnowledgeChecked: there are no more levels).*)
Pursued(store, some) == UNION {Subs(c) : c \in {d \in some : ~RuledOut(store, Claims[d])}}
Visited(store, some) ==
  LET below == Pursued(store, some) IN some \cup below \cup Pursued(store, below)

(* A sub-cause's support lifts its claim to the same grade. *)
Row(store, claim) ==
  LET here == Standing(store, Claims[claim])
      best == Greatest({Standing(store, Claims[c]).grade : c \in Visited(store, {claim}) \ {claim}})
  IN IF RuledOut(store, Claims[claim]) \/ best <= here.grade THEN here
     ELSE [status |-> "supported", grade |-> best]

(* cmd_open: the rows for a symptom. *)
Opened(store, symptom) ==
  [c \in Visited(store, Elements(Symptoms[symptom])) |-> Row(store, c)]
=============================================================================
