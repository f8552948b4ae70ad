------------------------------ MODULE FactLog ------------------------------
(***************************************************************************)
(* The numbered facts of one session: `facts.jsonl` in its workspace       *)
(* (facts/log.py, and `kb_query.py fact` in the agent's own shell).        *)
(*                                                                         *)
(* A host is a FactLog object, which a worker makes when its container     *)
(* starts; an agent is one run of the script.  They share the file, and    *)
(* the lock that flock takes on it.  A line of the file that is not JSON   *)
(* is skipped by every reader, so `file` holds the readable lines only,    *)
(* and `ending` what a writer that died may have left behind them.         *)
(***************************************************************************)
EXTENDS Naturals, Sequences, FiniteSets

CONSTANTS Hosts, Agents,
          HostFacts, AgentFacts,   \* what they record; `same` is equality
          MaxBatch,    \* bound: facts in one tool result
          MaxCalls,    \* bound: calls of `add` and runs of the script
          Faults       \* which of AllFaults may happen

(* "kill"   a writer dies between two of the lines it writes               *)
(* "tear"   it dies, or cannot write, in the middle of a line              *)
(* "open"   the file cannot be opened                                      *)
(* "write"  a write fails before close, where `add` catches the error      *)
(* "close"  the flush at close fails, where it does not                    *)
AllFaults == {"kill", "tear", "open", "write", "close"}

Writers == Hosts \cup Agents
Facts == HostFacts \cup AgentFacts
Entry == [id : Nat \ {0}, fact : Facts]

ASSUME WritersAssumption == Hosts \cap Agents = {} /\ "none" \notin Writers
ASSUME KindsAssumption == HostFacts \cap AgentFacts = {}
ASSUME BoundsAssumption == MaxBatch \in Nat /\ MaxCalls \in Nat
ASSUME FaultsAssumption == Faults \subseteq AllFaults

VARIABLES file,      \* the readable lines
          ending,    \* after them: a "newline", a "cut" line, or the last is "bare"
          lock,      \* who holds the file's lock, or "none"
          pc, todo, mem, new, out,   \* by writer: see below
          handed,    \* what calls returned: the facts and ids the agent read
          intact,    \* no call has lost a line it answered for, none tore one
          calls

(* By writer: where it is, the facts left to number, the facts it has read *)
(* (`self.facts`), the ones it has still to write, and what it will return.*)
writer == <<pc, todo, mem, new, out>>
vars == <<file, ending, lock, writer, handed, intact, calls>>

TypeOK ==
  /\ file \in Seq(Entry) /\ ending \in {"newline", "cut", "bare"}
  /\ lock \in Writers \cup {"none"}
  /\ pc \in [Writers -> {"idle", "open", "number", "unsaved", "write"}]
  /\ todo \in [Writers -> Seq(Facts)]
  /\ mem \in [Writers -> Seq(Entry)]
  /\ new \in [Writers -> Seq(Entry)]
  /\ out \in [Writers -> SUBSET Entry]
  /\ handed \subseteq Entry /\ intact \in BOOLEAN
  /\ calls \in 0..MaxCalls

Init ==
  /\ file = <<>> /\ ending = "newline" /\ lock = "none"
  /\ pc = [w \in Writers |-> "idle"]
  /\ todo = [w \in Writers |-> <<>>]
  /\ mem = [w \in Writers |-> <<>>]
  /\ new = [w \in Writers |-> <<>>]
  /\ out = [w \in Writers |-> {}]
  /\ handed = {} /\ intact = TRUE /\ calls = 0

-----------------------------------------------------------------------------
Batches(w) == IF w \in Hosts THEN UNION {[1..n -> HostFacts] : n \in 0..MaxBatch}
                             ELSE [1..1 -> AgentFacts]

(* A tool result arrives at a host, or the agent runs the script. *)
Begin(w) ==
  /\ pc[w] = "idle" /\ calls < MaxCalls
  /\ calls' = calls + 1
  /\ pc' = [pc EXCEPT ![w] = "open"]
  /\ todo' \in {[todo EXCEPT ![w] = b] : b \in Batches(w)}
  /\ new' = [new EXCEPT ![w] = <<>>]
  /\ out' = [out EXCEPT ![w] = {}]
  /\ UNCHANGED <<file, ending, lock, mem, handed, intact>>

(* Fault: the numbering goes on from what the host read before (issue #9). *)
LockUnread(w) ==
  /\ pc[w] = "open" /\ lock = "none"
  /\ lock' = w
  /\ pc' = [pc EXCEPT ![w] = "number"]
  /\ UNCHANGED <<file, ending, todo, mem, new, out, handed, intact, calls>>

(* Open, take the lock, and read the file again before numbering. *)
Lock(w) ==
  /\ pc[w] = "open" /\ lock = "none"
  /\ lock' = w
  /\ pc' = [pc EXCEPT ![w] = "number"]
  /\ mem' = [mem EXCEPT ![w] = file]
  /\ UNCHANGED <<file, ending, todo, new, out, handed, intact, calls>>

(* The file cannot be opened: a host numbers from what it holds and saves  *)
(* nothing, the script ends with a traceback.                              *)
OpenFails(w) ==
  /\ "open" \in Faults /\ pc[w] = "open"
  /\ pc' = [pc EXCEPT ![w] = IF w \in Hosts THEN "unsaved" ELSE "idle"]
  /\ intact' = (intact /\ w \in Agents)
  /\ UNCHANGED <<file, ending, lock, todo, mem, new, out, handed, calls>>

Entries(s) == {s[i] : i \in DOMAIN s}
Ids(s) == {e.id : e \in Entries(s)}

(* One past the highest id, 1 for an empty log. *)
Highest(s) == CHOOSE n \in Ids(s) \cup {0} : \A m \in Ids(s) : m <= n
NextId(s) == Highest(s) + 1

(* The facts on record that are `same` as f; only a host looks for them.   *)
Known(w, f) == {i \in DOMAIN mem[w] : w \in Hosts /\ mem[w][i].fact = f}

(* Faults of the numbering: a fact on record is numbered again, and a new  *)
(* number is not remembered for the rest of the batch.                     *)
NumberAgain(w) ==
  /\ pc[w] \in {"number", "unsaved"} /\ todo[w] # <<>>
  /\ todo' = [todo EXCEPT ![w] = Tail(@)]
  /\ LET e == [id |-> NextId(mem[w]), fact |-> Head(todo[w])] IN
     /\ mem' = [mem EXCEPT ![w] = Append(@, e)]
     /\ new' = [new EXCEPT ![w] = Append(@, e)]
     /\ out' = [out EXCEPT ![w] = @ \cup {e}]
  /\ UNCHANGED <<file, ending, lock, pc, handed, intact, calls>>

NumberForgetting(w) ==
  /\ pc[w] \in {"number", "unsaved"} /\ todo[w] # <<>>
  /\ todo' = [todo EXCEPT ![w] = Tail(@)]
  /\ LET e == [id |-> NextId(mem[w]), fact |-> Head(todo[w])] IN
     /\ new' = [new EXCEPT ![w] = Append(@, e)]
     /\ out' = [out EXCEPT ![w] = @ \cup {e}]
  /\ UNCHANGED <<file, ending, lock, pc, mem, handed, intact, calls>>

(* One iteration of `_number`: the first fact on record, or a new one. *)
NumberKnown(w) ==
  \E i \in Known(w, Head(todo[w])) :
    /\ \A j \in Known(w, Head(todo[w])) : i <= j
    /\ out' = [out EXCEPT ![w] = @ \cup {mem[w][i]}]
    /\ UNCHANGED <<mem, new>>

NumberNew(w) ==
  /\ Known(w, Head(todo[w])) = {}
  /\ LET e == [id |-> NextId(mem[w]), fact |-> Head(todo[w])] IN
     /\ mem' = [mem EXCEPT ![w] = Append(@, e)]
     /\ new' = [new EXCEPT ![w] = Append(@, e)]
     /\ out' = [out EXCEPT ![w] = @ \cup {e}]

Number(w) ==
  /\ pc[w] \in {"number", "unsaved"} /\ todo[w] # <<>>
  /\ todo' = [todo EXCEPT ![w] = Tail(@)]
  /\ NumberKnown(w) \/ NumberNew(w)
  /\ UNCHANGED <<file, ending, lock, pc, handed, intact, calls>>

(* The open had failed: the ids are returned all the same. *)
ReturnUnsaved(w) ==
  /\ pc[w] = "unsaved" /\ todo[w] = <<>>
  /\ pc' = [pc EXCEPT ![w] = "idle"]
  /\ handed' = handed \cup out[w]
  /\ UNCHANGED <<file, ending, lock, todo, mem, new, out, intact, calls>>

Numbered(w) ==
  /\ pc[w] = "number" /\ todo[w] = <<>>
  /\ pc' = [pc EXCEPT ![w] = "write"]
  /\ UNCHANGED <<file, ending, lock, todo, mem, new, out, handed, intact, calls>>

(* A line lands after a cut one and is unreadable with it; after a bare    *)
(* one, it takes that with it too.                                         *)
Appended(e) == CASE ending = "newline" -> Append(file, e)
                 [] ending = "cut" -> file
                 [] ending = "bare" -> SubSeq(file, 1, Len(file) - 1)

(* The next line reaches the file; the host's buffer is flushed in pieces. *)
Write(w) ==
  /\ pc[w] = "write" /\ new[w] # <<>>
  /\ file' = Appended(Head(new[w]))
  /\ ending' = "newline"
  /\ new' = [new EXCEPT ![w] = Tail(@)]
  /\ UNCHANGED <<lock, pc, todo, mem, out, handed, intact, calls>>

(* Fault: the lock is given back before the lines are out. *)
CloseEarly(w) ==
  /\ pc[w] = "write"
  /\ lock' = "none"
  /\ pc' = [pc EXCEPT ![w] = "idle"]
  /\ handed' = handed \cup out[w]
  /\ UNCHANGED <<file, ending, todo, mem, new, out, intact, calls>>

(* Flushed, closed, unlocked; the call returns, the script prints its id. *)
Close(w) ==
  /\ pc[w] = "write" /\ new[w] = <<>>
  /\ lock' = "none"
  /\ pc' = [pc EXCEPT ![w] = "idle"]
  /\ handed' = handed \cup out[w]
  /\ UNCHANGED <<file, ending, todo, mem, new, out, intact, calls>>

(* What a writer that stops in the middle of its lines leaves: whole lines *)
(* only, or also a part of the next one, all of it but its newline at most.*)
Tear(w) ==
  /\ "tear" \in Faults /\ pc[w] = "write" /\ new[w] # <<>>
  /\ \/ ending' = "cut" /\ file' = IF ending = "bare" THEN Appended(Head(new[w])) ELSE file
     \/ ending = "newline" /\ ending' = "bare" /\ file' = Append(file, Head(new[w]))

Leave(w) == \/ UNCHANGED <<file, ending, intact>>
            \/ Tear(w) /\ intact' = FALSE

(* `add` catches an error of write: the ids are returned. *)
WriteFails(w) ==
  /\ "write" \in Faults /\ w \in Hosts /\ pc[w] = "write" /\ new[w] # <<>>
  /\ UNCHANGED <<file, ending>> \/ Tear(w)
  /\ intact' = FALSE
  /\ lock' = "none"
  /\ pc' = [pc EXCEPT ![w] = "idle"]
  /\ handed' = handed \cup out[w]
  /\ UNCHANGED <<todo, mem, new, out, calls>>

(* The flush at close fails: the exception leaves `add` (and `observe`),   *)
(* nothing is returned, and the host keeps what it numbered in `mem`.      *)
CloseFails(w) ==
  /\ "close" \in Faults /\ pc[w] = "write" /\ new[w] # <<>>
  /\ Leave(w)
  /\ lock' = "none"
  /\ pc' = [pc EXCEPT ![w] = "idle"]
  /\ UNCHANGED <<todo, mem, new, out, handed, calls>>

(* The process dies, and the kernel gives its lock back.  A host's next    *)
(* container, as after the end of its turn, makes a FactLog of what can    *)
(* then be read: __init__ takes no lock.                                   *)
Kill(w) ==
  /\ "kill" \in Faults /\ (pc[w] # "idle" \/ w \in Hosts)
  /\ Leave(w)
  /\ lock' = IF lock = w THEN "none" ELSE lock
  /\ pc' = [pc EXCEPT ![w] = "idle"]
  /\ mem' = [mem EXCEPT ![w] = file']
  /\ UNCHANGED <<todo, new, out, handed, calls>>

Step(w) == \/ Begin(w) \/ Lock(w) \/ OpenFails(w)
           \/ Number(w) \/ ReturnUnsaved(w) \/ Numbered(w)
           \/ Write(w) \/ Close(w) \/ WriteFails(w) \/ CloseFails(w) \/ Kill(w)

Next == \E w \in Writers : Step(w)

Spec == Init /\ [][Next]_vars

-----------------------------------------------------------------------------
(* Properties.                                                             *)

(* The file never holds two facts under one id, nor ids out of order,      *)
(* whatever fails: all that is written was numbered past everything that   *)
(* could be read (FactLog.add, next_fact_id).                              *)
Ordered(s) == \A i, j \in DOMAIN s : i < j => s[i].id < s[j].id
Increasing == Ordered(file)

(* An id the agent was given names one fact, whoever gave it and whoever   *)
(* recorded facts in between (FactLog.add "numbers past the highest id     *)
(* there -- never from a count it holds").                                 *)
OneFactPerId == intact => \A x, y \in handed : x.id = y.id => x.fact = y.fact

(* A marker the agent can have copied into its answer resolves, for any    *)
(* reader at any later time, to the fact it was given for.                 *)
Resolves == intact => handed \subseteq Entries(file)

(* "A fact already recorded keeps its id": the hosts, through any number   *)
(* of turns and containers, give a derived fact one id.                    *)
KeepsItsId ==
  intact => \A x, y \in handed : x.fact = y.fact /\ x.fact \in HostFacts => x.id = y.id
=============================================================================
