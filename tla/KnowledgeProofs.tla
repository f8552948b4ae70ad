--------------------------- MODULE KnowledgeProofs --------------------------
(***************************************************************************)
(* Proofs about what an agent is given to go by: FactLog, for any number   *)
(* of hosts, agents and facts, any batch size, and every combination of    *)
(* faults; Mining, for any hypotheses, claims, answers and bounds; and     *)
(* Investigation, for any nodes, any facts the agent may record, and any   *)
(* bounds.                                                                 *)
(***************************************************************************)
EXTENDS FactLog, Mining, Investigation, FiniteSetTheorems, SequenceTheorems, TLAPS

-----------------------------------------------------------------------------
(* Logs as sequences.                                                      *)

(* A fact numbered past a log keeps it ordered. *)
LEMMA OrderedAppend ==
  ASSUME NEW s \in Seq(Entry), NEW e \in Entry, Ordered(s), \A x \in Entries(s) : x.id < e.id
  PROVE  /\ Append(s, e) \in Seq(Entry)
         /\ Ordered(Append(s, e))
         /\ Entries(Append(s, e)) = Entries(s) \cup {e}
<1> DEFINE t == Append(s, e)
<1>1. /\ t \in Seq(Entry) /\ Len(s) \in Nat /\ DOMAIN s = 1..Len(s)
      /\ DOMAIN t = 1..(Len(s) + 1) /\ t[Len(s) + 1] = e
      /\ \A i \in 1..Len(s) : t[i] = s[i]
  OBVIOUS
<1> HIDE DEF t
<1>2. Entries(t) = Entries(s) \cup {e}
  <2>1. ASSUME NEW x \in Entries(t) PROVE x \in Entries(s) \cup {e}
    BY <1>1, <2>1 DEF Entries
  <2>2. ASSUME NEW x \in Entries(s) PROVE x \in Entries(t)
    BY <1>1, <2>2 DEF Entries
  <2>3. e \in Entries(t)
    BY <1>1 DEF Entries
  <2> QED
    BY <2>1, <2>2, <2>3
<1>3. ASSUME NEW i \in DOMAIN t, NEW j \in DOMAIN t, i < j PROVE t[i].id < t[j].id
  <2>1. i \in 1..Len(s) /\ t[i] = s[i] /\ s[i] \in Entries(s)
    BY <1>1, <1>3 DEF Entries
  <2>2. CASE j = Len(s) + 1
    BY <1>1, <2>1, <2>2
  <2>3. CASE j # Len(s) + 1
    BY <1>1, <1>3, <2>1, <2>3 DEF Ordered
  <2> QED
    BY <2>2, <2>3
<1> QED
  BY <1>1, <1>2, <1>3 DEF Ordered, t

(* The first line to write is numbered before the others. *)
LEMMA OrderedTail ==
  ASSUME NEW s \in Seq(Entry), Ordered(s), s # <<>>
  PROVE  /\ Head(s) \in Entry /\ Tail(s) \in Seq(Entry)
         /\ Ordered(Tail(s))
         /\ Entries(s) = Entries(Tail(s)) \cup {Head(s)}
         /\ \A x \in Entries(Tail(s)) : Head(s).id < x.id
<1> DEFINE t == Tail(s)
<1>1. /\ t \in Seq(Entry) /\ Head(s) \in Entry /\ Head(s) = s[1]
      /\ Len(s) \in Nat \ {0} /\ DOMAIN s = 1..Len(s) /\ DOMAIN t = 1..(Len(s) - 1)
      /\ \A i \in 1..(Len(s) - 1) : t[i] = s[i + 1]
  OBVIOUS
<1> HIDE DEF t
<1>2. ASSUME NEW i \in DOMAIN t, NEW j \in DOMAIN t, i < j PROVE t[i].id < t[j].id
  <2>1. i + 1 \in DOMAIN s /\ j + 1 \in DOMAIN s /\ i + 1 < j + 1
    BY <1>1, <1>2
  <2>2. t[i] = s[i + 1] /\ t[j] = s[j + 1]
    BY <1>1
  <2> QED
    BY <2>1, <2>2 DEF Ordered
<1>3. \A x \in Entries(t) : Head(s).id < x.id
  <2> TAKE x \in Entries(t)
  <2>1. PICK i \in DOMAIN t : x = t[i]
    BY DEF Entries
  <2>2. i + 1 \in DOMAIN s /\ 1 \in DOMAIN s /\ 1 < i + 1 /\ x = s[i + 1]
    BY <1>1, <2>1
  <2> QED
    BY <1>1, <2>2 DEF Ordered
<1>4. Entries(s) = Entries(t) \cup {Head(s)}
  <2>1. ASSUME NEW x \in Entries(s) PROVE x \in Entries(t) \cup {Head(s)}
    <3>1. PICK i \in DOMAIN s : x = s[i]
      BY DEF Entries
    <3>2. CASE i = 1
      BY <1>1, <3>1, <3>2
    <3>3. CASE i # 1
      <4>1. i - 1 \in DOMAIN t /\ t[i - 1] = s[i]
        BY <1>1, <3>3
      <4> QED
        BY <3>1, <4>1 DEF Entries
    <3> QED
      BY <3>2, <3>3
  <2>2. ASSUME NEW x \in Entries(t) PROVE x \in Entries(s)
    <3>1. PICK i \in DOMAIN t : x = t[i]
      BY DEF Entries
    <3>2. i + 1 \in DOMAIN s /\ s[i + 1] = x
      BY <1>1, <3>1
    <3> QED
      BY <3>2 DEF Entries
  <2>3. Head(s) \in Entries(s)
    BY <1>1 DEF Entries
  <2> QED
    BY <2>1, <2>2, <2>3
<1>5. Ordered(t)
  BY <1>2 DEF Ordered
<1> QED
  BY <1>1, <1>3, <1>4, <1>5 DEF t

(* Losing the last line keeps a log ordered. *)
LEMMA OrderedFront ==
  ASSUME NEW s \in Seq(Entry), Ordered(s), s # <<>>
  PROVE  LET t == SubSeq(s, 1, Len(s) - 1)
         IN  t \in Seq(Entry) /\ Ordered(t) /\ Entries(t) \subseteq Entries(s)
<1> DEFINE t == SubSeq(s, 1, Len(s) - 1)
<1>1. Len(s) \in Nat \ {0} /\ DOMAIN s = 1..Len(s)
  OBVIOUS
<1>2. t \in Seq(Entry) /\ DOMAIN t = 1..(Len(s) - 1) /\ \A i \in 1..(Len(s) - 1) : t[i] = s[i]
  BY <1>1, SubSeqProperties
<1> HIDE DEF t
<1>3. Ordered(t) /\ Entries(t) \subseteq Entries(s)
  BY <1>1, <1>2 DEF Ordered, Entries
<1> QED
  BY <1>2, <1>3 DEF t

(* next_id numbers past every fact of an ordered log. *)
LEMMA NextIdAbove ==
  ASSUME NEW s \in Seq(Entry), Ordered(s)
  PROVE  NextId(s) \in Nat \ {0} /\ \A x \in Entries(s) : x.id < NextId(s)
<1>0. /\ Len(s) \in Nat /\ DOMAIN s = 1..Len(s)
      /\ \A i \in DOMAIN s : s[i] \in Entry
  OBVIOUS
<1>1. /\ Len(s) \in Nat /\ DOMAIN s = 1..Len(s)
      /\ \A i \in DOMAIN s : s[i] \in Entry /\ s[i].id \in Nat \ {0}
  BY <1>0 DEF Entry
<1>2. Ids(s) \subseteq Nat
  BY <1>1 DEF Ids, Entries
<1>3. \E n \in Ids(s) \cup {0} : \A m \in Ids(s) : m <= n
  <2>1. CASE Len(s) = 0
    BY <1>1, <2>1 DEF Ids, Entries
  <2>2. CASE Len(s) # 0
    <3>1. Len(s) \in DOMAIN s /\ s[Len(s)].id \in Ids(s)
      BY <1>1, <2>2 DEF Ids, Entries
    <3>2. \A m \in Ids(s) : m <= s[Len(s)].id
      <4> TAKE m \in Ids(s)
      <4>1. PICK i \in DOMAIN s : m = s[i].id
        BY DEF Ids, Entries
      <4>2. CASE i = Len(s)
        BY <1>1, <4>1, <4>2
      <4>3. CASE i # Len(s)
        <5>1. i < Len(s)
          BY <1>1, <4>3
        <5> QED
          BY <1>1, <3>1, <4>1, <5>1 DEF Ordered
      <4> QED
        BY <4>2, <4>3
    <3> QED
      BY <3>1, <3>2
  <2> QED
    BY <2>1, <2>2
<1>4. Highest(s) \in Ids(s) \cup {0} /\ \A m \in Ids(s) : m <= Highest(s)
  BY <1>3 DEF Highest
<1>5. \A x \in Entries(s) : x.id \in Ids(s)
  BY DEF Ids
<1> QED
  BY <1>2, <1>4, <1>5 DEF NextId

-----------------------------------------------------------------------------
(* Types.                                                                  *)

(* The types, with what Appended needs: a bare line is there to be lost.   *)
Typed == TypeOK /\ (ending = "bare" => file # <<>>)

LEMMA TypedInit == Init => Typed
  BY BoundsAssumption DEF Init, Typed, TypeOK

(* What the next line of a log leaves readable is a log. *)
LEMMA AppendedType ==
  ASSUME Typed, NEW e \in Entry
  PROVE  Appended(e) \in Seq(Entry)
<1>1. CASE ending = "newline"
  BY <1>1 DEF Typed, TypeOK, Appended
<1>2. CASE ending = "cut"
  BY <1>2 DEF Typed, TypeOK, Appended
<1>3. CASE ending = "bare"
  <2>1. file # <<>> /\ file \in Seq(Entry)
    BY <1>3 DEF Typed, TypeOK
  <2>2. Len(file) \in Nat \ {0}
    BY <2>1
  <2>3. SubSeq(file, 1, Len(file) - 1) \in Seq(Entry)
    BY <2>1, <2>2, SubSeqProperties
  <2> QED
    BY <1>3, <2>3 DEF Appended
<1> QED
  BY <1>1, <1>2, <1>3 DEF Typed, TypeOK

(* Tearing a line leaves a log, and a bare line only where there is one. *)
LEMMA TearTypes ==
  ASSUME Typed, NEW w \in Writers, Tear(w)
  PROVE  /\ file' \in Seq(Entry) /\ ending' \in {"newline", "cut", "bare"}
         /\ ending' = "bare" => file' # <<>>
<1>1. Head(new[w]) \in Entry /\ file \in Seq(Entry)
  BY DEF Typed, TypeOK, Tear
<1>2. Appended(Head(new[w])) \in Seq(Entry)
  BY <1>1, AppendedType
<1>3. Append(file, Head(new[w])) \in Seq(Entry) /\ Append(file, Head(new[w])) # <<>>
  BY <1>1
<1> QED
  BY <1>1, <1>2, <1>3 DEF Tear

LEMMA LeaveTypes ==
  ASSUME Typed, NEW w \in Writers, Leave(w)
  PROVE  /\ file' \in Seq(Entry) /\ ending' \in {"newline", "cut", "bare"}
         /\ ending' = "bare" => file' # <<>>
         /\ intact' \in BOOLEAN
<1>1. CASE UNCHANGED <<file, ending, intact>>
  BY <1>1 DEF Typed, TypeOK
<1>2. CASE Tear(w) /\ intact' = FALSE
  BY <1>2, TearTypes
<1> QED
  BY <1>1, <1>2 DEF Leave

(* A step keeps the types, as long as the logs in memory are ordered: only *)
(* then has a log a highest id.                                            *)
Sorted == Ordered(file) /\ \A w \in Writers : Ordered(mem[w])

LEMMA TypedStep == Typed /\ Sorted /\ [Next]_vars => Typed'
<1> SUFFICES ASSUME Typed, Sorted, [Next]_vars PROVE Typed'
  OBVIOUS
<1> USE BoundsAssumption DEF Typed, TypeOK
<1>1. ASSUME NEW w \in Writers, Begin(w) PROVE Typed'
  <2>1. PICK b \in Batches(w) : todo' = [todo EXCEPT ![w] = b]
    BY <1>1 DEF Begin
  <2>2. b \in Seq(Facts)
    <3>1. CASE w \in Hosts
      <4>1. PICK n \in 0..MaxBatch : b \in [1..n -> HostFacts]
        BY <3>1 DEF Batches
      <4>2. n \in Nat
        OBVIOUS
      <4>3. [1..n -> HostFacts] \subseteq [1..n -> Facts]
        BY DEF Facts
      <4>4. \E k \in Nat : b \in [1..k -> Facts]
        BY <4>1, <4>2, <4>3
      <4> QED
        BY <4>4, SeqDef
    <3>2. CASE w \notin Hosts
      <4>1. b \in [1..1 -> Facts]
        BY <3>2 DEF Batches, Facts
      <4>2. \E n \in Nat : b \in [1..n -> Facts]
        BY <4>1
      <4> QED
        BY <4>2, SeqDef
    <3> QED
      BY <3>1, <3>2
  <2>3. calls' \in 0..MaxCalls
    BY <1>1 DEF Begin
  <2>4. todo' \in [Writers -> Seq(Facts)]
    BY <2>1, <2>2
  <2>5. new' \in [Writers -> Seq(Entry)] /\ out' \in [Writers -> SUBSET Entry]
    BY <1>1 DEF Begin
  <2> QED
    BY <1>1, <2>3, <2>4, <2>5 DEF Begin
<1>2. ASSUME NEW w \in Writers, Lock(w) PROVE Typed'
  BY <1>2 DEF Lock
<1>3. ASSUME NEW w \in Writers, OpenFails(w) PROVE Typed'
  BY <1>3 DEF OpenFails
<1>4. ASSUME NEW w \in Writers, Number(w) PROVE Typed'
  <2>1. Head(todo[w]) \in Facts /\ Tail(todo[w]) \in Seq(Facts)
    BY <1>4 DEF Number
  <2>2. todo' \in [Writers -> Seq(Facts)]
    BY <1>4, <2>1 DEF Number
  <2>3. CASE NumberKnown(w)
    <3>1. PICK i \in Known(w, Head(todo[w])) : out' = [out EXCEPT ![w] = @ \cup {mem[w][i]}]
      BY <2>3 DEF NumberKnown
    <3>2. mem[w][i] \in Entry
      BY DEF Known
    <3>3. out' \in [Writers -> SUBSET Entry]
      BY <3>1, <3>2
    <3> QED
      BY <1>4, <2>2, <2>3, <3>3 DEF Number, NumberKnown
  <2>4. CASE NumberNew(w)
    <3> DEFINE e == [id |-> NextId(mem[w]), fact |-> Head(todo[w])]
    <3>1. e \in Entry
      BY <2>1, NextIdAbove DEF Entry, Sorted
    <3>2. Append(mem[w], e) \in Seq(Entry) /\ Append(new[w], e) \in Seq(Entry)
      BY <3>1
    <3>3. /\ mem' = [mem EXCEPT ![w] = Append(@, e)] /\ new' = [new EXCEPT ![w] = Append(@, e)]
          /\ out' = [out EXCEPT ![w] = @ \cup {e}]
      BY <2>4 DEF NumberNew
    <3> HIDE DEF e
    <3>4. mem' \in [Writers -> Seq(Entry)] /\ new' \in [Writers -> Seq(Entry)]
      BY <3>2, <3>3
    <3>5. out' \in [Writers -> SUBSET Entry]
      BY <3>1, <3>3
    <3> QED
      BY <1>4, <2>2, <3>4, <3>5 DEF Number
  <2> QED
    BY <1>4, <2>3, <2>4 DEF Number
<1>5. ASSUME NEW w \in Writers, ReturnUnsaved(w) PROVE Typed'
  BY <1>5 DEF ReturnUnsaved
<1>6. ASSUME NEW w \in Writers, Numbered(w) PROVE Typed'
  BY <1>6 DEF Numbered
<1>7. ASSUME NEW w \in Writers, Write(w) PROVE Typed'
  <2>1. Head(new[w]) \in Entry /\ Tail(new[w]) \in Seq(Entry)
    BY <1>7 DEF Write
  <2>2. file' \in Seq(Entry) /\ new' \in [Writers -> Seq(Entry)]
    BY <1>7, <2>1, AppendedType DEF Write
  <2> QED
    BY <1>7, <2>2 DEF Write
<1>8. ASSUME NEW w \in Writers, Close(w) PROVE Typed'
  BY <1>8 DEF Close
<1>9. ASSUME NEW w \in Writers, WriteFails(w) PROVE Typed'
  <2>1. /\ file' \in Seq(Entry) /\ ending' \in {"newline", "cut", "bare"}
        /\ ending' = "bare" => file' # <<>>
    BY <1>9, TearTypes DEF WriteFails
  <2> QED
    BY <1>9, <2>1 DEF WriteFails
<1>10. ASSUME NEW w \in Writers, CloseFails(w) PROVE Typed'
  BY <1>10, LeaveTypes DEF CloseFails
<1>11. ASSUME NEW w \in Writers, Kill(w) PROVE Typed'
  <2>1. /\ file' \in Seq(Entry) /\ ending' \in {"newline", "cut", "bare"}
        /\ ending' = "bare" => file' # <<>>
        /\ intact' \in BOOLEAN
    BY <1>11, LeaveTypes DEF Kill
  <2>2. mem' \in [Writers -> Seq(Entry)] /\ lock' \in Writers \cup {"none"}
    BY <1>11, <2>1 DEF Kill
  <2> QED
    BY <1>11, <2>1, <2>2 DEF Kill
<1>12. CASE UNCHANGED vars
  BY <1>12 DEF vars, writer
<1> QED
  BY <1>1, <1>2, <1>3, <1>4, <1>5, <1>6, <1>7, <1>8, <1>9, <1>10, <1>11, <1>12 DEF Next, Step

-----------------------------------------------------------------------------
(* Numbers.                                                                *)

(* What the lock protects.  While w holds it, the log on disk and w's new  *)
(* facts are one log, numbered in order, with a derived fact at most once; *)
(* what w has read is that log, and what it will return is in it.          *)
Recs(w) == Entries(file) \cup Entries(new[w])
Once(S) == \A x, y \in S : x.fact = y.fact /\ x.fact \in HostFacts => x = y

Holding(w) == /\ Ordered(new[w])
              /\ \A x \in Entries(file), y \in Entries(new[w]) : x.id < y.id
              /\ Once(Recs(w))
              /\ intact => out[w] \subseteq Recs(w)

Turn(w) == /\ lock = w <=> pc[w] \in {"number", "write"}
           /\ pc[w] = "open" => new[w] = <<>> /\ out[w] = {}
           /\ pc[w] = "number" => Entries(mem[w]) = Recs(w)
           /\ lock = w => Holding(w)
           /\ intact => pc[w] # "unsaved"
           /\ todo[w] \in Seq(IF w \in Hosts THEN HostFacts ELSE AgentFacts)

Kept == intact => ending = "newline" /\ handed \subseteq Entries(file)

Numbering == Sorted /\ Once(Entries(file)) /\ Kept /\ \A w \in Writers : Turn(w)

LEMMA NumberingInit == Init => Numbering
<1> SUFFICES ASSUME Init PROVE Numbering
  OBVIOUS
<1> USE DEF Init
<1>1. Entries(file) = {} /\ Ordered(file)
  BY DEF Entries, Ordered
<1>2. ASSUME NEW w \in Writers PROVE Turn(w) /\ Ordered(mem[w])
  BY WritersAssumption DEF Turn, Ordered
<1> QED
  BY <1>1, <1>2 DEF Numbering, Sorted, Once, Kept

(* A writer that takes no step keeps its part of the invariant, because    *)
(* only the holder of the lock changes the file.                           *)
LEMMA OtherTurn ==
  ASSUME NEW v \in Writers, Turn(v),
         pc'[v] = pc[v], todo'[v] = todo[v], mem'[v] = mem[v], new'[v] = new[v], out'[v] = out[v],
         lock' = v <=> lock = v, lock = v => file' = file, intact' => intact
  PROVE  Turn(v)'
<1>1. CASE lock = v
  BY <1>1 DEF Turn, Holding, Recs
<1>2. CASE lock # v
  BY <1>2 DEF Turn
<1> QED
  BY <1>1, <1>2

(* What the holder of the lock can make of the file.                       *)
LEMMA FileStep ==
  ASSUME Typed, Numbering, NEW w \in Writers, lock = w, new[w] # <<>>,
         file' = file \/ file' = Append(file, Head(new[w])) \/ file' = Appended(Head(new[w]))
  PROVE  /\ Ordered(file)'
         /\ Entries(file') \subseteq Entries(file) \cup {Head(new[w])}
         /\ Entries(file') \subseteq Recs(w)
         /\ Once(Entries(file))'
         /\ \A x \in Entries(file'), y \in Entries(Tail(new[w])) : x.id < y.id
         /\ ending = "newline" /\ file' = Appended(Head(new[w])) =>
              Entries(file') = Entries(file) \cup {Head(new[w])}
<1> DEFINE e == Head(new[w])
<1>1. /\ file \in Seq(Entry) /\ Ordered(file) /\ new[w] \in Seq(Entry) /\ Holding(w)
      /\ ending \in {"newline", "cut", "bare"}
  BY DEF Typed, TypeOK, Numbering, Sorted, Turn
<1>2. /\ e \in Entry /\ Entries(new[w]) = Entries(Tail(new[w])) \cup {e}
      /\ \A x \in Entries(Tail(new[w])) : e.id < x.id
  BY <1>1, OrderedTail DEF Holding
<1>3. \A x \in Entries(file) : x.id < e.id
  BY <1>1, <1>2 DEF Holding
<1> HIDE DEF e
<1>4. Ordered(Append(file, e)) /\ Entries(Append(file, e)) = Entries(file) \cup {e}
  BY <1>1, <1>2, <1>3, OrderedAppend
<1>5. ending = "bare" => LET t == SubSeq(file, 1, Len(file) - 1)
                         IN  Ordered(t) /\ Entries(t) \subseteq Entries(file)
  BY <1>1, OrderedFront DEF Typed
<1>6. Ordered(Appended(e)) /\ Entries(Appended(e)) \subseteq Entries(file) \cup {e}
  BY <1>1, <1>4, <1>5 DEF Appended
<1>7. Ordered(file') /\ Entries(file') \subseteq Entries(file) \cup {e}
  BY <1>1, <1>4, <1>6 DEF e
<1>8. Entries(file') \subseteq Recs(w)
  BY <1>2, <1>7 DEF Recs
<1>9. Once(Entries(file'))
  BY <1>1, <1>8 DEF Holding, Once
<1>10. \A x \in Entries(file'), y \in Entries(Tail(new[w])) : x.id < y.id
  BY <1>1, <1>2, <1>7 DEF Holding
<1>11. ending = "newline" /\ file' = Appended(e) => Entries(file') = Entries(file) \cup {e}
  BY <1>4 DEF Appended
<1> QED
  BY <1>7, <1>8, <1>9, <1>10, <1>11 DEF Ordered, Once, Entries, e

LEMMA NumberingStep == Typed /\ Typed' /\ Numbering /\ [Next]_vars => Numbering'
<1> SUFFICES ASSUME Typed, Typed', Numbering, [Next]_vars PROVE Numbering'
  OBVIOUS
<1>0. /\ \A w \in Writers : Turn(w) /\ Ordered(mem[w]) /\ w # "none"
      /\ Sorted /\ Once(Entries(file)) /\ Kept
  BY WritersAssumption DEF Numbering, Sorted
<1> USE DEF Typed, TypeOK
<1>1. ASSUME NEW w \in Writers, Begin(w) PROVE Numbering'
  <2>1. PICK b \in Batches(w) : todo' = [todo EXCEPT ![w] = b]
    BY <1>1 DEF Begin
  <2>2. b \in Seq(IF w \in Hosts THEN HostFacts ELSE AgentFacts)
    <3>1. CASE w \in Hosts
      <4>1. PICK n \in 0..MaxBatch : b \in [1..n -> HostFacts]
        BY <3>1 DEF Batches
      <4>2. n \in Nat
        BY BoundsAssumption
      <4> QED
        BY <3>1, <4>1, <4>2, SeqDef
    <3>2. CASE w \notin Hosts
      <4>1. \E n \in Nat : b \in [1..n -> AgentFacts]
        BY <3>2 DEF Batches
      <4> QED
        BY <3>2, <4>1, SeqDef
    <3> QED
      BY <3>1, <3>2
  <2>3. Turn(w)'
    BY <1>0, <1>1, <2>1, <2>2 DEF Begin, Turn
  <2>4. ASSUME NEW v \in Writers, v # w PROVE Turn(v)'
    BY <1>0, <1>1, <2>4, OtherTurn DEF Begin
  <2>5. Sorted' /\ Once(Entries(file))' /\ Kept'
    BY <1>0, <1>1 DEF Begin, Sorted, Once, Kept, Entries, Ordered
  <2> QED
    BY <2>3, <2>4, <2>5 DEF Numbering
<1>2. ASSUME NEW w \in Writers, Lock(w) PROVE Numbering'
  <2>1. new[w] = <<>> /\ out[w] = {} /\ Entries(<<>>) = {} /\ Ordered(<<>>)
    BY <1>0, <1>2 DEF Lock, Turn, Entries, Ordered
  <2>2. Turn(w)'
    BY <1>0, <1>2, <2>1 DEF Lock, Turn, Holding, Recs, Once
  <2>3. ASSUME NEW v \in Writers, v # w PROVE Turn(v)'
    BY <1>0, <1>2, <2>3, OtherTurn DEF Lock
  <2>4. Sorted' /\ Once(Entries(file))' /\ Kept'
    BY <1>0, <1>2 DEF Lock, Sorted, Once, Kept, Entries, Ordered
  <2> QED
    BY <2>2, <2>3, <2>4 DEF Numbering
<1>3. ASSUME NEW w \in Writers, OpenFails(w) PROVE Numbering'
  <2>1. Turn(w)'
    BY <1>0, <1>3, WritersAssumption DEF OpenFails, Turn, Writers
  <2>2. ASSUME NEW v \in Writers, v # w PROVE Turn(v)'
    BY <1>0, <1>3, <2>2, OtherTurn DEF OpenFails
  <2>3. Sorted' /\ Once(Entries(file))' /\ Kept'
    BY <1>0, <1>3 DEF OpenFails, Sorted, Once, Kept, Entries, Ordered
  <2> QED
    BY <2>1, <2>2, <2>3 DEF Numbering
<1>5. ASSUME NEW w \in Writers, ReturnUnsaved(w) PROVE Numbering'
  <2>1. Turn(w)'
    BY <1>0, <1>5 DEF ReturnUnsaved, Turn
  <2>2. ASSUME NEW v \in Writers, v # w PROVE Turn(v)'
    BY <1>0, <1>5, <2>2, OtherTurn DEF ReturnUnsaved
  <2>3. Sorted' /\ Once(Entries(file))' /\ Kept'
    BY <1>0, <1>5 DEF ReturnUnsaved, Sorted, Once, Kept, Entries, Ordered, Turn
  <2> QED
    BY <2>1, <2>2, <2>3 DEF Numbering
<1>6. ASSUME NEW w \in Writers, Numbered(w) PROVE Numbering'
  <2>1. Turn(w)'
    BY <1>0, <1>6 DEF Numbered, Turn, Holding, Recs
  <2>2. ASSUME NEW v \in Writers, v # w PROVE Turn(v)'
    BY <1>0, <1>6, <2>2, OtherTurn DEF Numbered
  <2>3. Sorted' /\ Once(Entries(file))' /\ Kept'
    BY <1>0, <1>6 DEF Numbered, Sorted, Once, Kept, Entries, Ordered
  <2> QED
    BY <2>1, <2>2, <2>3 DEF Numbering
<1>4. ASSUME NEW w \in Writers, Number(w) PROVE Numbering'
  <2> DEFINE f == Head(todo[w])
             W == IF w \in Hosts THEN HostFacts ELSE AgentFacts
  <2>1. /\ f \in W /\ Tail(todo[w]) \in Seq(W) /\ todo'[w] = Tail(todo[w])
        /\ pc[w] \in {"number", "unsaved"} /\ pc' = pc /\ lock' = lock
        /\ file' = file /\ ending' = ending /\ handed' = handed /\ intact' = intact
    BY <1>0, <1>4 DEF Number, Turn
  <2>2. /\ \A v \in Writers : v # w => todo'[v] = todo[v]
        /\ lock = w => pc[w] = "number" /\ Entries(mem[w]) = Recs(w) /\ Holding(w)
    BY <1>0, <1>4, <2>1 DEF Number, Turn
  <2> HIDE DEF f
  <2>3. Once(Entries(file))' /\ Kept'
    BY <1>0, <2>1 DEF Once, Kept, Entries
  <2>4. CASE NumberKnown(w)
    <3>1. PICK i \in Known(w, f) : out' = [out EXCEPT ![w] = @ \cup {mem[w][i]}]
      BY <2>4 DEF NumberKnown, f
    <3>2. mem[w][i] \in Entries(mem[w]) /\ mem' = mem /\ new' = new
      BY <2>4 DEF Known, NumberKnown, Entries
    <3>3. lock = w => Holding(w)' /\ Recs(w)' = Recs(w)
      BY <2>1, <2>2, <3>1, <3>2 DEF Holding, Recs
    <3>4. Turn(w)'
      BY <1>0, <2>1, <2>2, <3>2, <3>3 DEF Turn
    <3>5. ASSUME NEW v \in Writers, v # w PROVE Turn(v)'
      BY <1>0, <2>1, <2>2, <3>1, <3>2, <3>5, OtherTurn
    <3>6. Sorted'
      BY <1>0, <2>1, <3>2 DEF Sorted, Ordered
    <3> QED
      BY <2>3, <3>4, <3>5, <3>6 DEF Numbering
  <2>5. CASE NumberNew(w)
    <3> DEFINE e == [id |-> NextId(mem[w]), fact |-> f]
    <3>1. /\ mem' = [mem EXCEPT ![w] = Append(@, e)] /\ new' = [new EXCEPT ![w] = Append(@, e)]
          /\ out' = [out EXCEPT ![w] = @ \cup {e}]
      BY <2>5 DEF NumberNew, f
    <3>2. /\ e \in Entry /\ e.fact = f /\ e.id = NextId(mem[w])
          /\ \A x \in Entries(mem[w]) : x.id < e.id
      BY <1>0, <2>1, NextIdAbove DEF Entry, Facts
    <3>3. w \in Hosts => \A x \in Entries(mem[w]) : x.fact # f
      BY <2>5 DEF NumberNew, Known, Entries, f
    <3>4. f \in HostFacts => w \in Hosts
      BY <2>1, KindsAssumption
    <3> HIDE DEF e
    <3>5. /\ mem'[w] = Append(mem[w], e) /\ new'[w] = Append(new[w], e) /\ out'[w] = out[w] \cup {e}
          /\ \A v \in Writers : v # w => mem'[v] = mem[v] /\ new'[v] = new[v] /\ out'[v] = out[v]
      BY <3>1
    <3>6. Ordered(mem'[w]) /\ Entries(mem'[w]) = Entries(mem[w]) \cup {e}
      <4>1. mem[w] \in Seq(Entry) /\ Ordered(mem[w])
        BY <1>0
      <4>2. Ordered(Append(mem[w], e)) /\ Entries(Append(mem[w], e)) = Entries(mem[w]) \cup {e}
        BY <3>2, <4>1, OrderedAppend, Zenon
      <4> QED
        BY <3>5, <4>2, Zenon
    <3>7. ASSUME lock = w PROVE Turn(w)'
      <4>1. \A x \in Entries(file) \cup Entries(new[w]) : x.id < e.id
        BY <2>2, <3>2, <3>7 DEF Recs
      <4>2. Ordered(new'[w]) /\ Entries(new'[w]) = Entries(new[w]) \cup {e}
        <5>1. new[w] \in Seq(Entry) /\ Ordered(new[w]) /\ \A x \in Entries(new[w]) : x.id < e.id
          BY <2>2, <3>7, <4>1 DEF Holding
        <5>2. Ordered(Append(new[w], e)) /\ Entries(Append(new[w], e)) = Entries(new[w]) \cup {e}
          BY <3>2, <5>1, OrderedAppend, Zenon
        <5> QED
          BY <3>5, <5>2, Zenon
      <4>3. Recs(w)' = Recs(w) \cup {e} /\ Entries(mem'[w]) = Recs(w)'
        BY <2>1, <2>2, <3>6, <3>7, <4>2 DEF Recs
      <4>4. Once(Recs(w))'
        <5>1. Once(Recs(w)) /\ \A x \in Recs(w) : w \in Hosts => x.fact # f
          BY <2>2, <3>3, <3>7 DEF Holding
        <5> QED
          BY <3>2, <3>4, <4>3, <5>1 DEF Once
      <4>5. \A x \in Entries(file'), y \in Entries(new'[w]) : x.id < y.id
        BY <2>1, <2>2, <3>7, <4>1, <4>2 DEF Holding
      <4>6. intact' => out'[w] \subseteq Recs(w)'
        BY <2>1, <2>2, <3>5, <3>7, <4>3 DEF Holding
      <4>7. Holding(w)'
        BY <4>2, <4>4, <4>5, <4>6 DEF Holding, Ordered
      <4> QED
        BY <1>0, <2>1, <2>2, <3>7, <4>3, <4>7 DEF Turn
    <3>8. ASSUME lock # w PROVE Turn(w)'
      BY <1>0, <2>1, <3>8 DEF Turn
    <3>9. ASSUME NEW v \in Writers, v # w PROVE Turn(v)'
      BY <1>0, <2>1, <2>2, <3>5, <3>9, OtherTurn
    <3>10. Sorted'
      BY <1>0, <2>1, <3>5, <3>6 DEF Sorted, Ordered
    <3>11. Turn(w)'
      BY <3>7, <3>8
    <3> QED
      BY <2>3, <3>9, <3>10, <3>11 DEF Numbering
  <2> QED
    BY <1>4, <2>4, <2>5 DEF Number
<1>7. ASSUME NEW w \in Writers, Write(w) PROVE Numbering'
  <2> DEFINE e == Head(new[w])
  <2>1. /\ lock = w /\ Holding(w) /\ new[w] # <<>> /\ pc[w] = "write" /\ new'[w] = Tail(new[w])
        /\ file' = Appended(e) /\ ending' = "newline" /\ handed' = handed /\ intact' = intact
        /\ pc' = pc /\ lock' = lock /\ todo' = todo /\ mem' = mem /\ out' = out
        /\ \A v \in Writers : v # w => new'[v] = new[v]
    BY <1>0, <1>7 DEF Write, Turn
  <2>2. /\ Ordered(file') /\ Entries(file') \subseteq Recs(w) /\ Once(Entries(file'))
        /\ \A x \in Entries(file'), y \in Entries(Tail(new[w])) : x.id < y.id
        /\ ending = "newline" => Entries(file') = Entries(file) \cup {e}
    BY <2>1, FileStep DEF Ordered, Once, Entries
  <2>3. Ordered(Tail(new[w])) /\ Entries(new[w]) = Entries(Tail(new[w])) \cup {e}
    BY <2>1, OrderedTail DEF Holding
  <2> HIDE DEF e
  <2>4. Recs(w)' \subseteq Recs(w) /\ (intact => Recs(w)' = Recs(w))
    BY <1>0, <2>1, <2>2, <2>3 DEF Recs, Kept
  <2>5. Once(Recs(w))'
    BY <2>1, <2>4 DEF Holding, Once
  <2>6. Holding(w)'
    BY <2>1, <2>2, <2>3, <2>4, <2>5 DEF Holding, Ordered
  <2>7. Turn(w)'
    BY <1>0, <2>1, <2>6 DEF Turn
  <2>8. ASSUME NEW v \in Writers, v # w PROVE Turn(v)'
    BY <1>0, <2>1, <2>8, OtherTurn
  <2>9. Sorted' /\ Kept' /\ Once(Entries(file))'
    BY <1>0, <2>1, <2>2 DEF Sorted, Ordered, Kept, Once, Entries
  <2> QED
    BY <2>7, <2>8, <2>9 DEF Numbering
<1>8. ASSUME NEW w \in Writers, Close(w) PROVE Numbering'
  <2>1. Turn(w)'
    BY <1>0, <1>8 DEF Close, Turn
  <2>2. ASSUME NEW v \in Writers, v # w PROVE Turn(v)'
    BY <1>0, <1>8, <2>2, OtherTurn DEF Close, Turn
  <2>3. intact => out[w] \subseteq Entries(file)
    <3>1. lock = w /\ new[w] = <<>>
      BY <1>0, <1>8 DEF Close, Turn
    <3>2. Entries(new[w]) = {}
      BY <3>1 DEF Entries
    <3> QED
      BY <1>0, <3>1, <3>2 DEF Turn, Holding, Recs
  <2>4. Sorted' /\ Once(Entries(file))' /\ Kept'
    BY <1>0, <1>8, <2>3 DEF Close, Sorted, Once, Kept, Entries, Ordered
  <2> QED
    BY <2>1, <2>2, <2>4 DEF Numbering
(* A writer that stops while it writes: its lock is gone, and the file has  *)
(* lost nothing that was whole unless a line was torn.                     *)
<1>9. ASSUME NEW w \in Writers, lock = w, new[w] # <<>>, (UNCHANGED <<file, ending>>) \/ Tear(w)
      PROVE  /\ Ordered(file)' /\ Once(Entries(file))'
             /\ Entries(file') \subseteq Recs(w)
  <2>1. CASE UNCHANGED <<file, ending>>
    BY <1>0, <2>1 DEF Sorted, Once, Recs, Entries, Ordered
  <2>2. CASE Tear(w)
    <3>1. file' = file \/ file' = Append(file, Head(new[w])) \/ file' = Appended(Head(new[w]))
      BY <2>2 DEF Tear
    <3> QED
      BY <1>9, <3>1, FileStep
  <2> QED
    BY <1>9, <2>1, <2>2
<1>10. ASSUME NEW w \in Writers, WriteFails(w) PROVE Numbering'
  <2>1. lock = w /\ new[w] # <<>> /\ ((UNCHANGED <<file, ending>>) \/ Tear(w))
    BY <1>0, <1>10 DEF WriteFails, Turn
  <2>2. Ordered(file)' /\ Once(Entries(file))'
    BY <1>9, <2>1
  <2>3. Turn(w)'
    BY <1>0, <1>10 DEF WriteFails, Turn
  <2>4. ASSUME NEW v \in Writers, v # w PROVE Turn(v)'
    BY <1>0, <1>10, <2>1, <2>4, OtherTurn DEF WriteFails
  <2>5. Sorted' /\ Kept'
    BY <1>0, <1>10, <2>2 DEF WriteFails, Sorted, Kept, Ordered
  <2> QED
    BY <2>2, <2>3, <2>4, <2>5 DEF Numbering
<1>11. ASSUME NEW w \in Writers, CloseFails(w) PROVE Numbering'
  <2>1. lock = w /\ new[w] # <<>> /\ ((UNCHANGED <<file, ending>>) \/ Tear(w))
        /\ (intact' => intact /\ UNCHANGED <<file, ending>>)
    BY <1>0, <1>11 DEF CloseFails, Leave, Turn
  <2>2. Ordered(file)' /\ Once(Entries(file))'
    BY <1>9, <2>1
  <2>3. Turn(w)'
    BY <1>0, <1>11 DEF CloseFails, Turn
  <2>4. ASSUME NEW v \in Writers, v # w PROVE Turn(v)'
    BY <1>0, <1>11, <2>1, <2>4, OtherTurn DEF CloseFails
  <2>5. Sorted'
    BY <1>0, <1>11, <2>2 DEF CloseFails, Sorted, Ordered
  <2>6. Kept'
    BY <1>0, <1>11, <2>1 DEF CloseFails, Kept
  <2> QED
    BY <2>2, <2>3, <2>4, <2>5, <2>6 DEF Numbering
<1>12. ASSUME NEW w \in Writers, Kill(w) PROVE Numbering'
  <2>1. /\ (UNCHANGED <<file, ending>>) \/ (Tear(w) /\ lock = w /\ new[w] # <<>>)
        /\ intact' => intact /\ UNCHANGED <<file, ending>>
    BY <1>0, <1>12 DEF Kill, Leave, Tear, Turn
  <2>2. Ordered(file)' /\ Once(Entries(file))'
    <3>1. CASE UNCHANGED <<file, ending>>
      BY <1>0, <3>1 DEF Sorted, Once, Entries, Ordered
    <3> QED
      BY <1>9, <2>1, <3>1
  <2>3. Turn(w)'
    BY <1>0, <1>12 DEF Kill, Turn
  <2>4. ASSUME NEW v \in Writers, v # w PROVE Turn(v)'
    <3>1. lock = v => file' = file
      BY <2>1, <2>4
    <3> QED
      BY <1>0, <1>12, <2>1, <2>4, <3>1, OtherTurn DEF Kill
  <2>5. Sorted'
    BY <1>0, <1>12, <2>2 DEF Kill, Sorted, Ordered
  <2>6. Kept'
    BY <1>0, <1>12, <2>1 DEF Kill, Kept
  <2> QED
    BY <2>2, <2>3, <2>4, <2>5, <2>6 DEF Numbering
<1>13. CASE UNCHANGED vars
  <2>1. \A w \in Writers : Turn(w)'
    BY <1>0, <1>13 DEF vars, writer, Turn, Holding, Recs
  <2> QED
    BY <1>0, <1>13, <2>1 DEF vars, writer, Numbering, Sorted, Once, Kept, Ordered, Entries
<1> QED
  BY <1>1, <1>2, <1>3, <1>4, <1>5, <1>6, <1>7, <1>8, <1>10, <1>11, <1>12, <1>13 DEF Next, Step

(* The inductive invariant of every theorem below. *)
LEMMA Invariance == Spec => [](Typed /\ Numbering)
<1>1. Init => Typed /\ Numbering
  BY TypedInit, NumberingInit
<1>2. Typed /\ Numbering /\ [Next]_vars => (Typed /\ Numbering)'
  BY TypedStep, NumberingStep DEF Numbering
<1> QED
  BY <1>1, <1>2, PTL DEF Spec

(* The file, the lock and every writer are well-typed: in particular ids   *)
(* start at F1, and a bare line is never looked for in an empty file.      *)
THEOREM TypeCorrect == Spec => []TypeOK
<1>1. Typed => TypeOK
  BY DEF Typed
<1> QED
  BY <1>1, Invariance, PTL

(* Whatever dies, tears or fails, the ids of the file increase: no two of  *)
(* its facts share one.                                                    *)
THEOREM IdsIncrease == Spec => []Increasing
<1>1. Numbering => Increasing
  BY DEF Numbering, Sorted, Increasing
<1> QED
  BY <1>1, Invariance, PTL

(* While no write was lost or torn, every id the agent was given is in the *)
(* file under the fact it was given for.                                   *)
THEOREM MarkersResolve == Spec => []Resolves
<1>1. Numbering => Resolves
  BY DEF Numbering, Kept, Resolves
<1> QED
  BY <1>1, Invariance, PTL

(* While no write was lost or torn, an id names one fact, for all hosts    *)
(* and runs of the script together.                                        *)
THEOREM IdsNameOneFact == Spec => []OneFactPerId
<1>1. ASSUME Typed, Numbering PROVE OneFactPerId
  <2> SUFFICES ASSUME intact, NEW x \in handed, NEW y \in handed, x.id = y.id PROVE x.fact = y.fact
    BY DEF OneFactPerId
  <2>1. x \in Entries(file) /\ y \in Entries(file)
    BY <1>1 DEF Numbering, Kept
  <2>2. PICK i \in DOMAIN file, j \in DOMAIN file : file[i] = x /\ file[j] = y
    BY <2>1 DEF Entries
  <2>3. i \in Nat /\ j \in Nat /\ file[i].id \in Nat /\ file[j].id \in Nat
    <3>1. file \in Seq(Entry)
      BY <1>1 DEF Typed, TypeOK
    <3>2. i \in Nat /\ j \in Nat /\ file[i] \in Entry /\ file[j] \in Entry
      BY <3>1
    <3> QED
      BY <3>2 DEF Entry
  <2>4. ~(i < j) /\ ~(j < i)
    BY <1>1, <2>2, <2>3 DEF Numbering, Sorted, Ordered
  <2> QED
    BY <2>2, <2>3, <2>4
<1> QED
  BY <1>1, Invariance, PTL

(* While no write was lost or torn, a derived fact is given one id only.   *)
THEOREM FactsKeepTheirId == Spec => []KeepsItsId
<1>1. Numbering => KeepsItsId
  BY DEF Numbering, Kept, Once, KeepsItsId
<1> QED
  BY <1>1, Invariance, PTL

-----------------------------------------------------------------------------
(* Mining.                                                                 *)

Fields == {"pc", "refresh", "vocab", "edition", "sha", "left", "items", "answer", "key", "prev",
           "layer", "usd"}
Fetching == {"fetch", "meta"}
Reading == {"extract", "answered", "merged", "check", "write"}

(* While `kb mine` runs it has all its fields. *)
Underway ==
  /\ run.pc \in {"idle"} \cup Fetching \cup Reading
  /\ run.pc # "idle" => DOMAIN run = Fields

(* The two files of a source differ between their writes, or since a stop  *)
(* between them, and a run reads what they held.                           *)
Dated ==
  /\ run.pc = "meta" => text = run.sha /\ run.edition = run.sha
  /\ run.pc # "meta" /\ text # 0 /\ meta # 0 /\ text # meta => torn
  /\ run.pc \in Reading /\ run.edition # run.sha => torn

(* What a run has taken for a source's item is in the text it read. *)
CitesText(claims, edition) ==
  \A c \in DOMAIN claims : \A q \in claims[c].cites : q[2] \in Says(q[1], edition)
InText(found, edition) ==
  \A s \in DOMAIN found : \A i \in DOMAIN found[s] : found[s][i] \in Says(s, edition)
Quoting ==
  /\ run.pc \in Fetching => run.items = <<>>
  /\ run.pc \in Reading => InText(run.items, run.edition)
  /\ run.pc = "write" => CitesText(run.layer.claims, run.edition)

(* A call that was paid for is in the cache of its kind, or is about to be.*)
Paying ==
  /\ \A k \in DOMAIN extracted : k[1] = "extract"
  /\ \A k \in DOMAIN merges : k[1] = "merge"
  /\ run.pc = "answered" => run.key[1] = "extract"
  /\ run.pc = "merged" => run.key[1] = "merge"
  /\ \A k \in paid : \/ k \in DOMAIN extracted \cup DOMAIN merges
                     \/ run.pc \in {"answered", "merged"} /\ k = run.key

(* A draft's problems are those of the draft beside the files of its time. *)
Beside(d) == Over(d.beside[2], Over(d.layer, d.beside[1]))
Checked ==
  draft.made =>
    draft.problems = AllProblems(Beside(draft)) \cup IF Beside(draft).maps THEN {} ELSE {<<"alert">>}

MiningInv == Underway /\ Dated /\ Quoting /\ Paying /\ Checked /\ QuotesHold /\ PaidOnce

-----------------------------------------------------------------------------
LEMMA MiningInitial == MiningInit => MiningInv
<1> SUFFICES ASSUME MiningInit PROVE MiningInv
  OBVIOUS
<1>1. /\ run.pc = "idle" /\ ~draft.made /\ paid = {} /\ again = FALSE
      /\ text = 0 /\ DOMAIN extracted = {} /\ DOMAIN merges = {}
  BY DEF MiningInit, NoRun, NoDraft
<1>2. Underway /\ Dated /\ Quoting
  BY <1>1 DEF Underway, Dated, Quoting, Fetching, Reading
<1>3. Paying /\ Checked /\ QuotesHold /\ PaidOnce
  BY <1>1 DEF Paying, Checked, QuotesHold, PaidOnce
<1>4. QED
  BY <1>2, <1>3 DEF MiningInv

(* _quoted: what survives is in the text. *)
LEMMA QuotedInText ==
  ASSUME NEW found, NEW edition, InText(found, edition), NEW answer_, NEW s
  PROVE  InText(Filed(found, s, Quoted(answer_, s, edition)), edition)
<1> DEFINE q == Quoted(answer_, s, edition)
           more == Filed(found, s, q)
<1>1. \A i \in DOMAIN q : q[i] \in Says(s, edition)
  BY DEF Quoted
<1> HIDE DEF q
<1>2. /\ DOMAIN more = DOMAIN found \cup {s}
      /\ \A t \in DOMAIN found : more[t] = found[t]
      /\ s \notin DOMAIN found => more[s] = q
  BY DEF Filed
<1> HIDE DEF more
<1>3. InText(more, edition)
  BY <1>1, <1>2 DEF InText
<1>4. QED
  BY <1>3 DEF more, q

(* With: the next source is read. *)
LEMMA WithReads ==
  ASSUME MiningInv, run.pc \in Reading, NEW answer_
  PROVE  LET r == With(answer_)
         IN  /\ r.pc = "extract" /\ DOMAIN r = Fields /\ r.edition = run.edition /\ r.sha = run.sha
             /\ InText(r.items, r.edition)
<1>1. DOMAIN run = Fields /\ InText(run.items, run.edition)
  BY DEF MiningInv, Underway, Quoting, Reading
<1>2. /\ With(answer_).pc = "extract" /\ DOMAIN With(answer_) = Fields
      /\ With(answer_).edition = run.edition /\ With(answer_).sha = run.sha
      /\ With(answer_).items = Filed(run.items, Current, Quoted(answer_, Current, run.edition))
  BY <1>1 DEF With, Fields
<1>3. QED
  BY <1>1, <1>2, QuotedInText

(* Spent: the run ends, or goes on as it was to, a call the dearer. *)
LEMMA SpentGoesOn ==
  ASSUME NEW r, DOMAIN r = Fields
  PROVE  \/ Spent(r).pc = "idle"
         \/ /\ DOMAIN Spent(r) = Fields
            /\ \A f \in Fields \ {"usd"} : Spent(r)[f] = r[f]
  BY DEF Spent, NoRun, Fields

-----------------------------------------------------------------------------
LEMMA MineKeeps == ASSUME MiningInv, NEW refresh \in BOOLEAN, Mine(refresh) PROVE MiningInv'
<1>1. /\ run.pc = "idle" /\ run'.pc = "fetch" /\ DOMAIN run' = Fields /\ run'.items = <<>>
      /\ UNCHANGED <<page, text, meta, extracted, merges, draft, paid, again, torn>>
  BY DEF Mine, Fields, source, caches, history
<1>2. Underway' /\ Dated' /\ Quoting'
  BY <1>1 DEF MiningInv, Underway, Dated, Quoting, Fetching, Reading
<1>3. Paying' /\ Checked' /\ QuotesHold' /\ PaidOnce'
  BY <1>1 DEF MiningInv, Paying, Checked, QuotesHold, PaidOnce
<1>4. QED
  BY <1>2, <1>3 DEF MiningInv

LEMMA FetchCachedKeeps == ASSUME MiningInv, FetchCached PROVE MiningInv'
<1>1. DOMAIN run = Fields /\ run.items = <<>>
  BY DEF FetchCached, MiningInv, Underway, Quoting, Fetching
<1>2. /\ run.pc = "fetch" /\ text # 0 /\ meta # 0
      /\ run'.pc = "extract" /\ DOMAIN run' = Fields /\ run'.items = <<>>
      /\ run'.edition = text /\ run'.sha = meta
      /\ UNCHANGED <<page, text, meta, extracted, merges, draft, paid, again, torn>>
  BY <1>1 DEF FetchCached, Cached, Fields, source, caches, history
<1>3. InText(<<>>, run'.edition)
  BY DEF InText
<1>4. Underway' /\ Dated' /\ Quoting'
  BY <1>2, <1>3 DEF MiningInv, Underway, Dated, Quoting, Fetching, Reading
<1>5. Paying' /\ Checked' /\ QuotesHold' /\ PaidOnce'
  BY <1>2 DEF MiningInv, Paying, Checked, QuotesHold, PaidOnce
<1>6. QED
  BY <1>4, <1>5 DEF MiningInv

LEMMA FetchTextKeeps == ASSUME MiningInv, FetchText PROVE MiningInv'
<1>1. DOMAIN run = Fields /\ run.items = <<>>
  BY DEF FetchText, MiningInv, Underway, Quoting, Fetching
<1>2. /\ run.pc = "fetch" /\ text' = page
      /\ run'.pc = "meta" /\ DOMAIN run' = Fields /\ run'.items = <<>>
      /\ run'.edition = page /\ run'.sha = page
      /\ UNCHANGED <<extracted, merges, draft, paid, again, torn>>
  BY <1>1 DEF FetchText, Fields, caches, history
<1>3. Underway' /\ Dated' /\ Quoting'
  BY <1>2 DEF MiningInv, Underway, Dated, Quoting, Fetching, Reading
<1>4. Paying' /\ Checked' /\ QuotesHold' /\ PaidOnce'
  BY <1>2 DEF MiningInv, Paying, Checked, QuotesHold, PaidOnce
<1>5. QED
  BY <1>3, <1>4 DEF MiningInv

LEMMA FetchMetaKeeps == ASSUME MiningInv, FetchMeta PROVE MiningInv'
<1>1. DOMAIN run = Fields /\ run.items = <<>> /\ text = run.sha /\ run.edition = run.sha
  BY DEF FetchMeta, MiningInv, Underway, Dated, Quoting, Fetching
<1>2. /\ run.pc = "meta" /\ meta' = run.sha
      /\ run'.pc = "extract" /\ DOMAIN run' = Fields /\ run'.items = <<>>
      /\ run'.edition = run.edition /\ run'.sha = run.sha
      /\ UNCHANGED <<text, extracted, merges, draft, paid, again>>
  BY <1>1 DEF FetchMeta, Fields, caches
<1>3. InText(<<>>, run'.edition)
  BY DEF InText
<1>4. Underway' /\ Dated' /\ Quoting'
  BY <1>1, <1>2, <1>3 DEF MiningInv, Underway, Dated, Quoting, Fetching, Reading
<1>5. Paying' /\ Checked' /\ QuotesHold' /\ PaidOnce'
  BY <1>2 DEF MiningInv, Paying, Checked, QuotesHold, PaidOnce
<1>6. QED
  BY <1>4, <1>5 DEF MiningInv

LEMMA ExtractCachedKeeps == ASSUME MiningInv, ExtractCached PROVE MiningInv'
<1> DEFINE stored == extracted[ExtractKey]
<1>1. /\ run.pc = "extract" /\ run' = With(stored)
      /\ UNCHANGED <<page, text, meta, extracted, merges, draft, paid, again, torn>>
  BY DEF ExtractCached, source, caches, history
<1> HIDE DEF stored
<1>2. /\ run'.pc = "extract" /\ DOMAIN run' = Fields /\ run'.edition = run.edition
      /\ run'.sha = run.sha /\ InText(run'.items, run'.edition)
  BY <1>1, WithReads DEF Reading
<1>3. Underway' /\ Dated' /\ Quoting'
  BY <1>1, <1>2 DEF MiningInv, Underway, Dated, Quoting, Fetching, Reading
<1>4. Paying' /\ Checked' /\ QuotesHold' /\ PaidOnce'
  BY <1>1, <1>2 DEF MiningInv, Paying, Checked, QuotesHold, PaidOnce
<1>5. QED
  BY <1>3, <1>4 DEF MiningInv

(* A call whose key is new and of its kind was not paid for before. *)
LEMMA CallKeeps ==
  ASSUME MiningInv, run.pc = "extract", NEW key, NEW pc_, NEW answer_, Call(key, pc_, answer_),
         \/ pc_ = "answered" /\ key[1] = "extract" /\ key \notin DOMAIN extracted
         \/ pc_ = "merged" /\ key[1] = "merge" /\ key \notin DOMAIN merges
  PROVE  MiningInv'
<1>1. DOMAIN run = Fields
  BY DEF MiningInv, Underway
<1>2. /\ run'.pc = pc_ /\ run'.key = key /\ DOMAIN run' = Fields /\ run'.items = run.items
      /\ run'.edition = run.edition /\ run'.sha = run.sha
      /\ paid' = paid \cup {key} /\ again' = (again \/ key \in paid)
      /\ UNCHANGED <<page, text, meta, extracted, merges, draft, torn>>
  BY <1>1 DEF Call, Fields, source, caches
<1>3. key \notin paid
  BY DEF MiningInv, Paying
<1>4. Underway' /\ Dated' /\ Quoting'
  BY <1>2 DEF MiningInv, Underway, Dated, Quoting, Fetching, Reading
<1>5. Paying'
  BY <1>2 DEF MiningInv, Paying
<1>6. Checked' /\ QuotesHold' /\ PaidOnce'
  BY <1>2, <1>3 DEF MiningInv, Checked, QuotesHold, PaidOnce
<1>7. QED
  BY <1>4, <1>5, <1>6 DEF MiningInv

LEMMA ExtractKeeps == ASSUME MiningInv, Extract PROVE MiningInv'
<1>1. PICK answer_ \in Answers(Current) : Call(ExtractKey, "answered", answer_)
  BY DEF Extract
<1>2. run.pc = "extract" /\ ExtractKey \notin DOMAIN extracted /\ ExtractKey[1] = "extract"
  BY DEF Extract, ExtractKey
<1> HIDE DEF ExtractKey
<1>3. QED
  BY <1>1, <1>2, CallKeeps

LEMMA MergeKeeps == ASSUME MiningInv, Merge PROVE MiningInv'
<1>1. PICK answer_ \in Merges : Call(MergeKey, "merged", answer_)
  BY DEF Merge
<1>2. run.pc = "extract" /\ MergeKey \notin DOMAIN merges /\ MergeKey[1] = "merge"
  BY DEF Merge, MergeKey
<1>3. QED
  BY <1>1, <1>2, CallKeeps

LEMMA KeepAnswerKeeps == ASSUME MiningInv, KeepAnswer PROVE MiningInv'
<1> DEFINE r == With(run.answer)
<1>1. /\ run.pc = "answered" /\ extracted' = Filed(extracted, run.key, run.answer) /\ run' = Spent(r)
      /\ UNCHANGED <<page, text, meta, merges, draft, paid, again, torn>>
  BY DEF KeepAnswer, source, history
<1>2. /\ r.pc = "extract" /\ DOMAIN r = Fields /\ r.edition = run.edition /\ r.sha = run.sha
      /\ InText(r.items, r.edition)
  BY <1>1, WithReads DEF Reading
<1> HIDE DEF r
<1>3. \/ run'.pc = "idle"
      \/ /\ run'.pc = "extract" /\ DOMAIN run' = Fields /\ run'.edition = run.edition
         /\ run'.sha = run.sha /\ InText(run'.items, run'.edition)
  BY <1>1, <1>2, SpentGoesOn DEF Fields
<1>4. DOMAIN extracted' = DOMAIN extracted \cup {run.key}
  BY <1>1 DEF Filed
<1>5. Underway' /\ Dated' /\ Quoting'
  BY <1>1, <1>3 DEF MiningInv, Underway, Dated, Quoting, Fetching, Reading
<1>6. Paying'
  BY <1>1, <1>3, <1>4 DEF MiningInv, Paying
<1>7. Checked' /\ QuotesHold' /\ PaidOnce'
  BY <1>1 DEF MiningInv, Checked, QuotesHold, PaidOnce
<1>8. QED
  BY <1>5, <1>6, <1>7 DEF MiningInv

(* Merged: a merge is checked next. *)
LEMMA MergedIsChecked ==
  ASSUME MiningInv, run.pc \in Reading, NEW answer_
  PROVE  LET r == Merged(answer_)
         IN  /\ r.pc = "check" /\ DOMAIN r = Fields /\ r.edition = run.edition /\ r.sha = run.sha
             /\ InText(r.items, r.edition)
<1>1. DOMAIN run = Fields /\ InText(run.items, run.edition)
  BY DEF MiningInv, Underway, Quoting, Reading
<1>2. QED
  BY <1>1 DEF Merged, Fields

LEMMA MergeCachedKeeps == ASSUME MiningInv, MergeCached PROVE MiningInv'
<1> DEFINE stored == merges[MergeKey]
<1>1. /\ run.pc = "extract" /\ run' = Merged(stored)
      /\ UNCHANGED <<page, text, meta, extracted, merges, draft, paid, again, torn>>
  BY DEF MergeCached, source, caches, history
<1> HIDE DEF stored
<1>2. /\ run'.pc = "check" /\ DOMAIN run' = Fields /\ run'.edition = run.edition
      /\ run'.sha = run.sha /\ InText(run'.items, run'.edition)
  BY <1>1, MergedIsChecked DEF Reading
<1>3. Underway' /\ Dated' /\ Quoting'
  BY <1>1, <1>2 DEF MiningInv, Underway, Dated, Quoting, Fetching, Reading
<1>4. Paying' /\ Checked' /\ QuotesHold' /\ PaidOnce'
  BY <1>1, <1>2 DEF MiningInv, Paying, Checked, QuotesHold, PaidOnce
<1>5. QED
  BY <1>3, <1>4 DEF MiningInv

LEMMA KeepMergeKeeps == ASSUME MiningInv, KeepMerge PROVE MiningInv'
<1> DEFINE r == Merged(run.answer)
<1>1. /\ run.pc = "merged" /\ run' = Spent(r)
      /\ \/ run' = NoRun /\ merges' = merges /\ paid' = paid \ {run.key}
         \/ merges' = Filed(merges, run.key, run.answer) /\ paid' = paid
      /\ UNCHANGED <<page, text, meta, extracted, draft, again, torn>>
  BY DEF KeepMerge, source
<1>2. /\ r.pc = "check" /\ DOMAIN r = Fields /\ r.edition = run.edition /\ r.sha = run.sha
      /\ InText(r.items, r.edition)
  BY <1>1, MergedIsChecked DEF Reading
<1> HIDE DEF r
<1>3. \/ run'.pc = "idle"
      \/ /\ run'.pc = "check" /\ DOMAIN run' = Fields /\ run'.edition = run.edition
         /\ run'.sha = run.sha /\ InText(run'.items, run'.edition)
  BY <1>1, <1>2, SpentGoesOn DEF Fields
<1>4. Underway' /\ Dated' /\ Quoting'
  BY <1>1, <1>3 DEF MiningInv, Underway, Dated, Quoting, Fetching, Reading
<1>5. Paying'
  <2>1. CASE merges' = merges /\ paid' = paid \ {run.key}
    BY <1>1, <1>3, <2>1 DEF MiningInv, Paying
  <2>2. CASE merges' = Filed(merges, run.key, run.answer) /\ paid' = paid
    <3>1. DOMAIN merges' = DOMAIN merges \cup {run.key}
      BY <2>2 DEF Filed
    <3>2. QED
      BY <1>1, <1>3, <2>2, <3>1 DEF MiningInv, Paying
  <2>3. QED
    BY <1>1, <2>1, <2>2
<1>6. Checked' /\ QuotesHold' /\ PaidOnce'
  BY <1>1 DEF MiningInv, Checked, QuotesHold, PaidOnce
<1>7. QED
  BY <1>4, <1>5, <1>6 DEF MiningInv

(* to_layer: a citation is of an item that was extracted. *)
LEMMA LayerCitesItems ==
  ASSUME NEW merged, NEW found, NEW edition, InText(found, edition)
  PROVE  CitesText(ToLayer(merged, found).claims, edition)
<1> DEFINE from(i, refs) == {<<s, found[s][i]>> : s \in {t \in refs \cap DOMAIN found : i \in DOMAIN found[t]}}
           claims == ToLayer(merged, found).claims
<1>1. \A c \in DOMAIN claims : claims[c].cites = from("fresh", merged.claims[c].from)
  BY DEF ToLayer
<1>2. ASSUME NEW refs, NEW q \in from("fresh", refs)
      PROVE  q[2] \in Says(q[1], edition)
  <2>1. PICK s \in DOMAIN found : "fresh" \in DOMAIN found[s] /\ q = <<s, found[s]["fresh"]>>
    BY <1>2
  <2>2. QED
    BY <2>1 DEF InText
<1> HIDE DEF from, claims
<1>3. CitesText(claims, edition)
  BY <1>1, <1>2 DEF CitesText
<1>4. QED
  BY <1>3 DEF claims

LEMMA CheckKeeps == ASSUME MiningInv, Check PROVE MiningInv'
<1> DEFINE layer == ToLayer(run.answer, run.items)
           K == Over(files["authored"], Over(layer, files["other"]))
           again_ == [run EXCEPT !.pc = "extract", !.answer = <<>>, !.prev = <<run.answer, Problems(K)>>]
           on == [run EXCEPT !.pc = "write", !.answer = <<>>, !.layer = [layer EXCEPT !.converts = Derived(K)]]
<1>1. /\ run.pc = "check" /\ (run' = again_ \/ run' = on)
      /\ UNCHANGED <<page, text, meta, extracted, merges, draft, paid, again, torn>>
  BY DEF Check, source, caches, history
<1>2. DOMAIN run = Fields /\ InText(run.items, run.edition)
  BY <1>1 DEF MiningInv, Underway, Quoting, Reading
<1>3. CitesText(layer.claims, run.edition)
  BY <1>2, LayerCitesItems
<1>4. [layer EXCEPT !.converts = Derived(K)].claims = layer.claims
  BY DEF ToLayer
<1> HIDE DEF layer
<1>5. /\ DOMAIN run' = Fields /\ run'.items = run.items
      /\ run'.edition = run.edition /\ run'.sha = run.sha
      /\ \/ run'.pc = "extract"
         \/ run'.pc = "write" /\ run'.layer.claims = layer.claims
  BY <1>1, <1>2, <1>4 DEF Fields
<1> HIDE DEF again_, on
<1>6. Underway' /\ Dated' /\ Quoting'
  BY <1>1, <1>2, <1>3, <1>5 DEF MiningInv, Underway, Dated, Quoting, Fetching, Reading
<1>7. Paying' /\ Checked' /\ QuotesHold' /\ PaidOnce'
  BY <1>1, <1>5 DEF MiningInv, Paying, Checked, QuotesHold, PaidOnce
<1>8. QED
  BY <1>6, <1>7 DEF MiningInv

LEMMA WriteDraftKeeps == ASSUME MiningInv, WriteDraft PROVE MiningInv'
<1> DEFINE K == Over(files["authored"], Over(run.layer, files["other"]))
<1>1. /\ run.pc = "write" /\ run'.pc = "idle"
      /\ draft'.layer = run.layer /\ draft'.edition = run.edition /\ draft'.retrieved = run.sha
      /\ draft'.torn = torn
      /\ draft'.problems = AllProblems(K) \cup IF K.maps THEN {} ELSE {<<"alert">>}
      /\ draft'.beside = <<files["other"], files["authored"]>>
      /\ UNCHANGED <<page, text, meta, extracted, merges, paid, again, torn>>
  BY DEF WriteDraft, NoRun, source, caches, history
<1>2. Beside(draft') = K
  BY <1>1 DEF Beside
<1> HIDE DEF K
<1>3. Checked'
  BY <1>1, <1>2 DEF Checked, Beside
<1>4. CitesText(run.layer.claims, run.edition) /\ (run.edition # run.sha => torn)
  BY <1>1 DEF MiningInv, Quoting, Dated, Reading
<1>5. QuotesHold'
  BY <1>1, <1>4 DEF QuotesHold, CitesText
<1>6. Underway' /\ Dated' /\ Quoting'
  BY <1>1 DEF MiningInv, Underway, Dated, Quoting, Fetching, Reading
<1>7. Paying' /\ PaidOnce'
  BY <1>1 DEF MiningInv, Paying, PaidOnce
<1>8. QED
  BY <1>3, <1>5, <1>6, <1>7 DEF MiningInv

LEMMA StopKeeps == ASSUME MiningInv, Stop PROVE MiningInv'
<1>1. /\ run.pc # "idle" /\ run'.pc = "idle"
      /\ paid' = IF run.pc \in {"answered", "merged"} THEN paid \ {run.key} ELSE paid
      /\ torn' = (torn \/ (run.pc = "meta" /\ meta \notin {0, text}))
      /\ UNCHANGED <<page, text, meta, extracted, merges, draft, again>>
  BY DEF Stop, NoRun, source, caches
<1>2. Underway' /\ Dated' /\ Quoting'
  BY <1>1 DEF MiningInv, Underway, Dated, Quoting, Fetching, Reading
<1>3. Paying' /\ Checked' /\ QuotesHold' /\ PaidOnce'
  BY <1>1 DEF MiningInv, Paying, Checked, QuotesHold, PaidOnce
<1>4. QED
  BY <1>2, <1>3 DEF MiningInv

(* People and the web change neither a run nor what it has. *)
LEMMA OthersKeep ==
  ASSUME MiningInv,
         UNCHANGED <<text, meta, extracted, merges, draft, run, paid, again, torn>>
  PROVE  MiningInv'
<1>1. Underway' /\ Dated' /\ Quoting'
  BY DEF MiningInv, Underway, Dated, Quoting
<1>2. Paying' /\ Checked' /\ QuotesHold' /\ PaidOnce'
  BY DEF MiningInv, Paying, Checked, QuotesHold, PaidOnce
<1>3. QED
  BY <1>1, <1>2 DEF MiningInv

(* run, fetch, extract, _merge: whatever is stopped, published or edited,  *)
(* what a run took is in the text it read, and what it paid for is kept.   *)
THEOREM MiningInvariant == MiningSpec => []MiningInv
<1>1. MiningInit => MiningInv
  BY MiningInitial
<1>2. MiningInv /\ [MiningNext]_miningVars => MiningInv'
  <2> SUFFICES ASSUME MiningInv, [MiningNext]_miningVars PROVE MiningInv'
    OBVIOUS
  <2>1. CASE Publish
    BY <2>1, OthersKeep DEF Publish, caches, history
  <2>2. CASE Edit
    BY <2>2, OthersKeep DEF Edit, source, caches, history
  <2>3. CASE UNCHANGED miningVars
    BY <2>3, OthersKeep DEF miningVars, source, caches, history
  <2>4. QED
    BY <2>1, <2>2, <2>3, MineKeeps, FetchCachedKeeps, FetchTextKeeps, FetchMetaKeeps,
       ExtractCachedKeeps, ExtractKeeps, KeepAnswerKeeps, MergeCachedKeeps, MergeKeeps,
       KeepMergeKeeps, CheckKeeps, WriteDraftKeeps, StopKeeps
       DEF MiningNext
<1>3. QED
  BY <1>1, <1>2, PTL DEF MiningSpec

(* mine.py "every item carries a verbatim quote from its source": each     *)
(* citation of a draft is a passage of the text that was read, and that is *)
(* the text of the draft's date unless a refresh was stopped in between;   *)
(* whatever the models answer.                                             *)
THEOREM QuotesHoldHolds == MiningSpec => []QuotesHold
<1>1. MiningInv => QuotesHold
  BY DEF MiningInv
<1>2. QED
  BY <1>1, MiningInvariant, PTL

(* extract, _merge: an answered call that was not lost is not made again,  *)
(* over any number of runs, refreshes and limits.                          *)
THEOREM PaidOnceHolds == MiningSpec => []PaidOnce
<1>1. MiningInv => PaidOnce
  BY DEF MiningInv
<1>2. QED
  BY <1>1, MiningInvariant, PTL

(* reachable, lookup, refine: what the check lets a hypothesis become is   *)
(* offered to the agent, once some layer maps the alert.                   *)
LEMMA ReachableIsOffered ==
  ASSUME NEW K, K.maps
  PROVE  Reachable(K) \subseteq Offered(K)
<1> DEFINE kinds == Kinds(K)
           refines == {e \in Claim \X Claim : e[2] \in Refine(K, e[1])}
<1>1. \A e \in kinds : e[2] \in Claim /\ (e[1] \in Claim => e \in refines)
  <2> SUFFICES ASSUME NEW e \in kinds PROVE e[2] \in Claim /\ (e[1] \in Claim => e \in refines)
    OBVIOUS
  <2>1. e \in (DOMAIN K.claims) \X Claim
    BY DEF Kinds
  <2>2. e = <<e[1], e[2]>> /\ e[2] \in Claim
    BY <2>1
  <2>3. e[2] \in Refine(K, e[1])
    BY <2>2 DEF Refine
  <2>4. QED
    BY <2>2, <2>3
<1> HIDE DEF kinds, refines
<1>2. SUFFICES ASSUME NEW c \in Reached(K.listed \cap DOMAIN K.claims, kinds)
               PROVE  c \in Reached(Lookup(K), refines)
  BY DEF Reachable, Offered, kinds, refines
<1>3. SUFFICES ASSUME NEW S \in SUBSET Claim, Lookup(K) \cap Claim \subseteq S,
                      \A e \in refines : e[1] \in S => e[2] \in S
               PROVE  c \in S
  BY <1>2 DEF Reached
<1>4. (K.listed \cap DOMAIN K.claims) \cap Claim \subseteq S
  BY <1>3 DEF Lookup
<1>5. \A e \in kinds : e[1] \in S => e[2] \in S
  BY <1>1, <1>3
<1>6. QED
  BY <1>2, <1>3, <1>4, <1>5 DEF Reached

(* _check "the draft in place", build, lookup: a draft without problems    *)
(* builds beside the files it was checked beside, unless a name clashes,   *)
(* and the agent is offered what became of each hypothesis.                *)
THEOREM DraftBuildsHolds == MiningSpec => []DraftBuilds
<1>1. ASSUME MiningInv PROVE DraftBuilds
  <2> DEFINE K == Over(files["authored"], Over(draft.layer, files["other"]))
  <2>1. SUFFICES ASSUME draft.made, draft.problems = {},
                        draft.beside = <<files["other"], files["authored"]>>,
                        ~Clash(draft.layer, files["other"])
                 PROVE  /\ Builds(draft.layer)
                        /\ \A h \in Hypotheses : K.converts[h] \in {"declined"} \cup Offered(K)
    BY DEF DraftBuilds
  <2>2. Beside(draft) = K
    BY <2>1 DEF Beside
  <2>3. Builds(draft.layer) <=> AllProblems(K) = {}
    BY <2>1 DEF Builds
  <2> HIDE DEF K
  <2>4. AllProblems(K) = {} /\ K.maps
    BY <1>1, <2>1, <2>2 DEF MiningInv, Checked
  <2>5. Unconverted(K) = {}
    BY <2>4 DEF AllProblems
  <2>6. \A h \in Hypotheses : K.converts[h] \in {"declined"} \cup Reachable(K)
    BY <2>4, <2>5 DEF Unconverted
  <2>7. QED
    BY <2>3, <2>4, <2>6, ReachableIsOffered
<1>2. QED
  BY <1>1, MiningInvariant, PTL


-----------------------------------------------------------------------------
(* Investigation: what facts mean.                                         *)

Meant(w, f, v) == Holds(Meaning(w), f, v)

(* What the facts about a pod without a node mean. *)
LEMMA MeansScheduling ==
  ASSUME NEW w, NEW v
  PROVE  /\ Meant(w, "pod_unscheduled", v) <=> v = None /\ ~w.placed
         /\ Meant(w, "failed_scheduling_event", v) <=> v = None /\ ~w.placed
         /\ Meant(w, "pvc_not_bound", v) <=> v = None /\ Unbound(w)
         /\ Meant(w, "scheduling_rejected_before_nodes_weighed", v) <=> v = None /\ Immediate(w)
         /\ Meant(w, "scheduling_message_cites_affinity", v)
              <=> v = None /\ ~w.placed /\ \E n \in Nodes : "affinity" \in Message(w).why[n]
         /\ Meant(w, "scheduling_message_cites_taint", v)
              <=> v = None /\ ~w.placed /\ \E n \in Nodes : "taint" \in Message(w).why[n]
         /\ Meant(w, "untolerated_noschedule_taint_on_all_candidate_nodes", v)
              <=> v = None /\ \A n \in Nodes : w.nodes[n].taint
         /\ Meant(w, "node_selector_or_affinity_set", v) <=> v = None /\ w.selects
         /\ Meant(w, "no_node_matches_node_selector_or_affinity", v)
              <=> v = None /\ \A n \in Nodes : ~w.nodes[n].match
<1>1. Meant(w, "pod_unscheduled", v) <=> v = None /\ ~w.placed
  BY DEF Meant, Meaning, Holds
<1>2. Meant(w, "failed_scheduling_event", v) <=> v = None /\ ~w.placed
  BY DEF Meant, Meaning, Holds
<1>3. Meant(w, "pvc_not_bound", v) <=> v = None /\ Unbound(w)
  BY DEF Meant, Meaning, Holds
<1>4. Meant(w, "scheduling_rejected_before_nodes_weighed", v) <=> v = None /\ Immediate(w)
  BY DEF Meant, Meaning, Holds
<1>5. Meant(w, "scheduling_message_cites_affinity", v)
        <=> v = None /\ ~w.placed /\ \E n \in Nodes : "affinity" \in Message(w).why[n]
  BY DEF Meant, Meaning, Holds
<1>6. Meant(w, "scheduling_message_cites_taint", v)
        <=> v = None /\ ~w.placed /\ \E n \in Nodes : "taint" \in Message(w).why[n]
  BY DEF Meant, Meaning, Holds
<1>7. Meant(w, "untolerated_noschedule_taint_on_all_candidate_nodes", v)
        <=> v = None /\ \A n \in Nodes : w.nodes[n].taint
  BY DEF Meant, Meaning, Holds
<1>8. Meant(w, "node_selector_or_affinity_set", v) <=> v = None /\ w.selects
  BY DEF Meant, Meaning, Holds
<1>9. Meant(w, "no_node_matches_node_selector_or_affinity", v)
        <=> v = None /\ \A n \in Nodes : ~w.nodes[n].match
  BY DEF Meant, Meaning, Holds
<1>10. QED
  BY <1>1, <1>2, <1>3, <1>4, <1>5, <1>6, <1>7, <1>8, <1>9

(* Those about a container that does not start. *)
LEMMA MeansStart ==
  ASSUME NEW w, NEW v
  PROVE  /\ Meant(w, "image_pull_failure_event", v) <=> v = None /\ w.pull # {None}
         /\ Meant(w, "pod_scheduled_but_container_waiting", v)
              <=> v = None /\ (w.pull # {None} \/ w.mount # None)
         /\ Meant(w, "failed_attach_volume_event", v)
              <=> v = None /\ w.mount \in {"attach", "multi_attach"}
         /\ Meant(w, "multi_attach_error_event", v) <=> v = None /\ w.mount = "multi_attach"
         /\ Meant(w, "volume_access_mode_is_readwriteonce", v)
              <=> v = None /\ w.mount = "multi_attach"
         /\ Meant(w, "mount_failure_event", v) <=> v = None /\ w.mount \in MountKinds
<1>1. Meant(w, "image_pull_failure_event", v) <=> v = None /\ w.pull # {None}
  BY DEF Meant, Meaning, Holds
<1>2. Meant(w, "pod_scheduled_but_container_waiting", v) <=> v = None /\ (w.pull # {None} \/ w.mount # None)
  BY DEF Meant, Meaning, Holds
<1>3. Meant(w, "failed_attach_volume_event", v) <=> v = None /\ w.mount \in {"attach", "multi_attach"}
  BY DEF Meant, Meaning, Holds
<1>4. Meant(w, "multi_attach_error_event", v) <=> v = None /\ w.mount = "multi_attach"
  BY DEF Meant, Meaning, Holds
<1>5. Meant(w, "volume_access_mode_is_readwriteonce", v) <=> v = None /\ w.mount = "multi_attach"
  BY DEF Meant, Meaning, Holds
<1>6. Meant(w, "mount_failure_event", v) <=> v = None /\ w.mount \in MountKinds
  BY DEF Meant, Meaning, Holds
<1>7. QED
  BY <1>1, <1>2, <1>3, <1>4, <1>5, <1>6

(* Those about one that restarts. *)
LEMMA MeansRestart ==
  ASSUME NEW w, NEW v
  PROVE  /\ Meant(w, "liveness_probe_configured", v) <=> v = None /\ Restarts(w) /\ w.run.probe
         /\ Meant(w, "runtime_sizing_flags_set", v) <=> v = None /\ Restarts(w) /\ w.run.sized
         /\ Meant(w, "memory_limit_plausibly_reached", v) <=> v = None /\ Restarts(w) /\ w.run.peak
         /\ Meant(w, "memory_grows_within_life", v) <=> v = None /\ Restarts(w) /\ ~w.run.flat
         /\ Meant(w, "killed_in_every_retained_life", v)
              <=> v = None /\ Restarts(w) /\ Killed(w.run)
         /\ Meant(w, "process_logged_fatal_error", v)
              <=> v = None /\ Restarts(w) /\ w.run.cause = "crash"
         /\ Meant(w, "completes_startup_in_retained_lives", v)
              <=> v = None /\ Restarts(w) /\ w.run.cause \in {"leak", "spike"}
<1>1. Meant(w, "liveness_probe_configured", v) <=> v = None /\ Restarts(w) /\ w.run.probe
  BY DEF Meant, Meaning, Holds
<1>2. Meant(w, "runtime_sizing_flags_set", v) <=> v = None /\ Restarts(w) /\ w.run.sized
  BY DEF Meant, Meaning, Holds
<1>3. Meant(w, "memory_limit_plausibly_reached", v) <=> v = None /\ Restarts(w) /\ w.run.peak
  BY DEF Meant, Meaning, Holds
<1>4. Meant(w, "memory_grows_within_life", v) <=> v = None /\ Restarts(w) /\ ~w.run.flat
  BY DEF Meant, Meaning, Holds
<1>5. Meant(w, "killed_in_every_retained_life", v) <=> v = None /\ Restarts(w) /\ Killed(w.run)
  BY DEF Meant, Meaning, Holds
<1>6. Meant(w, "process_logged_fatal_error", v) <=> v = None /\ Restarts(w) /\ w.run.cause = "crash"
  BY DEF Meant, Meaning, Holds
<1>7. Meant(w, "completes_startup_in_retained_lives", v)
        <=> v = None /\ Restarts(w) /\ w.run.cause \in {"leak", "spike"}
  BY DEF Meant, Meaning, Holds
<1>8. QED
  BY <1>1, <1>2, <1>3, <1>4, <1>5, <1>6, <1>7

(* Those with a value. *)
LEMMA MeansValues ==
  ASSUME NEW w, NEW v
  PROVE  /\ Meant(w, "scheduling_message_cites_insufficient_resource", v)
              <=> ~w.placed /\ v \in {"cpu", "memory"} /\ \E n \in Nodes : v \in Message(w).why[n]
         /\ Meant(w, "claim_storage_class_requested", v)
              <=> v = "sc" /\ Unbound(w) /\ w.claim.why # "no_class"
         /\ Meant(w, "waiting_reason", v) <=> v \in Reasons(w) \ {None}
         /\ Meant(w, "last_exit_code", v) <=> Restarts(w) /\ v = w.run.code
         /\ Meant(w, "last_termination_reason", v) <=> Restarts(w) /\ v = w.run.reason
         /\ Meant(w, "limit_equals_request", v) <=> v = "memory" /\ Restarts(w) /\ w.run.equal
<1>1. Meant(w, "scheduling_message_cites_insufficient_resource", v)
        <=> ~w.placed /\ v \in {"cpu", "memory"} /\ \E n \in Nodes : v \in Message(w).why[n]
  BY DEF Meant, Meaning, Holds
<1>2. Meant(w, "claim_storage_class_requested", v) <=> v = "sc" /\ Unbound(w) /\ w.claim.why # "no_class"
  BY DEF Meant, Meaning, Holds
<1>3. Meant(w, "waiting_reason", v) <=> v \in Reasons(w) \ {None}
  BY DEF Meant, Meaning, Holds
<1>4. Meant(w, "last_exit_code", v) <=> Restarts(w) /\ v = w.run.code
  BY DEF Meant, Meaning, Holds
<1>5. Meant(w, "last_termination_reason", v) <=> Restarts(w) /\ v = w.run.reason
  BY DEF Meant, Meaning, Holds
<1>6. Meant(w, "limit_equals_request", v) <=> v = "memory" /\ Restarts(w) /\ w.run.equal
  BY DEF Meant, Meaning, Holds
<1>7. QED
  BY <1>1, <1>2, <1>3, <1>4, <1>5, <1>6

(* Those that are a kind of message; and two that never hold. *)
LEMMA MeansKinds ==
  ASSUME NEW w, NEW v
  PROVE  /\ \A k \in ClaimKinds : Meant(w, k, v) <=> v = None /\ k \in w.claim.kinds
         /\ \A k \in PullKinds : Meant(w, k, v) <=> v = None /\ k \in w.pull
         /\ \A k \in MountKinds : Meant(w, k, v) <=> v = None /\ k = w.mount
         /\ \A f \in {"healthy_period_before_kills", "healthy_on_same_config"} : ~Meant(w, f, v)
<1>1. \A k \in ClaimKinds : Meant(w, k, v) <=> v = None /\ k \in w.claim.kinds
  <2>1. Meant(w, "claim_event_storage_class_not_found", v) <=> v = None /\ "claim_event_storage_class_not_found" \in w.claim.kinds
    BY DEF Meant, Meaning, Holds
  <2>2. Meant(w, "claim_event_no_volume_and_no_class", v) <=> v = None /\ "claim_event_no_volume_and_no_class" \in w.claim.kinds
    BY DEF Meant, Meaning, Holds
  <2>3. Meant(w, "claim_event_provisioner_error", v) <=> v = None /\ "claim_event_provisioner_error" \in w.claim.kinds
    BY DEF Meant, Meaning, Holds
  <2>4. Meant(w, "claim_event_waiting_external_provisioner", v) <=> v = None /\ "claim_event_waiting_external_provisioner" \in w.claim.kinds
    BY DEF Meant, Meaning, Holds
  <2>5. Meant(w, "claim_event_waiting_for_first_consumer", v) <=> v = None /\ "claim_event_waiting_for_first_consumer" \in w.claim.kinds
    BY DEF Meant, Meaning, Holds
  <2>6. QED
    BY <2>1, <2>2, <2>3, <2>4, <2>5 DEF ClaimKinds, Settling
<1>2. \A k \in PullKinds : Meant(w, k, v) <=> v = None /\ k \in w.pull
  <2>1. Meant(w, "pull_message_names_manifest_not_found", v) <=> v = None /\ "pull_message_names_manifest_not_found" \in w.pull
    BY DEF Meant, Meaning, Holds
  <2>2. Meant(w, "pull_message_names_image_not_found", v) <=> v = None /\ "pull_message_names_image_not_found" \in w.pull
    BY DEF Meant, Meaning, Holds
  <2>3. Meant(w, "pull_message_names_unauthorized", v) <=> v = None /\ "pull_message_names_unauthorized" \in w.pull
    BY DEF Meant, Meaning, Holds
  <2>4. Meant(w, "pull_message_names_forbidden", v) <=> v = None /\ "pull_message_names_forbidden" \in w.pull
    BY DEF Meant, Meaning, Holds
  <2>5. Meant(w, "pull_message_names_connection_failure", v) <=> v = None /\ "pull_message_names_connection_failure" \in w.pull
    BY DEF Meant, Meaning, Holds
  <2>6. QED
    BY <2>1, <2>2, <2>3, <2>4, <2>5 DEF PullKinds, NotFound
<1>3. \A k \in MountKinds : Meant(w, k, v) <=> v = None /\ k = w.mount
  <2>1. Meant(w, "mount_message_names_csi_error", v) <=> v = None /\ "mount_message_names_csi_error" = w.mount
    BY DEF Meant, Meaning, Holds
  <2>2. Meant(w, "mount_message_names_permission_denied", v) <=> v = None /\ "mount_message_names_permission_denied" = w.mount
    BY DEF Meant, Meaning, Holds
  <2>3. Meant(w, "mount_message_names_missing_volume", v) <=> v = None /\ "mount_message_names_missing_volume" = w.mount
    BY DEF Meant, Meaning, Holds
  <2>4. QED
    BY <2>1, <2>2, <2>3 DEF MountKinds
<1>4. \A f \in {"healthy_period_before_kills", "healthy_on_same_config"} : ~Meant(w, f, v)
  BY DEF Meant, Meaning, Holds
<1>5. QED
  BY <1>1, <1>2, <1>3, <1>4

-----------------------------------------------------------------------------
(* Investigation: what tools state.                                        *)

(* What lines are about, and the values they give.                         *)
Stateable ==
  ClaimKinds \cup PullKinds \cup MountKinds \cup Reserved \cup
  { "pod_unscheduled", "failed_scheduling_event", "pvc_not_bound",
    "scheduling_rejected_before_nodes_weighed",
    "scheduling_message_cites_affinity", "scheduling_message_cites_taint",
    "untolerated_noschedule_taint_on_all_candidate_nodes",
    "node_selector_or_affinity_set",
    "no_node_matches_node_selector_or_affinity", "image_pull_failure_event",
    "pod_scheduled_but_container_waiting", "failed_attach_volume_event",
    "multi_attach_error_event", "volume_access_mode_is_readwriteonce",
    "mount_failure_event", "liveness_probe_configured",
    "runtime_sizing_flags_set", "memory_limit_plausibly_reached",
    "memory_grows_within_life", "killed_in_every_retained_life",
    "process_logged_fatal_error", "completes_startup_in_retained_lives",
    "claim_storage_class_requested", "last_exit_code",
    "last_termination_reason", "limit_equals_request", "waiting_reason",
    "scheduling_message_cites_insufficient_resource",
    "healthy_period_before_kills" }

Values(w) ==
  {None, "cpu", "memory", "sc", "image", "resources", "spec", w.run.code, w.run.reason}
  \cup Reasons(w)

(* The lines that are so, or that FactsTrue leaves out.  A derived line    *)
(* gives a reason only as what it is, and names a resource there is.       *)
Lines(w) ==
  {l \in [f : Stateable, v : Values(w), t : BOOLEAN] :
     /\ (l.t <=> Meant(w, l.f, l.v)) \/ Contested(w, l)
     /\ l.f = "waiting_reason" => l.t
     /\ l.f = "scheduling_message_cites_insufficient_resource" => l.v \in {"cpu", "memory"}}

(* When a line is among these. *)
LEMMA Stated ==
  ASSUME NEW w, NEW f \in Stateable, NEW v \in Values(w), NEW t \in BOOLEAN,
         (t <=> Meant(w, f, v)) \/ Contested(w, Line(f, v, t)),
         f = "waiting_reason" => t,
         f = "scheduling_message_cites_insufficient_resource" => v \in {"cpu", "memory"}
  PROVE  Line(f, v, t) \in Lines(w)
  BY DEF Lines, Line

(* The same of a fact without a value. *)
LEMMA StatedPlainly ==
  ASSUME NEW w, NEW f \in Stateable, NEW t \in BOOLEAN,
         (t <=> Meant(w, f, None)) \/ Contested(w, Line(f, None, t)),
         f \notin {"waiting_reason", "scheduling_message_cites_insufficient_resource"}
  PROVE  Line(f, None, t) \in Lines(w)
<1>1. None \in Values(w)
  BY DEF Values
<1>2. QED
  BY <1>1, Stated

(* Lines after lines. *)
LEMMA OneLine == ASSUME NEW R, NEW l \in R PROVE <<l>> \in Seq(R)
  OBVIOUS

LEMMA Joined == ASSUME NEW R, NEW s \in Seq(R), NEW t \in Seq(R) PROVE s \o t \in Seq(R)
  OBVIOUS

LEMMA Guarded == ASSUME NEW R, NEW b, NEW s, b => s \in Seq(R) PROVE When(b, s) \in Seq(R)
  BY DEF When

(* A line of one fact without a value. *)
LEMMA Plain ==
  ASSUME NEW w, NEW f \in Stateable,
         f \notin {"waiting_reason", "scheduling_message_cites_insufficient_resource"}
  PROVE  /\ Meant(w, f, None) => Yes(f) \in Seq(Lines(w))
         /\ ~Meant(w, f, None) \/ f \in Reserved => No(f) \in Seq(Lines(w))
         /\ \A b \in BOOLEAN : (b <=> Meant(w, f, None)) => Either(f, b) \in Seq(Lines(w))
<1>1. ASSUME NEW b \in BOOLEAN, (b <=> Meant(w, f, None)) \/ f \in Reserved
      PROVE  <<Line(f, None, b)>> \in Seq(Lines(w))
  <2>1. Line(f, None, b) \in Lines(w)
    BY <1>1, StatedPlainly DEF Contested, Line
  <2>2. QED
    BY <2>1, OneLine
<1>2. QED
  BY <1>1 DEF Yes, No, Either

(* The same line of each of some facts. *)
LEMMA Each ==
  ASSUME NEW w, NEW names, IsFiniteSet(names), names \subseteq Stateable, NEW t \in BOOLEAN,
         \A f \in names : (t <=> Meant(w, f, None))
                          /\ f \notin {"waiting_reason", "scheduling_message_cites_insufficient_resource"}
  PROVE  EachOf(names, t) \in Seq(Lines(w))
<1> DEFINE S == {Line(f, None, t) : f \in names}
           g == [f \in names |-> Line(f, None, t)]
<1>1. S \subseteq Lines(w)
  <2>1. ASSUME NEW f \in names PROVE Line(f, None, t) \in Lines(w)
    BY StatedPlainly
  <2>2. QED
    BY <2>1
<1>2. g \in Surjection(names, S)
  BY DEF Surjection
<1>3. IsFiniteSet(S)
  BY <1>2, FS_Surjection
<1>4. Cardinality(S) \in Nat /\ ExistsBijection(1..Cardinality(S), S)
  BY <1>3, FS_CardinalityType
<1>5. \E f \in [1..Cardinality(S) -> S] : IsInjective(f)
  BY <1>4 DEF ExistsBijection, Bijection, Injection
<1>6. SetToSeq(S) \in [1..Cardinality(S) -> S]
  BY <1>5 DEF SetToSeq
<1>7. SetToSeq(S) \in Seq(Lines(w))
  <2> HIDE DEF S
  <2>1. SetToSeq(S) \in [1..Cardinality(S) -> Lines(w)]
    BY <1>1, <1>6
  <2>2. QED
    BY <1>4, <2>1
<1>8. QED
  BY <1>7 DEF EachOf
(* The three kinds of incident.                                            *)
Unplaced(w) ==
  /\ w.placed = FALSE /\ w.selects \in BOOLEAN /\ w.older \in BOOLEAN
  /\ w.nodes \in [Nodes -> NodeStates] /\ w.claim \in ClaimStates
  /\ w.pull = {None} /\ w.mount = None /\ ~Restarts(w)
  /\ w.selects \/ \A n \in Nodes : w.nodes[n].match
  /\ ~Immediate(w) => \A n \in Nodes : Refusal(w.nodes[n]) # {}

Placed(w) ==
  w.placed = TRUE /\ w.selects = FALSE /\ w.claim = NoClaim /\ w.nodes = [n \in Nodes |-> Free]

Starting(w) ==
  /\ Placed(w) /\ ~Restarts(w) /\ w.older = FALSE
  /\ \/ w.pull \in Refusals /\ w.mount = None
     \/ w.pull = {None} /\ w.mount \in MountKinds \cup {"attach", "multi_attach"}

Restarting(w) ==
  Placed(w) /\ Restarts(w) /\ w.older = FALSE /\ w.pull = {None} /\ w.mount = None /\ w.run \in Runs

(* An incident is of one kind. *)
LEMMA ThreeKinds ==
  ASSUME NEW w \in Clusters
  PROVE  Unplaced(w) \/ Starting(w) \/ Restarting(w)
<1>1. CASE w \in Pending
  <2>1. /\ w.placed = FALSE /\ w.selects \in BOOLEAN /\ w.older \in BOOLEAN
        /\ w.nodes \in [Nodes -> NodeStates] /\ w.claim \in ClaimStates
        /\ w.pull = {None} /\ w.mount = None /\ w.run = Idle
    BY <1>1 DEF Pending
  <2>2. /\ w.selects \/ \A n \in Nodes : w.nodes[n].match
        /\ ~Immediate(w) => \A n \in Nodes : Refusal(w.nodes[n]) # {}
    BY <1>1 DEF Pending
  <2>3. QED
    BY <2>1, <2>2 DEF Unplaced, Restarts, Idle
<1>2. ASSUME NEW p \in Refusals, w = [Quiet EXCEPT !.pull = p] PROVE Starting(w)
  BY <1>2 DEF Quiet, Starting, Placed, Restarts, Idle
<1>3. ASSUME NEW m \in MountKinds \cup {"attach", "multi_attach"}, w = [Quiet EXCEPT !.mount = m]
      PROVE  Starting(w)
  BY <1>3 DEF Quiet, Starting, Placed, Restarts, Idle
<1>4. ASSUME NEW r \in Runs, w = [Quiet EXCEPT !.run = r] PROVE Restarting(w)
  <2>1. r.cause # "none"
    BY DEF Runs, Memory
  <2>2. QED
    BY <1>4, <2>1 DEF Quiet, Restarting, Placed, Restarts
<1>5. QED
  BY <1>1, <1>2, <1>3, <1>4 DEF Clusters, Unstarted

(* The scheduler names the claim, or a reason for each node. *)
LEMMA MessageOf ==
  ASSUME NEW w, Unplaced(w), NEW n \in Nodes
  PROVE  /\ Message(w).unbound = Immediate(w)
         /\ Message(w).why[n] \subseteq {"taint", "affinity", "cpu", "memory"}
         /\ Message(w).why[n] = {} <=> Immediate(w)
         /\ "taint" \in Message(w).why[n] <=> ~Immediate(w) /\ w.nodes[n].taint
<1>1. w.nodes[n] \in NodeStates
  BY DEF Unplaced
<1>2. /\ w.nodes[n].taint \in BOOLEAN
      /\ Refusal(w.nodes[n]) \subseteq {"taint", "affinity", "cpu", "memory"}
      /\ "taint" \in Refusal(w.nodes[n]) <=> w.nodes[n].taint
  BY <1>1 DEF NodeStates, Refusal
<1>3. Message(w).why[n] = IF Immediate(w) THEN {} ELSE Refusal(w.nodes[n])
  BY DEF Message
<1>4. ~Immediate(w) => Refusal(w.nodes[n]) # {}
  BY DEF Unplaced
<1>5. Message(w).unbound = Immediate(w)
  BY DEF Message
<1>6. QED
  BY <1>2, <1>3, <1>4, <1>5

LEMMA FactNames ==
  /\ { "pod_unscheduled", "failed_scheduling_event", "pvc_not_bound",
       "scheduling_rejected_before_nodes_weighed", "scheduling_message_cites_affinity",
       "scheduling_message_cites_taint", "untolerated_noschedule_taint_on_all_candidate_nodes",
       "node_selector_or_affinity_set", "no_node_matches_node_selector_or_affinity",
       "scheduling_message_cites_insufficient_resource", "claim_storage_class_requested" } \subseteq Stateable
  /\ ClaimKinds \cup PullKinds \cup MountKinds \cup Reserved \subseteq Stateable
  BY DEF Stateable

(* scheduling_kb *)
LEMMA SchedulingRight ==
  ASSUME NEW w, Unplaced(w)
  PROVE  SchedulingKb(Message(w)) \in Seq(Lines(w))
<1> DEFINE m == Message(w)
           cited(r) == {n \in Nodes : r \in m.why[n]}
           count == Cardinality(cited("taint")) + Cardinality(cited("affinity"))
                    + Cardinality(cited("cpu")) + Cardinality(cited("memory"))
           complete == count >= Cardinality(Nodes)
           part(f, v, r) == When(cited(r) # {} \/ complete, <<Line(f, v, cited(r) # {})>>)
<1>1. IsFiniteSet(Nodes) /\ Nodes # {}
  BY InvestigationAssumption
<1>2. \A r : cited(r) \subseteq Nodes /\ IsFiniteSet(cited(r)) /\ Cardinality(cited(r)) \in Nat
             /\ (Cardinality(cited(r)) = 0 <=> cited(r) = {})
  <2>1. ASSUME NEW r PROVE cited(r) \subseteq Nodes /\ IsFiniteSet(cited(r))
    BY <1>1, FS_Subset
  <2>2. ASSUME NEW r PROVE Cardinality(cited(r)) \in Nat /\ (Cardinality(cited(r)) = 0 <=> cited(r) = {})
    BY <2>1, FS_CardinalityType, FS_EmptySet
  <2>3. QED
    BY <2>1, <2>2
<1>3. Cardinality(Nodes) \in Nat /\ Cardinality(Nodes) # 0
  BY <1>1, FS_CardinalityType, FS_EmptySet
<1>4. m.unbound = Immediate(w)
  BY <1>1, MessageOf
<1>5. count = 0 <=> Immediate(w)
  <2>1. count = 0 <=> cited("taint") = {} /\ cited("affinity") = {} /\ cited("cpu") = {} /\ cited("memory") = {}
    <3> HIDE DEF cited
    <3>1. QED
      BY <1>2
  <2>2. PICK n \in Nodes : TRUE
    BY <1>1
  <2>3. m.why[n] \subseteq {"taint", "affinity", "cpu", "memory"} /\ (m.why[n] = {} <=> Immediate(w))
    BY MessageOf
  <2>4. ASSUME Immediate(w), NEW r PROVE cited(r) = {}
    BY <2>4, MessageOf
  <2>5. (\A r \in {"taint", "affinity", "cpu", "memory"} : r \notin m.why[n]) => m.why[n] = {}
    BY <2>3
  <2>6. QED
    BY <2>1, <2>3, <2>4, <2>5
<1>6. complete => ~Immediate(w)
  BY <1>3, <1>5
<1>7. ASSUME NEW r PROVE (cited(r) # {}) <=> ~w.placed /\ \E n \in Nodes : r \in m.why[n]
  BY DEF Unplaced
<1>8. When(m.unbound, Yes("pvc_not_bound")) \in Seq(Lines(w))
  <2>1. Immediate(w) => Meant(w, "pvc_not_bound", None)
    BY MeansScheduling DEF Immediate
  <2>2. QED
    BY <1>4, <2>1, Plain, Guarded, FactNames
<1>9. When(count = 0, Yes("scheduling_rejected_before_nodes_weighed")) \in Seq(Lines(w))
  BY <1>5, Plain, Guarded, FactNames, MeansScheduling
<1>10. When(complete, No("scheduling_rejected_before_nodes_weighed")) \in Seq(Lines(w))
  BY <1>6, Plain, Guarded, FactNames, MeansScheduling
<1>11. ASSUME NEW f \in {"scheduling_message_cites_affinity", "scheduling_message_cites_taint"}, NEW r,
              Meant(w, f, None) <=> cited(r) # {}
       PROVE  part(f, None, r) \in Seq(Lines(w))
  <2>1. Line(f, None, cited(r) # {}) \in Lines(w)
    BY <1>11, StatedPlainly, FactNames
  <2>2. QED
    BY <2>1, OneLine, Guarded
<1>12. ASSUME NEW v \in {"cpu", "memory"}
       PROVE  part("scheduling_message_cites_insufficient_resource", v, v) \in Seq(Lines(w))
  <2>1. Meant(w, "scheduling_message_cites_insufficient_resource", v) <=> cited(v) # {}
    BY <1>7, MeansValues
  <2>2. v \in Values(w)
    BY DEF Values
  <2>3. Line("scheduling_message_cites_insufficient_resource", v, cited(v) # {}) \in Lines(w)
    BY <2>1, <2>2, Stated, FactNames
  <2>4. QED
    BY <2>3, OneLine, Guarded
<1>13. /\ part("scheduling_message_cites_affinity", None, "affinity") \in Seq(Lines(w))
       /\ part("scheduling_message_cites_taint", None, "taint") \in Seq(Lines(w))
  BY <1>7, <1>11, MeansScheduling
<1>14. When(complete, Either("untolerated_noschedule_taint_on_all_candidate_nodes",
                             cited("taint") = Nodes)) \in Seq(Lines(w))
  <2>1. complete => (cited("taint") = Nodes <=> \A n \in Nodes : w.nodes[n].taint)
    BY <1>6, MessageOf
  <2>2. QED
    BY <2>1, Plain, Guarded, FactNames, MeansScheduling
<1>15. SchedulingKb(m) =
         When(m.unbound, Yes("pvc_not_bound"))
         \o When(count = 0, Yes("scheduling_rejected_before_nodes_weighed"))
         \o When(complete, No("scheduling_rejected_before_nodes_weighed"))
         \o part("scheduling_message_cites_affinity", None, "affinity")
         \o part("scheduling_message_cites_taint", None, "taint")
         \o When(complete, Either("untolerated_noschedule_taint_on_all_candidate_nodes",
                                  cited("taint") = Nodes))
         \o part("scheduling_message_cites_insufficient_resource", "cpu", "cpu")
         \o part("scheduling_message_cites_insufficient_resource", "memory", "memory")
  BY DEF SchedulingKb
<1> HIDE DEF m, cited, count, complete, part
<1>16. SchedulingKb(m) \in Seq(Lines(w))
  BY <1>8, <1>9, <1>10, <1>12, <1>13, <1>14, <1>15, Joined
<1>17. QED
  BY <1>16 DEF m

(* claim_kb *)
LEMMA ClaimRight ==
  ASSUME NEW w, Unplaced(w), Unbound(w), NEW newest \in Newest(w.claim),
         NEW recent, NEW complete \in BOOLEAN, complete => recent = w.claim.kinds
  PROVE  ClaimKb(w.claim, newest, recent, complete) \in Seq(Lines(w))
<1> DEFINE settled == newest \in Settling \/ (complete /\ recent = {newest})
<1>1. newest # None => newest \in w.claim.kinds /\ newest \in ClaimKinds
  BY DEF Newest, Unplaced, ClaimStates, NoClaim, ClaimKinds, Settling
<1>2. newest # None /\ newest \in Settling => w.claim.kinds = {newest}
  BY <1>1 DEF Unplaced, ClaimStates, NoClaim, Settling
<1>3. When(w.claim.why # "no_class", YesOf("claim_storage_class_requested", "sc")) \in Seq(Lines(w))
  <2>1. ASSUME w.claim.why # "no_class" PROVE Line("claim_storage_class_requested", "sc", TRUE) \in Lines(w)
    <3>1. Meant(w, "claim_storage_class_requested", "sc")
      BY <2>1, MeansValues
    <3>2. "sc" \in Values(w)
      BY DEF Values
    <3>3. QED
      BY <3>1, <3>2, Stated, FactNames
  <2>2. QED
    BY <2>1, OneLine, Guarded DEF YesOf
<1>4. \A k \in ClaimKinds : k \in Stateable /\ k \notin {"waiting_reason", "scheduling_message_cites_insufficient_resource"}
  BY DEF Stateable, ClaimKinds, Settling
<1>5. newest # None => Yes(newest) \in Seq(Lines(w))
  BY <1>1, <1>4, MeansKinds, Plain
<1>6. newest # None /\ settled => EachOf(ClaimKinds \ {newest}, FALSE) \in Seq(Lines(w))
  <2>1. SUFFICES ASSUME newest # None, settled PROVE EachOf(ClaimKinds \ {newest}, FALSE) \in Seq(Lines(w))
    OBVIOUS
  <2>2. w.claim.kinds = {newest}
    BY <1>2, <2>1
  <2>3. \A k \in ClaimKinds \ {newest} : ~Meant(w, k, None)
    BY <2>2, MeansKinds
  <2>4. IsFiniteSet(ClaimKinds)
    <3>1. \A S, x : IsFiniteSet(S) => IsFiniteSet(S \cup {x})
      BY FS_AddElement
    <3>2. ClaimKinds = ((((({} \cup {"claim_event_storage_class_not_found"})
             \cup {"claim_event_no_volume_and_no_class"}) \cup {"claim_event_provisioner_error"})
             \cup {"claim_event_waiting_external_provisioner"})
             \cup {"claim_event_waiting_for_first_consumer"})
      BY DEF ClaimKinds, Settling
    <3>3. QED
      BY <3>1, <3>2, FS_EmptySet
  <2>5. IsFiniteSet(ClaimKinds \ {newest})
    BY <2>4, FS_Subset
  <2>6. QED
    BY <1>4, <2>3, <2>5, Each
<1>7. When(newest # None, Yes(newest) \o When(settled, EachOf(ClaimKinds \ {newest}, FALSE))) \in Seq(Lines(w))
  <2>1. newest # None => When(settled, EachOf(ClaimKinds \ {newest}, FALSE)) \in Seq(Lines(w))
    BY <1>6, Guarded
  <2>2. newest # None =>
          Yes(newest) \o When(settled, EachOf(ClaimKinds \ {newest}, FALSE)) \in Seq(Lines(w))
    BY <1>5, <2>1, Joined
  <2>3. QED
    BY <2>2, Guarded
<1>8. QED
  BY <1>3, <1>7, Joined DEF ClaimKb

(* _rollout, unscheduled_kb *)
LEMMA PlacementRight ==
  ASSUME NEW w, Unplaced(w)
  PROVE  Placement(w) \in Seq(Lines(w))
<1> DEFINE match == {n \in Nodes : w.nodes[n].match}
           tainted == {n \in match : w.nodes[n].taint}
<1>1. Either("node_selector_or_affinity_set", w.selects) \in Seq(Lines(w))
  BY Plain, FactNames, MeansScheduling DEF Unplaced
<1>2. Either("no_node_matches_node_selector_or_affinity", match = {}) \in Seq(Lines(w))
  <2>1. match = {} <=> \A n \in Nodes : ~w.nodes[n].match
    OBVIOUS
  <2>2. QED
    BY <2>1, Plain, FactNames, MeansScheduling
<1>3. Either("untolerated_noschedule_taint_on_all_candidate_nodes", tainted = match) \in Seq(Lines(w))
  <2> DEFINE l == Line("untolerated_noschedule_taint_on_all_candidate_nodes", None, tainted = match)
  <2>1. CASE \A n \in Nodes : w.nodes[n].match
    <3>1. tainted = match <=> \A n \in Nodes : w.nodes[n].taint
      BY <2>1
    <3>2. QED
      BY <3>1, Plain, FactNames, MeansScheduling
  <2>2. CASE \E n \in Nodes : ~w.nodes[n].match
    <3>1. Contested(w, l)
      BY <2>2 DEF Contested, Line
    <3>2. l \in Lines(w)
      BY <3>1, StatedPlainly, FactNames
    <3>3. QED
      BY <3>2, OneLine DEF Either
  <2>3. QED
    BY <2>1, <2>2
<1>4. When(tainted # {}, Either("untolerated_noschedule_taint_on_all_candidate_nodes", tainted = match))
        \in Seq(Lines(w))
  BY <1>3, Guarded
<1>5. QED
  BY <1>1, <1>2, <1>4, Joined DEF Placement

(* What a pod that has a node does not show. *)
LEMMA PlacedOrUnplaced ==
  ASSUME NEW w \in Clusters
  PROVE  /\ w.placed \in BOOLEAN
         /\ ~w.placed => Unplaced(w)
         /\ w.placed => w.selects = FALSE /\ w.claim = NoClaim /\ (Starting(w) \/ Restarting(w))
  BY ThreeKinds DEF Unplaced, Starting, Restarting, Placed

LEMMA NotUnbound == ASSUME NEW w, w.claim = NoClaim PROVE ~Unbound(w)
  BY DEF Unbound, NoClaim

(* _rollout *)
LEMMA RolloutRight ==
  ASSUME NEW w \in Clusters, NEW newest \in Newest(w.claim)
  PROVE  Rollout(w, newest) \in Seq(Lines(w))
<1>1. SUFFICES ASSUME ~w.placed
      PROVE Yes("pod_unscheduled") \o SchedulingKb(Message(w)) \o ClaimLine(w, newest) \o Placement(w)
              \in Seq(Lines(w))
  BY Guarded DEF Rollout
<1>2. Unplaced(w)
  BY <1>1, PlacedOrUnplaced
<1>3. Yes("pod_unscheduled") \in Seq(Lines(w))
  BY <1>1, Plain, FactNames, MeansScheduling
<1>4. ClaimLine(w, newest) \in Seq(Lines(w))
  <2>1. Unbound(w) => Yes("pvc_not_bound") \in Seq(Lines(w))
    BY Plain, FactNames, MeansScheduling
  <2>2. Unbound(w) => ClaimKb(w.claim, newest, {newest}, FALSE) \in Seq(Lines(w))
    BY <1>2, ClaimRight
  <2>3. QED
    BY <2>1, <2>2, Joined, Guarded DEF ClaimLine
<1>5. QED
  BY <1>2, <1>3, <1>4, SchedulingRight, PlacementRight, Joined

(* events: what a scheduler's message states. *)
LEMMA ScheduledRight ==
  ASSUME NEW w \in Clusters
  PROVE  Scheduled(w) \in Seq(Lines(w))
<1>1. ~w.placed => Yes("failed_scheduling_event") \in Seq(Lines(w)) /\ Unplaced(w)
  BY PlacedOrUnplaced, Plain, FactNames, MeansScheduling
<1>2. QED
  BY <1>1, SchedulingRight, Joined, Guarded DEF Scheduled

(* pvc_summaries *)
LEMMA PvcRight ==
  ASSUME NEW w \in Clusters, NEW newest \in Newest(w.claim)
  PROVE  PvcSummaries(w, newest) \in Seq(Lines(w))
<1>1. Unbound(w) => Unplaced(w)
  BY PlacedOrUnplaced, NotUnbound
<1>2. Unbound(w) => Yes("pvc_not_bound") \in Seq(Lines(w))
  BY Plain, FactNames, MeansScheduling
<1>3. Unbound(w) => ClaimKb(w.claim, newest, w.claim.kinds, TRUE) \in Seq(Lines(w))
  BY <1>1, ClaimRight
<1>4. QED
  BY <1>2, <1>3, Joined, Guarded DEF PvcSummaries

LEMMA StartNames ==
  { "image_pull_failure_event", "pod_scheduled_but_container_waiting", "failed_attach_volume_event",
    "multi_attach_error_event", "mount_failure_event", "waiting_reason" } \subseteq Stateable
  BY DEF Stateable

LEMMA FiniteKinds == IsFiniteSet(PullKinds) /\ IsFiniteSet(MountKinds)
<1>1. \A S, x : IsFiniteSet(S) => IsFiniteSet(S \cup {x})
  BY FS_AddElement
<1>2. PullKinds = ((((({} \cup {"pull_message_names_manifest_not_found"})
         \cup {"pull_message_names_image_not_found"}) \cup {"pull_message_names_unauthorized"})
         \cup {"pull_message_names_forbidden"}) \cup {"pull_message_names_connection_failure"})
  BY DEF PullKinds, NotFound
<1>3. MountKinds = ((({} \cup {"mount_message_names_csi_error"})
         \cup {"mount_message_names_permission_denied"}) \cup {"mount_message_names_missing_volume"})
  BY DEF MountKinds
<1>4. QED
  BY <1>1, <1>2, <1>3, FS_EmptySet

(* pull_kb *)
LEMMA PullRight ==
  ASSUME NEW w, w.pull \in Refusals, NEW refused \in BOOLEAN
  PROVE  PullKb(refused, w.pull) \in Seq(Lines(w))
<1> DEFINE alike == IF w.pull \cap NotFound # {} THEN NotFound ELSE {}
           others == PullKinds \ (w.pull \cup alike)
<1>1. w.pull \subseteq PullKinds /\ w.pull # {None}
  <2>1. None \notin PullKinds
    BY DEF PullKinds, NotFound, None
  <2>2. w.pull \subseteq PullKinds
    BY DEF Refusals, PullKinds, NotFound
  <2>3. QED
    BY <2>1, <2>2
<1>2. \A k \in PullKinds : k \in Stateable /\ k \notin {"waiting_reason", "scheduling_message_cites_insufficient_resource"}
  BY DEF Stateable, PullKinds, NotFound
<1>3. Yes("image_pull_failure_event") \in Seq(Lines(w))
  BY <1>1, MeansStart, Plain, StartNames
<1>4. EachOf(w.pull, TRUE) \in Seq(Lines(w))
  <2>1. IsFiniteSet(w.pull)
    BY <1>1, FiniteKinds, FS_Subset
  <2>2. \A k \in w.pull : Meant(w, k, None)
    BY <1>1, MeansKinds
  <2>3. QED
    BY <1>1, <1>2, <2>1, <2>2, Each
<1>5. EachOf(others, FALSE) \in Seq(Lines(w))
  <2>1. IsFiniteSet(others)
    BY FiniteKinds, FS_Subset
  <2>2. \A k \in others : ~Meant(w, k, None)
    BY MeansKinds
  <2>3. QED
    BY <1>2, <2>1, <2>2, Each
<1> HIDE DEF others
<1>6. \A b \in BOOLEAN : When(refused, EachOf(w.pull, TRUE) \o When(b, EachOf(others, FALSE))) \in Seq(Lines(w))
  BY <1>4, <1>5, Guarded, Joined
<1>7. When(refused, EachOf(w.pull, TRUE)
             \o When(w.pull # {} /\ (w.pull \subseteq NotFound \/ Cardinality(w.pull) = 1),
                     EachOf(others, FALSE))) \in Seq(Lines(w))
  BY <1>6
<1>8. QED
  BY <1>3, <1>7, Joined DEF PullKb, others

(* volume_kb *)
LEMMA VolumeRight ==
  ASSUME NEW w, w.mount \in MountKinds \cup {"attach", "multi_attach"}
  PROVE  VolumeKb(w.mount) \in Seq(Lines(w))
<1>1. \A k \in MountKinds : k \in Stateable /\ k \notin {"waiting_reason", "scheduling_message_cites_insufficient_resource"}
  BY DEF Stateable, MountKinds
<1>2. CASE w.mount \in {"attach", "multi_attach"}
  <2>1. /\ Yes("failed_attach_volume_event") \in Seq(Lines(w))
        /\ w.mount = "multi_attach" => Yes("multi_attach_error_event") \in Seq(Lines(w))
    BY <1>2, MeansStart, Plain, StartNames
  <2>2. QED
    BY <1>2, <2>1, Guarded, Joined DEF VolumeKb
<1>3. CASE w.mount \in MountKinds
  <2>1. Yes("mount_failure_event") \in Seq(Lines(w))
    BY <1>3, MeansStart, Plain, StartNames
  <2>2. Yes(w.mount) \in Seq(Lines(w))
    BY <1>1, <1>3, MeansKinds, Plain
  <2>3. EachOf(MountKinds \ {w.mount}, FALSE) \in Seq(Lines(w))
    <3>1. IsFiniteSet(MountKinds \ {w.mount})
      BY FiniteKinds, FS_Subset
    <3>2. \A k \in MountKinds \ {w.mount} : ~Meant(w, k, None)
      BY MeansKinds
    <3>3. QED
      BY <1>1, <3>1, <3>2, Each
  <2>4. w.mount \notin {"attach", "multi_attach"}
    BY <1>3 DEF MountKinds
  <2>5. QED
    BY <1>3, <2>1, <2>2, <2>3, <2>4, Guarded, Joined DEF VolumeKb
<1>4. QED
  BY <1>2, <1>3

(* What the kubelet's messages state. *)
LEMMA MessagesRight ==
  ASSUME NEW w \in Clusters, NEW refused \in BOOLEAN
  PROVE  Messages(w, refused) \in Seq(Lines(w))
<1>1. w.pull # {None} => w.pull \in Refusals
  BY ThreeKinds DEF Unplaced, Starting, Restarting
<1>2. w.mount # None => w.mount \in MountKinds \cup {"attach", "multi_attach"}
  BY ThreeKinds DEF Unplaced, Starting, Restarting
<1>3. QED
  BY <1>1, <1>2, PullRight, VolumeRight, Guarded, Joined DEF Messages

(* _never_started *)
LEMMA NeverStartedRight ==
  ASSUME NEW w \in Clusters, NEW reason \in Reasons(w)
  PROVE  NeverStarted(w, reason) \in Seq(Lines(w))
<1>1. reason # None => Line("waiting_reason", reason, TRUE) \in Lines(w)
  <2>1. reason \in Values(w)
    BY DEF Values
  <2>2. reason # None => Meant(w, "waiting_reason", reason)
    BY MeansValues
  <2>3. QED
    BY <2>1, <2>2, Stated, StartNames
<1>2. reason # None => YesOf("waiting_reason", reason) \in Seq(Lines(w))
  BY <1>1, OneLine DEF YesOf
<1>3. reason # None => Yes("pod_scheduled_but_container_waiting") \in Seq(Lines(w))
  <2>1. reason # None => w.pull # {None} \/ w.mount # None
    BY DEF Reasons
  <2>2. QED
    BY <2>1, MeansStart, Plain, StartNames
<1>4. QED
  BY <1>2, <1>3, Guarded, Joined DEF NeverStarted

LEMMA RestartNames ==
  { "liveness_probe_configured", "runtime_sizing_flags_set", "memory_limit_plausibly_reached",
    "memory_grows_within_life", "killed_in_every_retained_life", "limit_equals_request",
    "last_exit_code", "last_termination_reason", "healthy_period_before_kills" } \subseteq Stateable
  BY DEF Stateable

(* What a run is made of. *)
LEMMA RunShape ==
  ASSUME NEW w \in Clusters, Restarts(w)
  PROVE  /\ Restarting(w) /\ w.run \in Runs
         /\ w.run.equal \in BOOLEAN /\ w.run.probe \in BOOLEAN /\ w.run.sized \in BOOLEAN
         /\ w.run.peak \in BOOLEAN /\ w.run.flat \in BOOLEAN
<1>1. Restarting(w)
  BY ThreeKinds DEF Unplaced, Starting
<1>2. w.run \in Runs
  BY <1>1 DEF Restarting
<1>3. QED
  BY <1>1, <1>2 DEF Runs

(* The onset is left out. *)
LEMMA OnsetRight ==
  ASSUME NEW w
  PROVE  /\ Yes("onset_observed") \in Seq(Lines(w)) /\ No("onset_observed") \in Seq(Lines(w))
         /\ \A v \in {"image", "resources", "spec"}, b \in BOOLEAN :
              Line("changed_before_onset", v, b) \in Lines(w)
<1>1. ASSUME NEW f \in Reserved, NEW v \in {None, "image", "resources", "spec"}, NEW b \in BOOLEAN
      PROVE  Line(f, v, b) \in Lines(w)
  <2>1. Contested(w, Line(f, v, b))
    BY DEF Contested, Line
  <2>2. f \notin {"waiting_reason", "scheduling_message_cites_insufficient_resource"}
    BY DEF Reserved
  <2>3. v \in Values(w)
    BY DEF Values
  <2>4. QED
    BY <2>1, <2>2, <2>3, Stated, FactNames
<1>2. "onset_observed" \in Reserved /\ "changed_before_onset" \in Reserved
  BY DEF Reserved
<1>3. Line("onset_observed", None, TRUE) \in Lines(w) /\ Line("onset_observed", None, FALSE) \in Lines(w)
  BY <1>1, <1>2
<1>4. QED
  BY <1>1, <1>2, <1>3, OneLine DEF Yes, No

(* _container_spec *)
LEMMA SpecRight ==
  ASSUME NEW w \in Clusters, Restarts(w)
  PROVE  ContainerSpec(w.run) \in Seq(Lines(w))
<1>1. w.run.equal <=> Meant(w, "limit_equals_request", "memory")
  BY MeansValues
<1>2. "memory" \in Values(w)
  BY DEF Values
<1>3. Line("limit_equals_request", "memory", w.run.equal) \in Lines(w)
  BY <1>1, <1>2, RunShape, Stated, RestartNames
<1>4. Either("liveness_probe_configured", w.run.probe) \in Seq(Lines(w))
  BY RunShape, MeansRestart, Plain, RestartNames
<1>5. QED
  BY <1>3, <1>4, OneLine, Joined DEF ContainerSpec

(* _instance *)
LEMMA InstanceRight ==
  ASSUME NEW w \in Clusters, Restarts(w)
  PROVE  Instance(w.run) \in Seq(Lines(w))
<1>1. w.run.code \in Values(w) /\ w.run.reason \in Values(w)
  BY DEF Values
<1>2. /\ Meant(w, "last_exit_code", w.run.code)
      /\ Meant(w, "last_termination_reason", w.run.reason)
  BY MeansValues
<1>3. /\ Line("last_exit_code", w.run.code, TRUE) \in Lines(w)
      /\ Line("last_termination_reason", w.run.reason, TRUE) \in Lines(w)
  BY <1>1, <1>2, Stated, RestartNames
<1>4. /\ YesOf("last_exit_code", w.run.code) \in Seq(Lines(w))
      /\ YesOf("last_termination_reason", w.run.reason) \in Seq(Lines(w))
  BY <1>3, OneLine DEF YesOf
<1>5. Killed(w.run) => Yes("killed_in_every_retained_life") \in Seq(Lines(w))
  BY MeansRestart, Plain, RestartNames
<1>6. When(Killed(w.run) /\ w.run.since # "inside",
           Yes("killed_in_every_retained_life") \o No("onset_observed")) \in Seq(Lines(w))
  BY <1>5, OnsetRight, Joined, Guarded
<1>7. QED
  BY <1>4, <1>6, Joined DEF Instance

(* change_onset_kb *)
LEMMA ChangeRight ==
  ASSUME NEW w
  PROVE  ChangeOnset(w.run) \in Seq(Lines(w))
<1> DEFINE changed(v) == Line("changed_before_onset", v, w.run.change = v)
<1>1. changed("image") \in Lines(w) /\ changed("resources") \in Lines(w) /\ changed("spec") \in Lines(w)
  BY OnsetRight
<1>2. ChangeOnset(w.run) =
        When(w.run.change # "none" /\ w.run.since \in {"inside", "at_start"},
             Yes("onset_observed") \o <<changed("image"), changed("resources"), changed("spec")>>)
  BY DEF ChangeOnset
<1> HIDE DEF changed
<1>3. <<changed("image"), changed("resources"), changed("spec")>> \in Seq(Lines(w))
  BY <1>1
<1>4. QED
  BY <1>2, <1>3, OnsetRight, Joined, Guarded

(* memory_report *)
LEMMA MemoryRight ==
  ASSUME NEW w \in Clusters
  PROVE  /\ Restarts(w) => Usage(w.run) \in Seq(Lines(w))
         /\ MemoryReport(w) \in Seq(Lines(w))
<1>1. Restarts(w) => Usage(w.run) \in Seq(Lines(w))
  BY MeansRestart, Plain, RestartNames, Guarded DEF Usage
<1>2. Restarts(w) /\ w.run.flat => No("memory_grows_within_life") \in Seq(Lines(w))
  BY MeansRestart, Plain, RestartNames
<1>3. Restarts(w) => When(w.run.flat, No("memory_grows_within_life")) \in Seq(Lines(w))
  BY <1>2, Guarded
<1>4. Restarts(w) => Usage(w.run) \o When(w.run.flat, No("memory_grows_within_life")) \in Seq(Lines(w))
  BY <1>1, <1>3, Joined
<1>5. QED
  BY <1>1, <1>4, Guarded DEF MemoryReport

(* restart_report *)
LEMMA RestartReportRight ==
  ASSUME NEW w \in Clusters
  PROVE  RestartReport(w) \in Seq(Lines(w))
<1> DEFINE lived == When(w.run.reason = "OOMKilled" /\ w.run.since \in {"before_events", "before_metrics"},
                         Yes("killed_in_every_retained_life"))
           began == When(w.run.since = "before_metrics",
                         No("onset_observed") \o No("healthy_period_before_kills"))
<1>1. Restarts(w) /\ w.run.reason = "OOMKilled" => Yes("killed_in_every_retained_life") \in Seq(Lines(w))
  BY MeansRestart, Plain, RestartNames DEF Killed
<1>2. Restarts(w) => lived \in Seq(Lines(w))
  BY <1>1, Guarded
<1>3. No("healthy_period_before_kills") \in Seq(Lines(w))
  BY MeansKinds, Plain, RestartNames
<1>4. began \in Seq(Lines(w))
  BY <1>3, OnsetRight, Joined, Guarded
<1>5. RestartReport(w) = When(Restarts(w), lived \o began)
  BY DEF RestartReport
<1> HIDE DEF lived, began
<1>6. QED
  BY <1>2, <1>4, <1>5, Joined, Guarded

(* pod_spec *)
LEMMA PodSpecRight ==
  ASSUME NEW w \in Clusters, NEW older \in {FALSE, w.older}, NEW sizing \in Sizings
  PROVE  PodSpec(w, older, sizing) \in Seq(Lines(w))
<1>1. When(Restarts(w) /\ sizing = "stated", Either("runtime_sizing_flags_set", w.run.sized)) \in Seq(Lines(w))
  BY RunShape, MeansRestart, Plain, RestartNames, Guarded
<1>2. ~w.placed => Either("node_selector_or_affinity_set", w.selects) \in Seq(Lines(w))
  BY PlacedOrUnplaced, MeansScheduling, Plain, FactNames DEF Unplaced
<1>3. When(w.claim.why = "none", No("pvc_not_bound")) \in Seq(Lines(w))
  <2>1. w.claim.why = "none" => ~Meant(w, "pvc_not_bound", None)
    BY MeansScheduling DEF Unbound
  <2>2. QED
    BY <2>1, Plain, FactNames, Guarded
<1>4. When(~w.placed /\ ~older, Either("node_selector_or_affinity_set", w.selects)
                                \o When(w.claim.why = "none", No("pvc_not_bound"))) \in Seq(Lines(w))
  BY <1>2, <1>3, Joined, Guarded
<1>5. QED
  BY <1>1, <1>4, Joined DEF PodSpec

(* workload_report *)
LEMMA ReportRight ==
  ASSUME NEW w \in Clusters, NEW newest \in Newest(w.claim), NEW reason \in Reasons(w)
  PROVE  WorkloadReport(w, newest, reason) \in Seq(Lines(w))
<1>1. Restarts(w) => ContainerSpec(w.run) \o Instance(w.run) \o Usage(w.run) \in Seq(Lines(w))
  BY SpecRight, InstanceRight, MemoryRight, Joined
<1>2. When(Restarts(w), ContainerSpec(w.run) \o Instance(w.run) \o Usage(w.run)) \in Seq(Lines(w))
  BY <1>1, Guarded
<1>3. When(Restarts(w), ChangeOnset(w.run)) \in Seq(Lines(w))
  BY ChangeRight, Guarded
<1>4. /\ Rollout(w, newest) \in Seq(Lines(w)) /\ Scheduled(w) \in Seq(Lines(w))
      /\ Messages(w, TRUE) \in Seq(Lines(w)) /\ NeverStarted(w, reason) \in Seq(Lines(w))
  BY RolloutRight, ScheduledRight, MessagesRight, NeverStartedRight
<1>5. QED
  BY <1>2, <1>3, <1>4, Joined DEF WorkloadReport

(* derive: whatever tool is called, its result states lines that are so.   *)
LEMMA ResultsRight ==
  ASSUME NEW w \in Clusters, NEW lines \in Results(w)
  PROVE  lines \in Seq(Lines(w))
<1> DEFINE health == {NamespaceHealth(w, n) : n \in Newest(w.claim)}
           events == {Events(w, b) : b \in BOOLEAN}
           reports == {WorkloadReport(w, n, x) : n \in Newest(w.claim), x \in Reasons(w)}
           specs == UNION {{PodSpec(w, b, c) : c \in Sizings} : b \in {FALSE, w.older}}
           claims == {PvcSummaries(w, n) : n \in Newest(w.claim)}
           metrics == {MemoryReport(w), RestartReport(w)}
<1>1. health \subseteq Seq(Lines(w))
  BY RolloutRight DEF NamespaceHealth
<1>2. events \subseteq Seq(Lines(w))
  <2>1. \A b \in BOOLEAN : Events(w, b) \in Seq(Lines(w))
    BY ScheduledRight, MessagesRight, Joined DEF Events
  <2>2. QED
    BY <2>1
<1>3. reports \subseteq Seq(Lines(w))
  BY ReportRight
<1>4. specs \subseteq Seq(Lines(w))
  <2>1. ASSUME NEW b \in {FALSE, w.older}
        PROVE  {PodSpec(w, b, c) : c \in Sizings} \subseteq Seq(Lines(w))
    BY PodSpecRight
  <2>2. QED
    BY <2>1
<1>5. claims \subseteq Seq(Lines(w))
  BY PvcRight
<1>6. metrics \subseteq Seq(Lines(w))
  BY MemoryRight, RestartReportRight
<1>7. Results(w) = health \cup events \cup reports \cup specs \cup claims \cup metrics
  BY DEF Results
<1> HIDE DEF health, events, reports, specs, claims, metrics
<1>8. QED
  BY <1>1, <1>2, <1>3, <1>4, <1>5, <1>6, <1>7

-----------------------------------------------------------------------------
(* Investigation: what is recorded, and what `open` read of it.            *)

(* What the agent may record, cmd_fact: no value, and no reserved fact.    *)
Tales == {Line(f, None, t) : f \in Tellable \ Reserved, t \in BOOLEAN}

(* An earlier file is the beginning of a later one. *)
Before(s, t) == Len(s) <= Len(t) /\ \A i \in 1..Len(s) : s[i] = t[i]

Recorded ==
  /\ cluster \in Clusters
  /\ derived \in Seq(Lines(cluster))
  /\ told \in Seq(Tales)

Read ==
  /\ asked = <<asked[1], asked[2]>>
  /\ asked[1] \in Seq(Lines(cluster)) /\ asked[2] \in Seq(Tales)
  /\ Before(asked[1], derived) /\ Before(asked[2], told)

Answered ==
  \/ rows = <<>>
  \/ \E s \in Shown(cluster) : rows = Opened(Store(asked[1], asked[2]), Widened[s])

InvestigationInv == Recorded /\ Read /\ Answered

(* A file that grows. *)
LEMMA BeforeMore ==
  ASSUME NEW R, NEW r \in Seq(R), NEW s \in Seq(R), NEW t \in Seq(R), Before(r, s)
  PROVE  Before(r, s \o t) /\ Before(s, s)
  BY DEF Before

LEMMA InvestigationInitially == InvestigationInit => InvestigationInv
<1> SUFFICES ASSUME InvestigationInit PROVE InvestigationInv
  OBVIOUS
<1>1. Recorded
  BY DEF InvestigationInit, Recorded
<1>2. Read
  BY DEF InvestigationInit, Read, Before
<1>3. QED
  BY <1>1, <1>2 DEF InvestigationInv, InvestigationInit, Answered

(* Each step leaves the file, what was read of it, and the rows in order. *)
LEMMA InvestigationStep == InvestigationInv /\ [InvestigationNext]_investigationVars => InvestigationInv'
<1> SUFFICES ASSUME InvestigationInv, [InvestigationNext]_investigationVars PROVE InvestigationInv'
  OBVIOUS
<1> USE DEF InvestigationInv
<1>1. CASE CallTool
  <2>1. PICK lines \in Results(cluster) : derived' = derived \o lines
    BY <1>1 DEF CallTool
  <2>2. UNCHANGED <<cluster, told, rows, asked>>
    BY <1>1 DEF CallTool
  <2>3. lines \in Seq(Lines(cluster))
    BY <2>1, ResultsRight DEF Recorded
  <2>4. Recorded'
    <3>1. derived' \in Seq(Lines(cluster))
      BY <2>1, <2>3, Joined DEF Recorded
    <3>2. QED
      BY <2>2, <3>1 DEF Recorded
  <2>5. Read'
    <3>1. Before(asked[1], derived')
      BY <2>1, <2>3, BeforeMore DEF Recorded, Read
    <3>2. QED
      BY <2>2, <3>1 DEF Read
  <2>6. Answered'
    BY <2>2 DEF Answered
  <2>7. QED
    BY <2>4, <2>5, <2>6
<1>2. CASE Tell
  <2>1. PICK l \in Tales : told' = Append(told, l)
    BY <1>2 DEF Tell, Tales
  <2>2. UNCHANGED <<cluster, derived, rows, asked>>
    BY <1>2 DEF Tell
  <2>3. Recorded'
    <3>1. told' \in Seq(Tales)
      BY <2>1 DEF Recorded
    <3>2. QED
      BY <2>2, <3>1 DEF Recorded
  <2>4. Read'
    <3>1. Before(asked[2], told')
      BY <2>1 DEF Recorded, Read, Before
    <3>2. QED
      BY <2>2, <3>1 DEF Read
  <2>5. Answered'
    BY <2>2 DEF Answered
  <2>6. QED
    BY <2>3, <2>4, <2>5
<1>3. CASE Open
  <2>1. PICK s \in Shown(cluster) : rows' = Opened(Store(derived, told), Widened[s])
    BY <1>3 DEF Open
  <2>2. asked' = <<derived, told>> /\ UNCHANGED <<cluster, derived, told>>
    BY <1>3 DEF Open
  <2>3. Recorded'
    BY <2>2 DEF Recorded
  <2>4. Read'
    <3>1. Before(derived, derived) /\ Before(told, told)
      BY DEF Recorded, Before
    <3>2. asked'[1] = derived /\ asked'[2] = told
      BY <2>2
    <3>3. QED
      BY <2>2, <3>1, <3>2 DEF Recorded, Read
  <2>5. Answered'
    BY <2>1, <2>2 DEF Answered
  <2>6. QED
    BY <2>3, <2>4, <2>5
<1>4. CASE UNCHANGED investigationVars
  BY <1>4 DEF investigationVars, Recorded, Read, Answered
<1>5. QED
  BY <1>1, <1>2, <1>3, <1>4 DEF InvestigationNext

(* The lines of facts.jsonl are right, or such as FactsTrue leaves out;    *)
(* and the last `open` read the beginning of them.                         *)
THEOREM InvestigationInvHolds == InvestigationSpec => []InvestigationInv
  BY InvestigationInitially, InvestigationStep, PTL DEF InvestigationSpec

LEMMA ElementsIn == ASSUME NEW R, NEW s \in Seq(R) PROVE Elements(s) \subseteq R
  BY DEF Elements

(* derive.py: what any tool's result states is so, for any finite number   *)
(* of nodes, of any incident and after any calls, however little of the    *)
(* cluster each result showed.                                             *)
THEOREM FactsTrueHolds == InvestigationSpec => []FactsTrue
<1>1. InvestigationInv => FactsTrue
  <2>1. SUFFICES ASSUME InvestigationInv, NEW l \in Wrong(cluster, derived)
        PROVE  Contested(cluster, l)
    BY DEF FactsTrue
  <2>2. l \in Lines(cluster)
    BY <2>1, ElementsIn DEF InvestigationInv, Recorded, Wrong
  <2>3. l.t # Meant(cluster, l.f, l.v)
    BY <2>1 DEF Wrong, Meant
  <2>4. l.t \in BOOLEAN /\ ((l.t <=> Meant(cluster, l.f, l.v)) \/ Contested(cluster, l))
    BY <2>2 DEF Lines
  <2>5. Meant(cluster, l.f, l.v) \in BOOLEAN
    BY DEF Meant, Holds
  <2>6. QED
    BY <2>3, <2>4, <2>5
<1>2. QED
  BY <1>1, InvestigationInvHolds, PTL

-----------------------------------------------------------------------------
(* Investigation: what lines may rule out.                                 *)

Sound(w, l) ==
  /\ l.t \in BOOLEAN
  /\ (l.t <=> Meant(w, l.f, l.v)) \/ Contested(w, l)
  /\ l.f = "waiting_reason" => l.t
  /\ l.f = "scheduling_message_cites_insufficient_resource" => l.v \in {"cpu", "memory"}

(* What `open` goes by is right, when what the agent recorded is. *)
LEMMA StoreSound ==
  ASSUME NEW w, NEW d \in Seq(Lines(w)), NEW t \in Seq(Tales), Wrong(w, t) = {}
  PROVE  \A l \in Store(d, t) : Sound(w, l)
<1>1. Store(d, t) \subseteq Elements(d) \cup Elements(t)
  BY DEF Store, Parse, Elements
<1>2. ASSUME NEW l \in Elements(d) PROVE Sound(w, l)
  <2>1. l \in Lines(w)
    BY ElementsIn
  <2>2. QED
    BY <2>1 DEF Lines, Sound
<1>3. ASSUME NEW l \in Elements(t) PROVE Sound(w, l)
  <2>1. PICK f \in Tellable \ Reserved, b \in BOOLEAN : l = Line(f, None, b)
    BY ElementsIn DEF Tales
  <2>2. l.f = f /\ l.t = b
    BY <2>1 DEF Line
  <2>3. f \notin {"waiting_reason", "scheduling_message_cites_insufficient_resource"}
    BY <2>1, InvestigationAssumption DEF Valued, Functional
  <2>4. l.t <=> Meant(w, l.f, l.v)
    BY <2>2 DEF Wrong, Meant, Holds
  <2>5. QED
    BY <2>2, <2>3, <2>4 DEF Sound
<1>4. QED
  BY <1>1, <1>2, <1>3

(* How a condition comes to be true. *)
LEMMA ValueTrue ==
  ASSUME NEW store, NEW c, T \in Value(store, c)
  PROVE  \/ \E l \in Hits(store, c) : Judged(c, l) = T
         \/ /\ Hits(store, c) = {} /\ c.neg /\ c.f \in Functional /\ c.v # Some
            /\ \E l \in store : l.f = c.f /\ l.v # c.v /\ l.t
<1> DEFINE hits == Hits(store, c)
           otherwise == c.f \in Functional /\ c.v # Some /\ \E l \in store : l.f = c.f /\ l.v # c.v /\ l.t
<1>1. CASE hits # {}
  <2>1. Value(store, c) = {Judged(c, l) : l \in hits}
    BY <1>1 DEF Value
  <2>2. QED
    BY <2>1
<1>2. CASE hits = {} /\ otherwise
  <2>1. Value(store, c) = {Truth(c.neg)}
    BY <1>2 DEF Value
  <2>2. c.neg
    BY <2>1 DEF Truth, T, F
  <2>3. QED
    BY <1>2, <2>2
<1>3. CASE hits = {} /\ ~otherwise
  <2>1. Value(store, c) = {U}
    BY <1>3 DEF Value
  <2>2. QED
    BY <2>1 DEF T, U
<1>4. QED
  BY <1>1, <1>2, <1>3

(* What no line states wrongly. *)
Settled(f) == f \notin Reserved /\ f # "untolerated_noschedule_taint_on_all_candidate_nodes"

(* A condition that does not hold is not seen to. *)
LEMMA NotSeen ==
  ASSUME NEW w, NEW store, \A l \in store : Sound(w, l),
         NEW f, Settled(f), NEW v, v # Some, ~Meant(w, f, v)
  PROVE  T \notin Value(store, Of(f, v))
<1> DEFINE c == Of(f, v)
<1>1. c = [f |-> f, v |-> v, neg |-> FALSE, ne |-> {}]
  BY DEF Of
<1>2. \A l \in Hits(store, c) : Judged(c, l) = F
  <2>1. SUFFICES ASSUME NEW l \in Hits(store, c) PROVE Judged(c, l) = F
    OBVIOUS
  <2>2. l \in store /\ l.f = f /\ l.v = v
    BY <1>1 DEF Hits
  <2>3. ~l.t
    BY <2>2 DEF Sound, Contested, Settled
  <2>4. QED
    BY <1>1, <2>3 DEF Judged, Truth
<1>3. ~(c.neg /\ c.f \in Functional /\ c.v # Some)
  BY <1>1 DEF Functional
<1>4. T \notin Value(store, c)
  <2> HIDE DEF c
  <2>1. QED
    BY <1>2, <1>3, ValueTrue DEF T, F
<1>5. QED
  BY <1>4

(* One that holds is not seen not to. *)
LEMMA NotUnseen ==
  ASSUME NEW w, NEW store, \A l \in store : Sound(w, l),
         NEW f, Settled(f), f \notin Functional, Meant(w, f, None)
  PROVE  T \notin Value(store, Not(Is(f)))
<1> DEFINE c == Not(Is(f))
<1>1. c = [f |-> f, v |-> None, neg |-> TRUE, ne |-> {}]
  BY DEF Not, Is, Of
<1>2. \A l \in Hits(store, c) : Judged(c, l) = F
  <2>1. SUFFICES ASSUME NEW l \in Hits(store, c) PROVE Judged(c, l) = F
    OBVIOUS
  <2>2. l \in store /\ l.f = f /\ l.v = None
    BY <1>1 DEF Hits, Some, None
  <2>3. l.t = TRUE
    BY <2>2 DEF Sound, Contested, Settled
  <2>4. QED
    BY <1>1, <2>3 DEF Judged, Truth, T, F
<1>3. ~(c.neg /\ c.f \in Functional /\ c.v # Some)
  BY <1>1 DEF Functional
<1>4. T \notin Value(store, c)
  <2> HIDE DEF c
  <2>1. QED
    BY <1>2, <1>3, ValueTrue DEF T, F
<1>5. QED
  BY <1>4

(* A fact with some value, or with some value but one. *)
LEMMA NoneSeen ==
  ASSUME NEW w, NEW store, \A l \in store : Sound(w, l),
         NEW f, Settled(f), NEW lits, \A v : Meant(w, f, v) => v \in lits
  PROVE  T \notin Value(store, But(f, lits))
<1> DEFINE c == But(f, lits)
<1>1. c = [f |-> f, v |-> Some, neg |-> FALSE, ne |-> lits]
  BY DEF But
<1>2. \A l \in Hits(store, c) : Judged(c, l) # T
  <2>1. SUFFICES ASSUME NEW l \in Hits(store, c) PROVE Judged(c, l) # T
    OBVIOUS
  <2>2. l \in store /\ l.f = f
    BY <1>1 DEF Hits
  <2>3. ~l.t \/ l.v \in lits
    BY <2>2 DEF Sound, Contested, Settled
  <2>4. QED
    BY <1>1, <2>3 DEF Judged, Truth, T, U, F
<1>3. ~(c.neg /\ c.f \in Functional /\ c.v # Some)
  BY <1>1 DEF Functional
<1>4. T \notin Value(store, c)
  <2> HIDE DEF c
  <2>1. QED
    BY <1>2, <1>3, ValueTrue DEF T, F
<1>5. QED
  BY <1>4

(* The shortage, when all a message can name is short. *)
LEMMA AllShort ==
  ASSUME NEW w, NEW store, \A l \in store : Sound(w, l),
         \A v \in {"cpu", "memory"} : Meant(w, "scheduling_message_cites_insufficient_resource", v)
  PROVE  T \notin Value(store, Not(Short))
<1> DEFINE c == Not(Short)
<1>1. c = [f |-> "scheduling_message_cites_insufficient_resource", v |-> Some, neg |-> TRUE, ne |-> {}]
  BY DEF Not, Short, Of, Is
<1>2. \A l \in Hits(store, c) : Judged(c, l) = F
  <2>1. SUFFICES ASSUME NEW l \in Hits(store, c) PROVE Judged(c, l) = F
    OBVIOUS
  <2>2. l \in store /\ l.f = "scheduling_message_cites_insufficient_resource"
    BY <1>1 DEF Hits
  <2>3. l.t = TRUE
    BY <2>2 DEF Sound, Contested, Reserved
  <2>4. QED
    BY <1>1, <2>3 DEF Judged, Truth, T, F
<1>3. ~(c.neg /\ c.f \in Functional /\ c.v # Some)
  BY <1>1 DEF Functional
<1>4. T \notin Value(store, c)
  <2> HIDE DEF c
  <2>1. QED
    BY <1>2, <1>3, ValueTrue DEF T, F
<1>5. QED
  BY <1>4

-----------------------------------------------------------------------------
(* Investigation: what explains an incident is not ruled out.              *)

(* An incident, and lines that are right about it. *)
Told(w, store) == w \in Clusters /\ \A l \in store : Sound(w, l)

(* Both, of a fact without a value. *)
LEMMA Plainly ==
  ASSUME NEW w, NEW store, Told(w, store), NEW f, Settled(f)
  PROVE  /\ ~Meant(w, f, None) => T \notin Value(store, Is(f))
         /\ Meant(w, f, None) /\ f \notin Functional => T \notin Value(store, Not(Is(f)))
<1>1. None # Some
  BY DEF None, Some
<1>2. ~Meant(w, f, None) => T \notin Value(store, Of(f, None))
  BY <1>1, NotSeen DEF Told
<1>3. QED
  BY <1>2, NotUnseen DEF Told, Is

(* No plugin saw a node that none matches, and none has room on one. *)
LEMMA UnplacedCauses ==
  ASSUME NEW w, Unplaced(w), NEW c \in Causes(w)
  PROVE  \/ c = "pod_not_scheduled"
         \/ Immediate(w) /\ c = "unbound_persistent_volume_claim"
         \/ Immediate(w) /\ w.claim.why = "class_missing" /\ c = "requested_storage_class_does_not_exist"
         \/ Immediate(w) /\ w.claim.why = "no_class" /\ c = "no_class_requested_and_no_default_class"
         \/ Immediate(w) /\ w.claim.why = "provisioning" /\ c = "volume_provisioning_failed"
         \/ Immediate(w) /\ w.claim.why = "provisioner_down" /\ c = "storage_class_provisioner_not_running"
         \/ /\ ~Immediate(w) /\ c = "node_selector_or_affinity_matches_no_node"
            /\ \A n \in Nodes : ~w.nodes[n].match
         \/ /\ ~Immediate(w) /\ c = "untolerated_node_taint"
            /\ \E n \in Nodes : w.nodes[n].match /\ w.nodes[n].taint
         \/ /\ ~Immediate(w) /\ c = "insufficient_cluster_resources"
            /\ \E n \in Nodes : w.nodes[n].match /\ ~w.nodes[n].taint
<1> DEFINE match == {n \in Nodes : w.nodes[n].match}
           node == IF match = {} THEN "node_selector_or_affinity_matches_no_node"
                   ELSE IF \A n \in match : w.nodes[n].taint THEN "untolerated_node_taint"
                   ELSE "insufficient_cluster_resources"
           claim == CASE w.claim.why = "class_missing" -> "requested_storage_class_does_not_exist"
                      [] w.claim.why = "no_class" -> "no_class_requested_and_no_default_class"
                      [] w.claim.why = "provisioning" -> "volume_provisioning_failed"
                      [] OTHER -> "storage_class_provisioner_not_running"
<1>1. c \in {"pod_not_scheduled"} \cup (IF Immediate(w) THEN {"unbound_persistent_volume_claim", claim} ELSE {node})
  BY DEF Causes, Unplaced
<1>2. c = "pod_not_scheduled" \/ (Immediate(w) /\ c \in {"unbound_persistent_volume_claim", claim}) \/ (~Immediate(w) /\ c = node)
  <2> HIDE DEF claim, node
  <2>1. QED
    BY <1>1
<1>3. Immediate(w) => w.claim.why \in {"class_missing", "no_class", "provisioning", "provisioner_down"}
  BY DEF Immediate, Unbound, Unplaced, ClaimStates, NoClaim
<1>4. CASE Immediate(w)
  BY <1>2, <1>3, <1>4
<1>5. CASE ~Immediate(w) /\ c = node
  <2>1. node = "node_selector_or_affinity_matches_no_node" => \A n \in Nodes : ~w.nodes[n].match
    OBVIOUS
  <2>2. node = "untolerated_node_taint" => \E n \in Nodes : w.nodes[n].match /\ w.nodes[n].taint
    OBVIOUS
  <2>3. node = "insufficient_cluster_resources" => \E n \in Nodes : w.nodes[n].match /\ ~w.nodes[n].taint
    OBVIOUS
  <2>4. node \in {"node_selector_or_affinity_matches_no_node", "untolerated_node_taint", "insufficient_cluster_resources"}
    OBVIOUS
  <2> HIDE DEF node
  <2>5. QED
    BY <1>5, <2>1, <2>2, <2>3, <2>4
<1>6. QED
  BY <1>2, <1>4, <1>5

(* What explains a pod without a node, but for its claim. *)
LEMMA NodesKept ==
  ASSUME NEW w, NEW store, Told(w, store), Unplaced(w), ~CitesOne(w)
  PROVE  /\ ~RuledOut(store, Claims["pod_not_scheduled"])
         /\ ~Immediate(w) /\ (\A n \in Nodes : ~w.nodes[n].match)
            => ~RuledOut(store, Claims["node_selector_or_affinity_matches_no_node"])
         /\ ~Immediate(w) /\ (\E n \in Nodes : w.nodes[n].match /\ w.nodes[n].taint)
            => ~RuledOut(store, Claims["untolerated_node_taint"])
         /\ ~Immediate(w) /\ (\E n \in Nodes : w.nodes[n].match /\ ~w.nodes[n].taint)
            => ~RuledOut(store, Claims["insufficient_cluster_resources"])
<1>1. /\ T \notin Value(store, Not(Unscheduled)) /\ T \notin Value(store, Waits)
      /\ ~Immediate(w) => T \notin Value(store, Rejected)
  BY Plainly, MeansScheduling, MeansStart DEF Unplaced, Unscheduled, Waits, Rejected, Settled, Reserved, Functional
<1>2. ~RuledOut(store, Claims["pod_not_scheduled"])
  BY <1>1 DEF RuledOut, IsTrue, Claims, PodNotScheduled, Explanation
<1>3. ASSUME ~Immediate(w), \A n \in Nodes : ~w.nodes[n].match
      PROVE  ~RuledOut(store, Claims["node_selector_or_affinity_matches_no_node"])
  <2>1. w.selects
    BY <1>3, InvestigationAssumption DEF Unplaced
  <2>2. /\ T \notin Value(store, Not(Is("node_selector_or_affinity_set")))
        /\ T \notin Value(store, Not(NoMatch))
    BY <1>3, <2>1, Plainly, MeansScheduling DEF NoMatch, Settled, Reserved, Functional
  <2>3. QED
    BY <1>1, <1>3, <2>2 DEF RuledOut, IsTrue, Claims, NodeSelectorOrAffinityMatchesNoNode, Explanation
<1>4. ASSUME ~Immediate(w), NEW n \in Nodes, w.nodes[n].match, w.nodes[n].taint
      PROVE  ~RuledOut(store, Claims["untolerated_node_taint"])
  <2>1. "taint" \in Message(w).why[n]
    BY <1>4, MessageOf
  <2>2. T \notin Value(store, Not(CitesTaint)) /\ T \notin Value(store, NoMatch)
    BY <1>4, <2>1, Plainly, MeansScheduling DEF Unplaced, CitesTaint, NoMatch, Settled, Reserved, Functional
  <2>3. QED
    BY <1>1, <1>4, <2>2 DEF RuledOut, IsTrue, Claims, UntoleratedNodeTaint, Explanation
<1>5. ASSUME ~Immediate(w), NEW n \in Nodes, w.nodes[n].match, ~w.nodes[n].taint
      PROVE  ~RuledOut(store, Claims["insufficient_cluster_resources"])
  <2> DEFINE all == UNION {Message(w).why[m] : m \in Nodes}
             cited == {"cpu", "memory"} \cap all
  <2>1. Message(w).why[n] = w.nodes[n].short /\ w.nodes[n].short # {}
    <3>1. Refusal(w.nodes[n]) = w.nodes[n].short
      BY <1>5 DEF Refusal
    <3>2. Message(w).why[n] = Refusal(w.nodes[n])
      BY <1>5 DEF Message
    <3>3. QED
      BY <1>5, <3>1, <3>2 DEF Unplaced
  <2>2. w.nodes[n].short \in {{"cpu"}, {"cpu", "memory"}}
    BY <2>1 DEF Unplaced, NodeStates
  <2>3. "cpu" \in cited
    BY <2>1, <2>2
  <2>4. "memory" \in cited
    <3>1. Cardinality(cited) # 1
      <4>1. ~w.placed
        BY DEF Unplaced
      <4>2. QED
        BY <4>1 DEF CitesOne
    <3>2. cited # {"cpu"}
      BY <3>1, FS_Singleton
    <3>3. QED
      BY <2>3, <3>2
  <2>5. \A v \in {"cpu", "memory"} : Meant(w, "scheduling_message_cites_insufficient_resource", v)
    BY <2>3, <2>4, MeansValues DEF Unplaced
  <2>6. T \notin Value(store, Not(Short))
    BY <2>5, AllShort DEF Told
  <2>7. QED
    BY <1>1, <1>5, <2>6 DEF RuledOut, IsTrue, Claims, InsufficientClusterResources, Explanation
<1>6. QED
  BY <1>2, <1>3, <1>4, <1>5

(* The claim's newest event alternates among kinds of one reason. *)
LEMMA ClaimsKept ==
  ASSUME NEW w, NEW store, Told(w, store), Unplaced(w), Immediate(w)
  PROVE  /\ ~RuledOut(store, Claims["unbound_persistent_volume_claim"])
         /\ w.claim.why = "class_missing" => ~RuledOut(store, Claims["requested_storage_class_does_not_exist"])
         /\ w.claim.why = "no_class" => ~RuledOut(store, Claims["no_class_requested_and_no_default_class"])
         /\ w.claim.why = "provisioning" => ~RuledOut(store, Claims["volume_provisioning_failed"])
         /\ w.claim.why = "provisioner_down" => ~RuledOut(store, Claims["storage_class_provisioner_not_running"])
<1>1. Unbound(w)
  BY DEF Immediate
<1>2. \A k \in ClaimKinds : k \notin w.claim.kinds => T \notin Value(store, Is(k))
  <2>1. \A k \in ClaimKinds : Settled(k)
    BY DEF ClaimKinds, Settling, Settled, Reserved
  <2>2. QED
    BY <2>1, Plainly, MeansKinds
<1>3. ~RuledOut(store, Claims["unbound_persistent_volume_claim"])
  <2>1. T \notin Value(store, Not(NotBound)) /\ T \notin Value(store, Not(Unscheduled))
    BY <1>1, Plainly, MeansScheduling DEF Unplaced, NotBound, Unscheduled, Settled, Reserved, Functional
  <2>2. QED
    BY <2>1 DEF RuledOut, IsTrue, Claims, UnboundPersistentVolumeClaim, Explanation
<1>4. ASSUME w.claim.why = "class_missing"
      PROVE  ~RuledOut(store, Claims["requested_storage_class_does_not_exist"])
  <2>1. w.claim.kinds = {"claim_event_storage_class_not_found"}
    BY <1>4 DEF Unplaced, ClaimStates, NoClaim
  <2>2. /\ T \notin Value(store, NoVolumeNoClass) /\ T \notin Value(store, ProvisionerFails)
        /\ T \notin Value(store, WaitsForProvisioner) /\ T \notin Value(store, WaitsForConsumer)
    BY <1>2, <2>1 DEF ClaimKinds, Settling, NoVolumeNoClass, ProvisionerFails, WaitsForProvisioner, WaitsForConsumer
  <2>3. QED
    BY <2>2 DEF RuledOut, IsTrue, Claims, RequestedStorageClassDoesNotExist, Explanation
<1>5. ASSUME w.claim.why = "no_class"
      PROVE  ~RuledOut(store, Claims["no_class_requested_and_no_default_class"])
  <2>1. \A v : ~Meant(w, "claim_storage_class_requested", v)
    BY <1>5, MeansValues
  <2>2. T \notin Value(store, But("claim_storage_class_requested", {}))
    BY <2>1, NoneSeen DEF Told, Settled, Reserved
  <2>3. Of("claim_storage_class_requested", Some) = But("claim_storage_class_requested", {})
    BY DEF Of, But
  <2>4. QED
    BY <2>2, <2>3 DEF RuledOut, IsTrue, Claims, NoClassRequestedAndNoDefaultClass, Explanation
<1>6. ASSUME w.claim.why = "provisioning"
      PROVE  ~RuledOut(store, Claims["volume_provisioning_failed"])
  <2>1. w.claim.kinds \subseteq {"claim_event_provisioner_error", "claim_event_waiting_external_provisioner"}
    BY <1>6 DEF Unplaced, ClaimStates, NoClaim
  <2>2. /\ T \notin Value(store, ClassNotFound) /\ T \notin Value(store, WaitsForConsumer)
        /\ T \notin Value(store, NoVolumeNoClass)
    BY <1>2, <2>1 DEF ClaimKinds, Settling, ClassNotFound, WaitsForConsumer, NoVolumeNoClass
  <2>3. QED
    BY <2>2 DEF RuledOut, IsTrue, Claims, VolumeProvisioningFailed, Explanation
<1>7. ASSUME w.claim.why = "provisioner_down"
      PROVE  ~RuledOut(store, Claims["storage_class_provisioner_not_running"])
  <2>1. w.claim.kinds \subseteq {"claim_event_waiting_external_provisioner"}
    BY <1>7 DEF Unplaced, ClaimStates, NoClaim
  <2>2. /\ T \notin Value(store, ClassNotFound) /\ T \notin Value(store, ProvisionerFails)
        /\ T \notin Value(store, WaitsForConsumer)
    BY <1>2, <2>1 DEF ClaimKinds, Settling, ClassNotFound, ProvisionerFails, WaitsForConsumer
  <2>3. QED
    BY <2>2 DEF RuledOut, IsTrue, Claims, StorageClassProvisionerNotRunning, Explanation
<1>8. QED
  BY <1>3, <1>4, <1>5, <1>6, <1>7

(* What may explain a container that does not start. *)
LEMMA StartingCauses ==
  ASSUME NEW w, Starting(w), NEW c \in Causes(w)
  PROVE  \/ w.pull # {None} /\ c = "image_pull_failure"
         \/ w.pull # {None} /\ c = "image_not_found_in_registry" /\ "pull_message_names_image_not_found" \in w.pull
         \/ /\ w.pull # {None} /\ c = "registry_network_or_auth_problem"
            /\ w.pull # {} /\ "pull_message_names_image_not_found" \notin w.pull
         \/ w.pull = {None} /\ c = "volume_not_attached_or_mounted"
         \/ w.pull = {None} /\ c = "csi_mount_failure" /\ w.mount = "mount_message_names_csi_error"
         \/ w.pull = {None} /\ c = "volume_permission_denied" /\ w.mount = "mount_message_names_permission_denied"
         \/ w.pull = {None} /\ c = "volume_already_attached_to_another_node" /\ w.mount = "multi_attach"
<1> DEFINE mount == CASE w.mount = "mount_message_names_csi_error" -> {"csi_mount_failure"}
                      [] w.mount = "mount_message_names_permission_denied" -> {"volume_permission_denied"}
                      [] w.mount = "multi_attach" -> {"volume_already_attached_to_another_node"}
                      [] OTHER -> {}
           pull == IF "pull_message_names_image_not_found" \in w.pull THEN {"image_not_found_in_registry"}
                   ELSE IF w.pull # {} THEN {"registry_network_or_auth_problem"} ELSE {}
<1>1. ~Restarts(w) /\ w.placed
  BY DEF Starting, Placed
<1>2. w.pull # {None} => c \in {"image_pull_failure"} \cup pull
  BY <1>1 DEF Causes
<1>3. w.pull = {None} => c \in {"volume_not_attached_or_mounted"} \cup mount
  BY <1>1 DEF Causes
<1>4. CASE w.pull # {None}
  BY <1>2, <1>4
<1>5. CASE w.pull = {None}
  BY <1>3, <1>5
<1>6. QED
  BY <1>4, <1>5

(* No refusal names one failure and states another. *)
LEMMA PullKept ==
  ASSUME NEW w, NEW store, Told(w, store), Starting(w), w.pull # {None}
  PROVE  /\ ~RuledOut(store, Claims["image_pull_failure"])
         /\ "pull_message_names_image_not_found" \in w.pull
            => ~RuledOut(store, Claims["image_not_found_in_registry"])
         /\ w.pull # {} /\ "pull_message_names_image_not_found" \notin w.pull
            => ~RuledOut(store, Claims["registry_network_or_auth_problem"])
<1>1. w.pull \in Refusals
  BY DEF Starting
<1>2. \A k \in PullKinds : /\ k \notin w.pull => T \notin Value(store, Is(k))
                           /\ k \in w.pull => T \notin Value(store, Not(Is(k)))
  <2>1. \A k \in PullKinds : Settled(k) /\ k \notin Functional
    BY DEF PullKinds, NotFound, Settled, Reserved, Functional
  <2>2. QED
    BY <2>1, Plainly, MeansKinds
<1>3. ~RuledOut(store, Claims["image_pull_failure"])
  <2>1. T \notin Value(store, Not(Is("image_pull_failure_event")))
    BY Plainly, MeansStart DEF Settled, Reserved, Functional
  <2>2. QED
    BY <2>1 DEF RuledOut, IsTrue, Claims, ImagePullFailure, Explanation
<1>4. ASSUME "pull_message_names_image_not_found" \in w.pull
      PROVE  ~RuledOut(store, Claims["image_not_found_in_registry"])
  <2>1. "pull_message_names_connection_failure" \notin w.pull
    BY <1>1, <1>4 DEF Refusals
  <2>2. T \notin Value(store, ConnectionFails)
    BY <1>2, <2>1 DEF PullKinds, NotFound, ConnectionFails
  <2>3. QED
    BY <2>2 DEF RuledOut, IsTrue, Claims, ImageNotFoundInRegistry, Explanation
<1>5. ASSUME w.pull # {}, "pull_message_names_image_not_found" \notin w.pull
      PROVE  ~RuledOut(store, Claims["registry_network_or_auth_problem"])
  <2>1. \/ "pull_message_names_connection_failure" \in w.pull
        \/ "pull_message_names_unauthorized" \in w.pull
        \/ "pull_message_names_forbidden" \in w.pull
    BY <1>1, <1>5 DEF Refusals
  <2>2. \/ T \notin Value(store, Not(ConnectionFails))
        \/ T \notin Value(store, Not(Unauthorized))
        \/ T \notin Value(store, Not(Forbidden))
    BY <1>2, <2>1 DEF PullKinds, NotFound, ConnectionFails, Unauthorized, Forbidden
  <2>3. QED
    BY <2>2 DEF RuledOut, IsTrue, Claims, RegistryNetworkOrAuthProblem, Explanation
<1>6. QED
  BY <1>3, <1>4, <1>5

(* Nor does a mount's failure. *)
LEMMA MountKept ==
  ASSUME NEW w, NEW store, Told(w, store), Starting(w), w.pull = {None}
  PROVE  /\ ~RuledOut(store, Claims["volume_not_attached_or_mounted"])
         /\ w.mount = "mount_message_names_csi_error" => ~RuledOut(store, Claims["csi_mount_failure"])
         /\ w.mount = "mount_message_names_permission_denied" => ~RuledOut(store, Claims["volume_permission_denied"])
         /\ w.mount = "multi_attach" => ~RuledOut(store, Claims["volume_already_attached_to_another_node"])
<1>1. \A k \in MountKinds : k # w.mount => T \notin Value(store, Is(k))
  <2>1. \A k \in MountKinds : Settled(k)
    BY DEF MountKinds, Settled, Reserved
  <2>2. QED
    BY <2>1, Plainly, MeansKinds
<1>2. ~RuledOut(store, Claims["volume_not_attached_or_mounted"])
  <2>1. T \notin Value(store, Unscheduled)
    BY Plainly, MeansScheduling DEF Starting, Placed, Unscheduled, Settled, Reserved
  <2>2. ASSUME NEW v \in {"ImagePullBackOff", "ErrImagePull"} PROVE T \notin Value(store, Waiting(v))
    <3>1. ~Meant(w, "waiting_reason", v)
      BY MeansValues DEF Reasons
    <3>2. v # Some
      BY DEF Some
    <3>3. QED
      BY <3>1, <3>2, NotSeen DEF Told, Waiting, Settled, Reserved
  <2>3. QED
    BY <2>1, <2>2 DEF RuledOut, IsTrue, Claims, VolumeNotAttachedOrMounted, Explanation
<1>3. ASSUME w.mount = "mount_message_names_csi_error" PROVE ~RuledOut(store, Claims["csi_mount_failure"])
  <2>1. T \notin Value(store, MissingVolume) /\ T \notin Value(store, PermissionDenied)
    BY <1>1, <1>3 DEF MountKinds, MissingVolume, PermissionDenied
  <2>2. QED
    BY <2>1 DEF RuledOut, IsTrue, Claims, CsiMountFailure, Explanation
<1>4. ASSUME w.mount = "mount_message_names_permission_denied" PROVE ~RuledOut(store, Claims["volume_permission_denied"])
  <2>1. T \notin Value(store, CsiError)
    BY <1>1, <1>4 DEF MountKinds, CsiError
  <2>2. QED
    BY <2>1 DEF RuledOut, IsTrue, Claims, VolumePermissionDenied, Explanation
<1>5. ASSUME w.mount = "multi_attach" PROVE ~RuledOut(store, Claims["volume_already_attached_to_another_node"])
  <2>1. T \notin Value(store, Not(Is("volume_access_mode_is_readwriteonce")))
    BY <1>5, Plainly, MeansStart DEF Settled, Reserved, Functional
  <2>2. QED
    BY <2>1 DEF RuledOut, IsTrue, Claims, VolumeAlreadyAttachedToAnotherNode, Explanation
<1>6. QED
  BY <1>2, <1>3, <1>4, <1>5

(* What may explain one that restarts. *)
LEMMA RestartingCauses ==
  ASSUME NEW w, Restarting(w), NEW c \in Causes(w)
  PROVE  \/ w.run.cause \in Memory /\ c = "oom_kill"
         \/ w.run.cause = "low" /\ c = "memory_limit_too_low"
         \/ w.run.cause = "leak" /\ c = "memory_leak"
         \/ w.run.cause = "spike" /\ c = "workload_spike"
         \/ w.run.cause = "crash" /\ c = "application_crash"
         \/ w.run.cause = "config" /\ c = "bad_config"
         \/ w.run.cause = "liveness" /\ c = "failed_liveness_probe"
<1> DEFINE causes == CASE w.run.cause = "low" -> {"oom_kill", "memory_limit_too_low"}
                       [] w.run.cause = "leak" -> {"oom_kill", "memory_leak"}
                       [] w.run.cause = "spike" -> {"oom_kill", "workload_spike"}
                       [] w.run.cause = "crash" -> {"application_crash"}
                       [] w.run.cause = "config" -> {"bad_config"}
                       [] OTHER -> {"failed_liveness_probe"}
<1>1. w.run.cause \in Memory \cup {"crash", "config", "liveness"}
  BY DEF Restarting, Runs
<1>2. Restarts(w) /\ w.placed /\ w.pull = {None}
  BY DEF Restarting, Placed
<1>3. c \in causes
  BY <1>2 DEF Causes
<1>4. QED
  BY <1>1, <1>3 DEF Memory

(* How a run ended agrees with why. *)
LEMMA RestartsKept ==
  ASSUME NEW w, NEW store, Told(w, store), Restarting(w)
  PROVE  /\ w.run.cause \in Memory => ~RuledOut(store, Claims["oom_kill"])
         /\ w.run.cause = "low" => ~RuledOut(store, Claims["memory_limit_too_low"])
         /\ w.run.cause = "leak" => ~RuledOut(store, Claims["memory_leak"])
         /\ w.run.cause = "spike" => ~RuledOut(store, Claims["workload_spike"])
         /\ w.run.cause = "crash" => ~RuledOut(store, Claims["application_crash"])
         /\ w.run.cause = "config" => ~RuledOut(store, Claims["bad_config"])
         /\ w.run.cause = "liveness" => ~RuledOut(store, Claims["failed_liveness_probe"])
<1>1. w.run \in Runs /\ Restarts(w)
  BY DEF Restarting
<1>2. T \notin Value(store, Healthy) /\ T \notin Value(store, Is("healthy_on_same_config"))
  BY Plainly, MeansKinds DEF Healthy, Settled, Reserved
<1>3. ASSUME w.run.cause \in Memory PROVE ~RuledOut(store, Claims["oom_kill"])
  <2>1. w.run.code = "137"
    BY <1>1, <1>3 DEF Runs, Memory
  <2>2. T \notin Value(store, But("last_exit_code", {"137"}))
    BY <2>1, NoneSeen, MeansValues DEF Told, Settled, Reserved
  <2>3. T \notin Value(store, Fatal)
    BY <1>3, Plainly, MeansRestart DEF Fatal, Memory, Settled, Reserved
  <2>4. QED
    BY <2>2, <2>3 DEF RuledOut, IsTrue, Claims, OomKill, Explanation
<1>4. ~RuledOut(store, Claims["memory_limit_too_low"])
  BY <1>2 DEF RuledOut, IsTrue, Claims, MemoryLimitTooLow, Explanation
<1>5. ASSUME w.run.cause \in {"leak", "spike"}
      PROVE  ~RuledOut(store, Claims["memory_leak"]) /\ ~RuledOut(store, Claims["workload_spike"])
  <2>1. ~w.run.flat
    BY <1>1, <1>5 DEF Runs
  <2>2. T \notin Value(store, Not(Completes)) /\ T \notin Value(store, Not(Grows))
    BY <1>1, <1>5, <2>1, Plainly, MeansRestart DEF Completes, Grows, Settled, Reserved, Functional
  <2>3. QED
    BY <2>2 DEF RuledOut, IsTrue, Claims, MemoryLeak, WorkloadSpike, Explanation
<1>6. ASSUME w.run.cause = "crash" PROVE ~RuledOut(store, Claims["application_crash"])
  <2>1. T \notin Value(store, Not(Fatal))
    BY <1>1, <1>6, Plainly, MeansRestart DEF Fatal, Settled, Reserved, Functional
  <2>2. QED
    BY <2>1 DEF RuledOut, IsTrue, Claims, ApplicationCrash, Explanation
<1>7. ~RuledOut(store, Claims["bad_config"])
  BY <1>2 DEF RuledOut, IsTrue, Claims, BadConfig, Explanation
<1>8. ASSUME w.run.cause = "liveness" PROVE ~RuledOut(store, Claims["failed_liveness_probe"])
  <2>1. w.run.probe
    BY <1>1, <1>8 DEF Runs
  <2>2. T \notin Value(store, Not(Probe))
    BY <1>1, <2>1, Plainly, MeansRestart DEF Probe, Settled, Reserved, Functional
  <2>3. QED
    BY <2>2 DEF RuledOut, IsTrue, Claims, FailedLivenessProbe, Explanation
<1>9. QED
  BY <1>3, <1>4, <1>5, <1>6, <1>7, <1>8

(* Of any incident, then. *)
LEMMA CausesKept ==
  ASSUME NEW w, NEW store, Told(w, store), ~CitesOne(w)
  PROVE  \A c \in Causes(w) : ~RuledOut(store, Claims[c])
<1>1. CASE Unplaced(w)
  <2>1. CASE Immediate(w)
    BY <1>1, <2>1, UnplacedCauses, NodesKept, ClaimsKept
  <2>2. CASE ~Immediate(w)
    BY <1>1, <2>2, UnplacedCauses, NodesKept
  <2>3. QED
    BY <2>1, <2>2
<1>2. CASE Starting(w)
  <2>1. CASE w.pull # {None}
    BY <1>2, <2>1, StartingCauses, PullKept
  <2>2. CASE w.pull = {None}
    BY <1>2, <2>2, StartingCauses, MountKept
  <2>3. QED
    BY <2>1, <2>2
<1>3. CASE Restarting(w)
  BY <1>3, RestartingCauses, RestartsKept
<1>4. QED
  BY <1>1, <1>2, <1>3, ThreeKinds DEF Told

(* The claims under a claim, and a symptom's. *)
LEMMA SubsOf ==
  /\ Subs("pod_not_scheduled") =
       { "insufficient_cluster_resources", "node_selector_or_affinity_matches_no_node",
         "untolerated_node_taint", "unbound_persistent_volume_claim" }
  /\ Subs("unbound_persistent_volume_claim") =
       { "requested_storage_class_does_not_exist", "no_class_requested_and_no_default_class",
         "storage_class_provisioner_not_running", "volume_provisioning_failed",
         "waiting_for_first_consumer" }
  /\ Subs("image_pull_failure") = {"image_not_found_in_registry", "registry_network_or_auth_problem"}
  /\ Subs("volume_not_attached_or_mounted") =
       { "volume_already_attached_to_another_node", "csi_mount_failure", "volume_permission_denied" }
  /\ Subs("oom_kill") = {"memory_limit_too_low", "memory_leak", "workload_spike"}
<1>1. Subs("pod_not_scheduled") =
        { "insufficient_cluster_resources", "node_selector_or_affinity_matches_no_node",
          "untolerated_node_taint", "unbound_persistent_volume_claim" }
  BY DEF Subs, Elements, Claims, PodNotScheduled, Explanation
<1>2. Subs("unbound_persistent_volume_claim") =
        { "requested_storage_class_does_not_exist", "no_class_requested_and_no_default_class",
          "storage_class_provisioner_not_running", "volume_provisioning_failed",
          "waiting_for_first_consumer" }
  BY DEF Subs, Elements, Claims, UnboundPersistentVolumeClaim, Explanation
<1>3. Subs("image_pull_failure") = {"image_not_found_in_registry", "registry_network_or_auth_problem"}
  BY DEF Subs, Elements, Claims, ImagePullFailure, Explanation
<1>4. Subs("volume_not_attached_or_mounted") =
        { "volume_already_attached_to_another_node", "csi_mount_failure", "volume_permission_denied" }
  BY DEF Subs, Elements, Claims, VolumeNotAttachedOrMounted, Explanation
<1>5. Subs("oom_kill") = {"memory_limit_too_low", "memory_leak", "workload_spike"}
  BY DEF Subs, Elements, Claims, OomKill, Explanation
<1>6. QED
  BY <1>1, <1>2, <1>3, <1>4, <1>5

(* Where an investigation starts from. *)
LEMMA SymptomsOf ==
  /\ DOMAIN Symptoms = {"pod_not_ready", "pod_pending", "pod_restarting", "container_oom_killed"}
  /\ Elements(Symptoms["pod_not_ready"]) =
       { "pod_not_scheduled", "image_pull_failure", "readiness_check_failing",
         "volume_not_attached_or_mounted" }
  /\ Elements(Symptoms["pod_pending"]) = Subs("pod_not_scheduled")
  /\ Elements(Symptoms["pod_restarting"]) =
       {"application_crash", "bad_config", "oom_kill", "failed_liveness_probe"}
  /\ Elements(Symptoms["container_oom_killed"]) = Subs("oom_kill")
<1>1. DOMAIN Symptoms = {"pod_not_ready", "pod_pending", "pod_restarting", "container_oom_killed"}
  BY DEF Symptoms
<1>2. Elements(Symptoms["pod_not_ready"]) =
        { "pod_not_scheduled", "image_pull_failure", "readiness_check_failing",
          "volume_not_attached_or_mounted" }
  BY DEF Symptoms, Elements
<1>3. Elements(Symptoms["pod_pending"]) = Subs("pod_not_scheduled")
  BY DEF Symptoms, Elements, Subs, Claims
<1>4. Elements(Symptoms["pod_restarting"]) =
        {"application_crash", "bad_config", "oom_kill", "failed_liveness_probe"}
  BY DEF Symptoms, Elements
<1>5. Elements(Symptoms["container_oom_killed"]) = Subs("oom_kill")
  BY DEF Symptoms, Elements, Subs, Claims
<1>6. QED
  BY <1>1, <1>2, <1>3, <1>4, <1>5

(* The claims with none under them. *)
LEMMA NoneUnder ==
  \A c \in { "readiness_check_failing", "application_crash", "bad_config", "failed_liveness_probe",
             "insufficient_cluster_resources", "node_selector_or_affinity_matches_no_node",
             "untolerated_node_taint", "memory_limit_too_low", "memory_leak", "workload_spike" } :
    Subs(c) = {}
  BY DEF Subs, Elements, Claims, Explanation, ReadinessCheckFailing, ApplicationCrash, BadConfig,
         FailedLivenessProbe, InsufficientClusterResources, NodeSelectorOrAffinityMatchesNoNode,
         UntoleratedNodeTaint, MemoryLimitTooLow, MemoryLeak, WorkloadSpike

(* No claim has the top ones under it. *)
LEMMA NoParent ==
  \A s \in DOMAIN Symptoms : \A c \in Elements(Symptoms[s]) :
    "pod_not_scheduled" \notin Subs(c) /\ "application_crash" \notin Subs(c)
  BY NoneUnder, SubsOf, SymptomsOf

(* widened: whichever symptom is shown, the widest is opened. *)
LEMMA WidestOpened ==
  /\ Widened["pod_not_ready"] = "pod_not_ready" /\ Widened["pod_pending"] = "pod_not_ready"
  /\ Widened["pod_restarting"] = "pod_restarting" /\ Widened["container_oom_killed"] = "pod_restarting"
<1> DEFINE wider(symptom) == {s \in DOMAIN Symptoms \ {symptom} :
                                \E c \in Elements(Symptoms[s]) : Elements(Symptoms[symptom]) \subseteq Subs(c)}
<1>1. \A x \in DOMAIN Symptoms :
        Widened[x] = IF wider(x) = {} THEN x ELSE CHOOSE s \in wider(x) : TRUE
  BY DEF Widened
<1>2. wider("pod_not_ready") = {} /\ wider("pod_restarting") = {}
  <2>1. "pod_not_scheduled" \in Elements(Symptoms["pod_not_ready"])
        /\ "application_crash" \in Elements(Symptoms["pod_restarting"])
    BY SymptomsOf
  <2>2. QED
    BY <2>1, NoParent
<1>3. wider("pod_pending") = {"pod_not_ready"}
  <2>1. "pod_not_ready" \in wider("pod_pending")
    BY SymptomsOf
  <2>2. ASSUME NEW s \in wider("pod_pending") PROVE s = "pod_not_ready"
    <3>1. PICK c \in Elements(Symptoms[s]) : Subs("pod_not_scheduled") \subseteq Subs(c)
      BY SymptomsOf
    <3>2. "insufficient_cluster_resources" \in Subs(c)
      BY <3>1, SubsOf
    <3>3. s # "pod_pending"
      OBVIOUS
    <3>4. s \in {"pod_restarting", "container_oom_killed"} => FALSE
      BY <3>2, SymptomsOf, SubsOf, NoneUnder
    <3>5. QED
      BY <3>3, <3>4, SymptomsOf
  <2>3. QED
    BY <2>1, <2>2
<1>4. wider("container_oom_killed") = {"pod_restarting"}
  <2>1. "pod_restarting" \in wider("container_oom_killed")
    BY SymptomsOf
  <2>2. ASSUME NEW s \in wider("container_oom_killed") PROVE s = "pod_restarting"
    <3>1. PICK c \in Elements(Symptoms[s]) : Subs("oom_kill") \subseteq Subs(c)
      BY SymptomsOf
    <3>2. "memory_leak" \in Subs(c)
      BY <3>1, SubsOf
    <3>3. s # "container_oom_killed"
      OBVIOUS
    <3>4. s \in {"pod_not_ready", "pod_pending"} => FALSE
      BY <3>2, SymptomsOf, SubsOf, NoneUnder
    <3>5. QED
      BY <3>3, <3>4, SymptomsOf
  <2>3. QED
    BY <2>1, <2>2
<1> HIDE DEF wider
<1>5. QED
  BY <1>1, <1>2, <1>3, <1>4, SymptomsOf

(* What is under a claim is visited, and what is under that. *)
LEMMA PursuedIn ==
  ASSUME NEW store, NEW some, NEW c \in some, ~RuledOut(store, Claims[c])
  PROVE  /\ c \in Visited(store, some)
         /\ Subs(c) \subseteq Visited(store, some)
         /\ \A d \in Subs(c) : ~RuledOut(store, Claims[d]) => Subs(d) \subseteq Visited(store, some)
<1>1. \A S : \A d \in S : ~RuledOut(store, Claims[d]) => Subs(d) \subseteq Pursued(store, S)
  BY DEF Pursued
<1>2. QED
  BY <1>1 DEF Visited

(* A claim that is not ruled out is not said to be. *)
LEMMA RowKept ==
  ASSUME NEW store, NEW c, ~RuledOut(store, Claims[c])
  PROVE  Row(store, c).status \in {"supported", "open", "could_not_check"}
<1>1. Standing(store, Claims[c]).status \in {"supported", "open", "could_not_check"}
  BY DEF Standing
<1>2. QED
  BY <1>1 DEF Row

(* What explains an incident is below what it shows. *)
LEMMA CausesVisited ==
  ASSUME NEW w \in Clusters, NEW store, \A c \in Causes(w) : ~RuledOut(store, Claims[c]),
         NEW s \in Shown(w)
  PROVE  Causes(w) \subseteq Visited(store, Elements(Symptoms[Widened[s]]))
<1> DEFINE top == Elements(Symptoms[Widened[s]])
<1>1. CASE Unplaced(w)
  <2>1. top = Elements(Symptoms["pod_not_ready"])
    BY <1>1, WidestOpened DEF Unplaced, Shown
  <2>2. "pod_not_scheduled" \in Causes(w) /\ "pod_not_scheduled" \in top
    BY <1>1, <2>1, SymptomsOf DEF Unplaced, Causes
  <2>3. Immediate(w) => "unbound_persistent_volume_claim" \in Causes(w)
    BY <1>1 DEF Unplaced, Causes
  <2> HIDE DEF top
  <2>4. /\ "pod_not_scheduled" \in Visited(store, top)
        /\ Subs("pod_not_scheduled") \subseteq Visited(store, top)
        /\ Immediate(w) => Subs("unbound_persistent_volume_claim") \subseteq Visited(store, top)
    <3>1. "unbound_persistent_volume_claim" \in Subs("pod_not_scheduled")
      BY SubsOf
    <3>2. QED
      BY <2>2, <2>3, <3>1, PursuedIn
  <2>5. ASSUME NEW c \in Causes(w)
        PROVE  c \in {"pod_not_scheduled"} \cup Subs("pod_not_scheduled")
               \/ (Immediate(w) /\ c \in Subs("unbound_persistent_volume_claim"))
    BY <1>1, UnplacedCauses, SubsOf
  <2>6. QED
    BY <2>4, <2>5 DEF top
<1>2. CASE Starting(w)
  <2>1. top = Elements(Symptoms["pod_not_ready"])
    BY <1>2, WidestOpened DEF Starting, Placed, Shown
  <2>2. /\ w.pull # {None} => "image_pull_failure" \in Causes(w)
        /\ w.pull = {None} => "volume_not_attached_or_mounted" \in Causes(w)
    BY <1>2 DEF Starting, Placed, Causes
  <2>3. "image_pull_failure" \in top /\ "volume_not_attached_or_mounted" \in top
    BY <2>1, SymptomsOf
  <2> HIDE DEF top
  <2>4. /\ w.pull # {None} => {"image_pull_failure"} \cup Subs("image_pull_failure") \subseteq Visited(store, top)
        /\ w.pull = {None} => {"volume_not_attached_or_mounted"} \cup Subs("volume_not_attached_or_mounted")
                              \subseteq Visited(store, top)
    BY <2>2, <2>3, PursuedIn
  <2>5. QED
    BY <1>2, <2>4, StartingCauses, SubsOf DEF top
<1>3. CASE Restarting(w)
  <2>1. top = Elements(Symptoms["pod_restarting"])
    BY <1>3, WidestOpened DEF Restarting, Shown
  <2>2. top = {"application_crash", "bad_config", "oom_kill", "failed_liveness_probe"}
    BY <2>1, SymptomsOf
  <2>3. w.run.cause \in Memory => "oom_kill" \in Causes(w)
    BY <1>3 DEF Restarting, Placed, Causes, Memory
  <2> HIDE DEF top
  <2>4. w.run.cause \in Memory => Subs("oom_kill") \subseteq Visited(store, top)
    BY <2>2, <2>3, PursuedIn
  <2>5. top \subseteq Visited(store, top)
    BY DEF Visited
  <2>6. QED
    BY <1>3, <2>2, <2>4, <2>5, RestartingCauses, SubsOf DEF top, Memory
<1>4. QED
  BY <1>1, <1>2, <1>3, ThreeKinds

(* kb_query.py, status and visit: whatever was looked at so far and        *)
(* whichever symptom was opened, what explains the incident is among the   *)
(* rows and not ruled out, if what the agent recorded is right.            *)
THEOREM TrueCauseKeptHolds == InvestigationSpec => []TrueCauseKept
<1>1. InvestigationInv => TrueCauseKept
  <2>1. SUFFICES ASSUME InvestigationInv, rows # <<>>, ~CitesOne(cluster), Wrong(cluster, asked[2]) = {},
                        NEW c \in Causes(cluster)
        PROVE  c \in DOMAIN rows /\ rows[c].status # "ruled_out"
    BY DEF TrueCauseKept
  <2> DEFINE store == Store(asked[1], asked[2])
  <2>2. PICK s \in Shown(cluster) : rows = Opened(store, Widened[s])
    BY <2>1 DEF InvestigationInv, Answered
  <2>3. Told(cluster, store)
    BY <2>1, StoreSound DEF InvestigationInv, Recorded, Read, Told
  <2> HIDE DEF store
  <2>4. \A d \in Causes(cluster) : ~RuledOut(store, Claims[d])
    BY <2>1, <2>3, CausesKept
  <2>5. c \in Visited(store, Elements(Symptoms[Widened[s]]))
    BY <2>3, <2>4, CausesVisited DEF Told
  <2>6. c \in DOMAIN rows /\ rows[c] = Row(store, c)
    BY <2>2, <2>5 DEF Opened
  <2>7. QED
    BY <2>4, <2>6, RowKept
<1>2. QED
  BY <1>1, InvestigationInvHolds, PTL

-----------------------------------------------------------------------------
(* Investigation: what is ruled out stays so.                              *)

(* Nothing is asked not to be of a fact with one value. *)
Mild(alts) ==
  \A i \in DOMAIN alts : \A j \in DOMAIN alts[i] : alts[i][j].neg => alts[i][j].f \notin Functional

(* Only an image pull's failure asks what a container does not wait for. *)
LEMMA AllMild == \A c \in DOMAIN Claims \ {"image_pull_failure"} : Mild(Claims[c].rulesOut)
<1>1. Mild(Claims["pod_not_scheduled"].rulesOut)
  BY DEF Mild, Claims, PodNotScheduled, Explanation, Functional, Not, Is, Of, But, Unscheduled, Short, Waits
<1>2. Mild(Claims["insufficient_cluster_resources"].rulesOut)
  BY DEF Mild, Claims, InsufficientClusterResources, Explanation, Functional, Not, Is, Of, But,
         Unscheduled, Short, Rejected, Event
<1>3. Mild(Claims["node_selector_or_affinity_matches_no_node"].rulesOut)
  BY DEF Mild, Claims, NodeSelectorOrAffinityMatchesNoNode, Explanation, Functional, Not, Is, Of,
         But, Unscheduled, CitesAffinity, NoMatch, Rejected, Event
<1>4. Mild(Claims["untolerated_node_taint"].rulesOut)
  BY DEF Mild, Claims, UntoleratedNodeTaint, Explanation, Functional, Not, Is, Of, But,
         CitesTaint, NoMatch, AllTainted, Rejected
<1>5. Mild(Claims["unbound_persistent_volume_claim"].rulesOut)
  BY DEF Mild, Claims, UnboundPersistentVolumeClaim, Explanation, Functional, Not, Is, Of, But,
         Unscheduled, Event, NotBound
<1>6. Mild(Claims["requested_storage_class_does_not_exist"].rulesOut)
  BY DEF Mild, Claims, RequestedStorageClassDoesNotExist, Explanation, Functional, Not, Is, Of,
         But, ClassNotFound, NoVolumeNoClass, ProvisionerFails, WaitsForProvisioner, WaitsForConsumer
<1>7. Mild(Claims["no_class_requested_and_no_default_class"].rulesOut)
  BY DEF Mild, Claims, NoClassRequestedAndNoDefaultClass, Explanation, Functional, Not, Is, Of,
         But, NoVolumeNoClass
<1>8. Mild(Claims["storage_class_provisioner_not_running"].rulesOut)
  BY DEF Mild, Claims, StorageClassProvisionerNotRunning, Explanation, Functional, Not, Is, Of,
         But, NotBound, ClassNotFound, ProvisionerFails, WaitsForProvisioner, WaitsForConsumer
<1>9. Mild(Claims["volume_provisioning_failed"].rulesOut)
  BY DEF Mild, Claims, VolumeProvisioningFailed, Explanation, Functional, Not, Is, Of, But,
         ClassNotFound, NoVolumeNoClass, ProvisionerFails, WaitsForConsumer
<1>10. Mild(Claims["waiting_for_first_consumer"].rulesOut)
  BY DEF Mild, Claims, WaitingForFirstConsumer, Explanation, Functional, Not, Is, Of, But,
         ClassNotFound, ProvisionerFails, WaitsForProvisioner, WaitsForConsumer
<1>11. Mild(Claims["image_not_found_in_registry"].rulesOut)
  BY DEF Mild, Claims, ImageNotFoundInRegistry, Explanation, Functional, Not, Is, Of, But,
         ImageNotFound, ConnectionFails
<1>12. Mild(Claims["registry_network_or_auth_problem"].rulesOut)
  BY DEF Mild, Claims, RegistryNetworkOrAuthProblem, Explanation, Functional, Not, Is, Of, But,
         Waits, ConnectionFails, Unauthorized, Forbidden
<1>13. Mild(Claims["readiness_check_failing"].rulesOut)
  BY DEF Mild, Claims, ReadinessCheckFailing, Explanation, Functional, Not, Is, Of, But, Unscheduled, Waits
<1>14. Mild(Claims["volume_not_attached_or_mounted"].rulesOut)
  BY DEF Mild, Claims, VolumeNotAttachedOrMounted, Explanation, Functional, Not, Is, Of, But,
         Unscheduled, Waits, MountFailed, Waiting
<1>15. Mild(Claims["volume_already_attached_to_another_node"].rulesOut)
  BY DEF Mild, Claims, VolumeAlreadyAttachedToAnotherNode, Explanation, Functional, Not, Is, Of, But
<1>16. Mild(Claims["csi_mount_failure"].rulesOut)
  BY DEF Mild, Claims, CsiMountFailure, Explanation, Functional, Not, Is, Of, But, CsiError,
         PermissionDenied, MissingVolume, MountFailed
<1>17. Mild(Claims["volume_permission_denied"].rulesOut)
  BY DEF Mild, Claims, VolumePermissionDenied, Explanation, Functional, Not, Is, Of, But,
         CsiError, PermissionDenied, MountFailed
<1>18. Mild(Claims["application_crash"].rulesOut)
  BY DEF Mild, Claims, ApplicationCrash, Explanation, Functional, Not, Is, Of, But, Fatal, Code
<1>19. Mild(Claims["bad_config"].rulesOut)
  BY DEF Mild, Claims, BadConfig, Explanation, Functional, Not, Is, Of, But, Onset, Changed
<1>20. Mild(Claims["oom_kill"].rulesOut)
  BY DEF Mild, Claims, OomKill, Explanation, Functional, Not, Is, Of, But, Fatal, Full, Code
<1>21. Mild(Claims["failed_liveness_probe"].rulesOut)
  BY DEF Mild, Claims, FailedLivenessProbe, Explanation, Functional, Not, Is, Of, But, Probe, Failures, Code
<1>22. Mild(Claims["memory_limit_too_low"].rulesOut)
  BY DEF Mild, Claims, MemoryLimitTooLow, Explanation, Functional, Not, Is, Of, But, EveryLife,
         Completes, Healthy, Onset, Changed
<1>23. Mild(Claims["memory_leak"].rulesOut)
  BY DEF Mild, Claims, MemoryLeak, Explanation, Functional, Not, Is, Of, But, Completes, Grows
<1>24. Mild(Claims["workload_spike"].rulesOut)
  BY DEF Mild, Claims, WorkloadSpike, Explanation, Functional, Not, Is, Of, But, Completes, Grows
<1>25. DOMAIN Claims = {"pod_not_scheduled", "insufficient_cluster_resources",
       "node_selector_or_affinity_matches_no_node", "untolerated_node_taint",
       "unbound_persistent_volume_claim", "requested_storage_class_does_not_exist",
       "no_class_requested_and_no_default_class", "storage_class_provisioner_not_running",
       "volume_provisioning_failed", "waiting_for_first_consumer", "image_pull_failure",
       "image_not_found_in_registry", "registry_network_or_auth_problem", "readiness_check_failing",
       "volume_not_attached_or_mounted", "volume_already_attached_to_another_node", "csi_mount_failure",
       "volume_permission_denied", "application_crash", "bad_config", "oom_kill", "failed_liveness_probe",
       "memory_limit_too_low", "memory_leak", "workload_spike"}
  BY DEF Claims
<1>26. QED
  BY <1>1, <1>2, <1>3, <1>4, <1>5, <1>6, <1>7, <1>8, <1>9, <1>10, <1>11, <1>12, <1>13,
     <1>14, <1>15, <1>16, <1>17, <1>18, <1>19, <1>20, <1>21, <1>22, <1>23, <1>24, <1>25

(* A longer file has the lines of a shorter. *)
LEMMA ParseGrows ==
  ASSUME NEW R, NEW s \in Seq(R), NEW t \in Seq(R), Before(s, t)
  PROVE  Parse(s) \subseteq Parse(t)
<1>1. SUFFICES ASSUME NEW i \in 1..Len(s), ~\E k \in 1..(i - 1) : Contradicts(s[k], s[i])
      PROVE  s[i] \in Parse(t)
  BY DEF Parse
<1>2. i \in 1..Len(t) /\ t[i] = s[i] /\ \A k \in 1..(i - 1) : t[k] = s[k]
  BY DEF Before
<1>3. QED
  BY <1>1, <1>2 DEF Parse

(* What the store has, more lines only add to, unless one speaks against. *)
LEMMA StoreGrows ==
  ASSUME NEW w, NEW d \in Seq(Lines(w)), NEW e \in Seq(Lines(w)), Before(d, e),
         NEW t \in Seq(Tales), NEW u \in Seq(Tales), Before(t, u), ~Against(e, u)
  PROVE  Store(d, t) \subseteq Store(e, u)
<1>1. Parse(t) \subseteq Parse(u) /\ Parse(d) \subseteq Parse(e)
  BY ParseGrows
<1>2. ASSUME NEW l \in Parse(e), NEW i \in 1..Len(u), Alike(u[i], l)
      PROVE  l \in Parse(u)
  <2>1. l \in Elements(e) /\ l \in Lines(w)
    BY DEF Parse, Elements
  <2>2. u[i].f = l.f /\ u[i].v = l.v
    BY <1>2 DEF Alike
  <2>3. u[i].t = l.t
    BY <2>1, <2>2 DEF Against
  <2>4. u[i] = l
    <3>1. PICK f \in Tellable \ Reserved, b \in BOOLEAN : u[i] = Line(f, None, b)
      BY DEF Tales
    <3>2. l = [f |-> l.f, v |-> l.v, t |-> l.t]
      BY <2>1 DEF Lines
    <3>3. QED
      BY <2>2, <2>3, <3>1, <3>2 DEF Line
  <2>5. ~\E k \in 1..(i - 1) : Contradicts(u[k], u[i])
    <3>1. \A k \in 1..(i - 1) : u[k] \in Elements(u)
      BY DEF Elements
    <3>2. QED
      BY <3>1 DEF Against, Contradicts, Alike
  <2>6. QED
    BY <2>4, <2>5 DEF Parse
<1>3. QED
  BY <1>1, <1>2 DEF Store

(* What was seen is seen with more lines. *)
LEMMA ValueStays ==
  ASSUME NEW store, NEW more, store \subseteq more, NEW c, T \in Value(store, c),
         c.neg => c.f \notin Functional
  PROVE  T \in Value(more, c)
<1>1. PICK l \in Hits(store, c) : Judged(c, l) = T
  BY ValueTrue
<1>2. l \in Hits(more, c)
  BY DEF Hits
<1>3. Value(more, c) = {Judged(c, m) : m \in Hits(more, c)}
  BY <1>2 DEF Value
<1>4. QED
  BY <1>1, <1>2, <1>3

(* A container waits for one reason or for two of a kind, and no line says *)
(* that it does not.                                                       *)
Waited(w, store) == \A l \in store : l.f = "waiting_reason" => l.t = TRUE /\ l.v \in Reasons(w) \ {None}

(* And so it is of what `open` reads. *)
LEMMA StoreWaited ==
  ASSUME NEW w, NEW d \in Seq(Lines(w)), NEW t \in Seq(Tales)
  PROVE  Waited(w, Store(d, t))
<1>1. Store(d, t) \subseteq Elements(d) \cup Elements(t)
  BY DEF Store, Parse, Elements
<1>2. ASSUME NEW l \in Elements(d), l.f = "waiting_reason" PROVE l.t = TRUE /\ l.v \in Reasons(w) \ {None}
  <2>1. l \in Lines(w)
    BY ElementsIn
  <2>2. l.t = TRUE
    BY <1>2, <2>1 DEF Lines
  <2>3. ~Contested(w, l)
    BY <1>2 DEF Contested, Reserved
  <2>4. QED
    BY <1>2, <2>1, <2>2, <2>3, MeansValues DEF Lines
<1>3. ASSUME NEW l \in Elements(t) PROVE l.f # "waiting_reason"
  <2>1. l \in Tales
    BY ElementsIn
  <2>2. l.f \in Tellable
    BY <2>1 DEF Tales, Line
  <2>3. QED
    BY <2>2, InvestigationAssumption DEF Valued, Functional
<1>4. QED
  BY <1>1, <1>2, <1>3 DEF Waited

(* That a container does not wait for a reason is seen by another one. *)
LEMMA NotWaiting ==
  ASSUME NEW w, NEW store, Waited(w, store), NEW v, v # Some, T \in Value(store, Not(Waiting(v)))
  PROVE  (\A l \in store : l.f = "waiting_reason" => l.v # v) /\ \E l \in store : l.f = "waiting_reason"
<1> DEFINE c == Not(Waiting(v))
<1>1. c = [f |-> "waiting_reason", v |-> v, neg |-> TRUE, ne |-> {}]
  BY DEF Not, Waiting, Of
<1>2. ASSUME NEW l \in Hits(store, c) PROVE Judged(c, l) # T
  <2>1. l.t = TRUE
    BY <1>1 DEF Hits, Waited
  <2>2. QED
    BY <1>1, <2>1 DEF Judged, Truth, T, F
<1>3. Hits(store, c) = {} /\ \E l \in store : l.f = c.f /\ l.v # c.v /\ l.t
  <2> HIDE DEF c
  <2>1. T \in Value(store, c)
    BY DEF c
  <2>2. QED
    BY <1>2, <2>1, ValueTrue
<1>4. QED
  BY <1>1, <1>3 DEF Hits

(* Nor is it found to wait for an image after it waited for a volume. *)
LEMMA WaitingStays ==
  ASSUME NEW w, NEW store, NEW more, store \subseteq more, Waited(w, more),
         T \in Value(store, Not(Waiting("ErrImagePull"))), T \in Value(store, Not(Waiting("ImagePullBackOff")))
  PROVE  /\ T \in Value(more, Not(Waiting("ErrImagePull")))
         /\ T \in Value(more, Not(Waiting("ImagePullBackOff")))
<1>1. Waited(w, store)
  BY DEF Waited
<1>2. "ErrImagePull" # Some /\ "ImagePullBackOff" # Some
  BY DEF Some
<1>3. PICK l \in store : l.f = "waiting_reason" /\ l.v # "ErrImagePull" /\ l.v # "ImagePullBackOff"
  BY <1>1, <1>2, NotWaiting
<1>4. Reasons(w) = {"ContainerCreating"} /\ l.t = TRUE
  BY <1>1, <1>3 DEF Waited, Reasons
<1>5. ASSUME NEW v \in {"ErrImagePull", "ImagePullBackOff"} PROVE T \in Value(more, Not(Waiting(v)))
  <2> DEFINE c == Not(Waiting(v))
  <2>1. c = [f |-> "waiting_reason", v |-> v, neg |-> TRUE, ne |-> {}]
    BY DEF Not, Waiting, Of
  <2>2. Hits(more, c) = {}
    BY <1>2, <1>4, <2>1 DEF Hits, Waited
  <2>3. c.f \in Functional /\ c.v # Some /\ l \in more /\ l.f = c.f /\ l.v # c.v /\ l.t
    BY <1>2, <1>3, <1>4, <2>1 DEF Functional
  <2>4. Truth(c.neg) = T
    BY <2>1 DEF Truth
  <2>5. T \in Value(more, c)
    <3> HIDE DEF c
    <3>1. QED
      BY <2>2, <2>3, <2>4 DEF Value
  <2>6. QED
    BY <2>5
<1>6. QED
  BY <1>5

(* What fewer lines rule out, more do. *)
LEMMA RuledOutMore ==
  ASSUME NEW w, NEW store, NEW more, store \subseteq more, Waited(w, more),
         NEW c \in DOMAIN Claims, RuledOut(store, Claims[c])
  PROVE  RuledOut(more, Claims[c])
<1>1. CASE c # "image_pull_failure"
  <2> DEFINE alts == Claims[c].rulesOut
  <2>1. Mild(alts)
    BY <1>1, AllMild
  <2>2. PICK i \in DOMAIN alts : IsTrue(store, alts[i])
    BY DEF RuledOut
  <2> HIDE DEF alts
  <2>3. IsTrue(more, alts[i])
    BY <2>1, <2>2, ValueStays DEF Mild, IsTrue
  <2>4. QED
    BY <2>3 DEF RuledOut, alts
<1>2. CASE c = "image_pull_failure"
  <2> DEFINE x == Not(Is("image_pull_failure_event"))
             y == Not(Waiting("ErrImagePull"))
             z == Not(Waiting("ImagePullBackOff"))
  <2>1. Claims[c].rulesOut = << <<x, y, z>> >>
    BY <1>2 DEF Claims, ImagePullFailure, Explanation
  <2>2. x.f \notin Functional
    BY DEF Not, Is, Of, Functional
  <2>3. T \in Value(store, x) /\ T \in Value(store, y) /\ T \in Value(store, z)
    <3> HIDE DEF x, y, z
    <3>1. QED
      BY <2>1 DEF RuledOut, IsTrue
  <2>4. T \in Value(more, x) /\ T \in Value(more, y) /\ T \in Value(more, z)
    BY <2>2, <2>3, ValueStays, WaitingStays
  <2> HIDE DEF x, y, z
  <2>5. QED
    BY <2>1, <2>4 DEF RuledOut, IsTrue
<1>3. QED
  BY <1>1, <1>2

(* What is visited is of the knowledge. *)
LEMMA VisitedClaims ==
  ASSUME NEW store, NEW s \in DOMAIN Symptoms
  PROVE  Visited(store, Elements(Symptoms[s])) \subseteq DOMAIN Claims
<1>1. Elements(Symptoms[s]) \subseteq DOMAIN Claims /\ \A c \in DOMAIN Claims : Subs(c) \subseteq DOMAIN Claims
  BY KnowledgeChecked DEF WellFormed
<1>2. QED
  BY <1>1 DEF Visited, Pursued

LEMMA ShownWidened == ASSUME NEW w, NEW s \in Shown(w) PROVE Widened[s] \in DOMAIN Symptoms
<1>1. s \in {"pod_not_ready", "pod_pending", "pod_restarting", "container_oom_killed"}
  BY DEF Shown
<1>2. QED
  BY <1>1, WidestOpened, SymptomsOf

(* A row says whether its claim is ruled out. *)
LEMMA RowDropped ==
  ASSUME NEW store, NEW c
  PROVE  Row(store, c).status \in {"ruled_out", "conflicting"} <=> RuledOut(store, Claims[c])
<1>1. CASE RuledOut(store, Claims[c])
  <2>1. Standing(store, Claims[c]).status \in {"ruled_out", "conflicting"}
    BY <1>1 DEF Standing
  <2>2. Row(store, c) = Standing(store, Claims[c])
    BY <1>1 DEF Row
  <2>3. QED
    BY <1>1, <2>1, <2>2
<1>2. CASE ~RuledOut(store, Claims[c])
  BY <1>2, RowKept
<1>3. QED
  BY <1>1, <1>2

(* kb_query.py, status: what the facts ruled out, more facts do not bring  *)
(* back, unless the agent records one against what is stated already.      *)
THEOREM RuledOutStaysHolds == InvestigationSpec => RuledOutStays
<1>1. InvestigationInv /\ [InvestigationNext]_investigationVars =>
        [(asked' # asked /\ ~Against(asked'[1], asked'[2])) =>
           Dropped(rows) \cap DOMAIN rows' \subseteq Dropped(rows')]_investigationVars
  <2>1. SUFFICES ASSUME InvestigationInv, InvestigationNext, asked' # asked, ~Against(asked'[1], asked'[2]),
                        NEW c \in Dropped(rows) \cap DOMAIN rows'
        PROVE  c \in Dropped(rows')
    OBVIOUS
  <2>2. Open
    BY <2>1 DEF InvestigationNext, CallTool, Tell
  <2>3. PICK s \in Shown(cluster) : rows' = Opened(Store(derived, told), Widened[s])
    BY <2>2 DEF Open
  <2>4. asked'[1] = derived /\ asked'[2] = told
    BY <2>2 DEF Open
  <2> DEFINE store == Store(asked[1], asked[2])
             more == Store(derived, told)
  <2>5. store \subseteq more /\ Waited(cluster, more)
    BY <2>1, <2>4, StoreGrows, StoreWaited DEF InvestigationInv, Recorded, Read
  <2>6. rows # <<>>
    BY <2>1 DEF Dropped
  <2>7. PICK r \in Shown(cluster) : rows = Opened(store, Widened[r])
    BY <2>1, <2>6 DEF InvestigationInv, Answered
  <2> HIDE DEF store, more
  <2>8. rows[c] = Row(store, c) /\ rows[c].status \in {"ruled_out", "conflicting"}
    BY <2>1, <2>7 DEF Dropped, Opened
  <2>9. c \in DOMAIN Claims
    BY <2>1, <2>7, VisitedClaims, ShownWidened DEF Dropped, Opened
  <2>10. RuledOut(more, Claims[c])
    BY <2>5, <2>8, <2>9, RowDropped, RuledOutMore
  <2>11. rows'[c] = Row(more, c)
    BY <2>1, <2>3 DEF Opened, more
  <2>12. QED
    BY <2>1, <2>10, <2>11, RowDropped DEF Dropped
<1>2. QED
  BY <1>1, InvestigationInvHolds, PTL DEF InvestigationSpec, RuledOutStays
=============================================================================
