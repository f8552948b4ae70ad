---------------------------- MODULE DeployProofs ----------------------------
(***************************************************************************)
(* Proofs about Deploy: no object at the API becomes unknown but by a      *)
(* fault that the model names, no scenario changes what production uses,   *)
(* and a session fits the processes that `status` calls current, for any   *)
(* skills and agents and for any bounds.                                   *)
(***************************************************************************)
EXTENDS Deploy, TLAPS

(* What a state says of an object is true of the API's.                    *)
Entries == {None} \cup {e \in Entry : e.id # 0}
Real(e) == e.id # 0 => e.id \in 1..Len(remote) /\ e.version \in 1..Len(remote[e.id])

Typed ==
  /\ remote \in Seq(Seq(Content)) /\ rev \in 0..MaxRev
  /\ saved \in [Syncs -> [Names -> Entries]] /\ mem \in [Syncs -> [Names -> Entries]]
  /\ locals \in [Skills -> Entries]
  /\ \A p \in Syncs, n \in Names : Real(saved[p][n]) /\ Real(mem[p][n])
  /\ \A s \in Skills : Real(locals[s])
  /\ planned \in [Syncs -> 0..MaxRev]

(* An object that a state file or a running sync knows of, or a fault hid. *)
Lent(i) == \E s \in Skills : locals[s].id = i
InFile(p, i) == \E n \in Names : saved[p][n].id = i
InSync(p, i) == pc[p] # "idle" /\ \E n \in Names : mem[p][n].id = i
Accounted(i) ==
  i \in orphans \/ Lent(i) \/ \E p \in Syncs : InFile(p, i) \/ InSync(p, i)
AllKnown == \A i \in 1..Len(remote) : Accounted(i)

(* A sync that saves loses nothing its file has, and production's a        *)
(* scenario's file may lose.                                               *)
ProdKept ==
  pc["prod"] # "idle" =>
    \A n \in Names : saved["prod"][n].id \in {0, mem["prod"][n].id} \cup orphans
ScopedKept ==
  pc["scenario"] # "idle" =>
    \A n \in Scoped : saved["scenario"][n].id \in {0, mem["scenario"][n].id} \cup orphans
Elsewhere(i, n) == i \in {0, saved["prod"][n].id} \cup orphans \/ Lent(i)
Borrowed ==
  \A n \in Names \ Scoped :
    Elsewhere(saved["scenario"][n].id, n) /\ Elsewhere(mem["scenario"][n].id, n)

(* Copies and originals are different objects. *)
Copy(i) == Lent(i) \/ \E n \in Scoped : i \in {saved["scenario"][n].id, mem["scenario"][n].id}
Original(i) == \E n \in Names : i \in {saved["prod"][n].id, mem["prod"][n].id}
Apart == \A i \in Nat : Copy(i) /\ Original(i) => i = 0

DeployInv == AllKnown /\ ProdKept /\ ScopedKept /\ Borrowed

(* Only a sync that runs has failed. *)
Active ==
  /\ pc \in [Syncs -> {"idle", "env", "skills", "agents", "save"}]
  /\ failed \in [Syncs -> BOOLEAN]
  /\ \A p \in Syncs : failed[p] => pc[p] # "idle"

-----------------------------------------------------------------------------
LEMMA EntriesAreRecords ==
  /\ None \in Entries /\ None.id = 0
  /\ \A e \in Entries : /\ e.id \in Nat /\ e.version \in Nat /\ e.rev \in 0..MaxRev
                        /\ e.id = 0 => e = None
<1>1. 0 \in 0..MaxRev
  BY DeployBounds
<1>2. QED
  BY <1>1 DEF Entries, Entry, None

LEMMA PlainIsContent ==
  ASSUME NEW n \in Names, NEW r \in 0..MaxRev
  PROVE  Plain(n, r) \in Content
<1>1. NoUses \in [Skills \cup Specialists -> Nat \X Nat]
  BY DEF NoUses
<1>2. QED
  BY <1>1 DEF Plain, Content

LEMMA PayloadIsContent ==
  ASSUME Typed, NEW p \in Syncs, NEW k \in Agents
  PROVE  Payload(p, k) \in Content
<1>1. \A n \in Skills \cup Specialists : mem[p][n].id \in Nat /\ mem[p][n].version \in Nat
  BY EntriesAreRecords DEF Typed, Names, Agents
<1> DEFINE uses == [n \in Skills \cup Specialists |->
     IF n \in Skills THEN <<mem[p][n].id, 0>>
     ELSE IF k = Coordinator THEN <<mem[p][n].id, mem[p][n].version>> ELSE <<0, 0>>]
<1>2. uses \in [Skills \cup Specialists -> Nat \X Nat]
  BY <1>1
<1>3. Payload(p, k) = [of |-> k, rev |-> planned[p], uses |-> uses]
  BY DEF Payload
<1> HIDE DEF uses
<1>4. k \in Names /\ planned[p] \in 0..MaxRev
  BY DEF Typed, Names
<1>5. QED
  BY <1>2, <1>3, <1>4 DEF Content

(* What a step at the API leaves of it. *)
Grown ==
  /\ remote' \in Seq(Seq(Content)) /\ Len(remote) <= Len(remote')
  /\ \A i \in 1..Len(remote) : Len(remote[i]) <= Len(remote'[i])

LEMMA MadeIsThere ==
  ASSUME Typed, NEW c \in Content, remote' = Created(c)
  PROVE  /\ Grown /\ Len(remote') = Len(remote) + 1 /\ Len(remote) \in Nat
         /\ Len(remote'[Len(remote) + 1]) = 1
         /\ \A i \in 1..Len(remote) : remote'[i] = remote[i]
<1>1. remote \in Seq(Seq(Content)) /\ <<c>> \in Seq(Content)
  BY DEF Typed
<1>2. remote' = Append(remote, <<c>>)
  BY DEF Created
<1>3. remote' \in Seq(Seq(Content)) /\ Len(remote') = Len(remote) + 1 /\ Len(remote) \in Nat
        /\ remote'[Len(remote) + 1] = <<c>>
        /\ \A i \in 1..Len(remote) : remote'[i] = remote[i]
  BY <1>1, <1>2
<1>4. \A i \in 1..Len(remote) : Len(remote[i]) \in Nat
  BY <1>1
<1>5. Grown
  BY <1>3, <1>4 DEF Grown
<1>6. Len(<<c>>) = 1
  OBVIOUS
<1>7. QED
  BY <1>3, <1>5, <1>6

LEMMA UpdatedIsThere ==
  ASSUME Typed, NEW id \in 1..Len(remote), NEW c \in Content, remote' = Updated(id, c),
         remote[id] # <<>>
  PROVE  /\ Grown /\ Len(remote') = Len(remote)
         /\ UpdatedEntry(id, c).version \in 1..Len(remote'[id])
         /\ \A i \in 1..Len(remote) : i # id => remote'[i] = remote[i]
<1>1. remote \in Seq(Seq(Content)) /\ Len(remote) \in Nat /\ remote[id] \in Seq(Content)
  BY DEF Typed
<1>2. \A i \in 1..Len(remote) : Len(remote[i]) \in Nat
  BY <1>1
<1>3. Len(remote[id]) \in Nat \ {0}
  BY <1>1
<1>4. CASE Current(id) = c
  <2>1. remote' = remote /\ UpdatedEntry(id, c).version = Len(remote[id])
    BY <1>3, <1>4 DEF Updated, UpdatedEntry
  <2>2. QED
    BY <1>1, <1>2, <1>3, <2>1 DEF Grown
<1>5. CASE Current(id) # c
  <2>1. UpdatedEntry(id, c).version = Len(remote[id]) + 1
    BY <1>5 DEF UpdatedEntry
  <2>2. remote' = [remote EXCEPT ![id] = Append(remote[id], c)]
    BY <1>5 DEF Updated
  <2>3. Append(remote[id], c) \in Seq(Content)
          /\ Len(Append(remote[id], c)) = Len(remote[id]) + 1
    BY <1>1
  <2>4. remote' \in Seq(Seq(Content)) /\ Len(remote') = Len(remote)
          /\ remote'[id] = Append(remote[id], c)
          /\ \A i \in 1..Len(remote) : i # id => remote'[i] = remote[i]
    BY <1>1, <2>2, <2>3
  <2>5. Grown
    BY <1>1, <1>2, <1>3, <2>3, <2>4 DEF Grown
  <2>6. QED
    BY <1>3, <2>1, <2>3, <2>4, <2>5
<1>6. QED
  BY <1>4, <1>5

LEMMA RealStays ==
  ASSUME Typed, Grown, NEW e \in Entries, Real(e)
  PROVE  e.id # 0 => e.id \in 1..Len(remote') /\ e.version \in 1..Len(remote'[e.id])
<1>1. SUFFICES ASSUME e.id # 0
               PROVE  e.id \in 1..Len(remote') /\ e.version \in 1..Len(remote'[e.id])
  OBVIOUS
<1>2. remote \in Seq(Seq(Content)) /\ remote' \in Seq(Seq(Content))
        /\ Len(remote) \in Nat /\ Len(remote') \in Nat /\ Len(remote) <= Len(remote')
  BY DEF Typed, Grown
<1>3. e.id \in 1..Len(remote) /\ e.version \in 1..Len(remote[e.id])
  BY <1>1 DEF Real
<1>4. e.id \in 1..Len(remote')
  BY <1>2, <1>3
<1>5. Len(remote[e.id]) \in Nat /\ Len(remote'[e.id]) \in Nat
        /\ Len(remote[e.id]) <= Len(remote'[e.id])
  BY <1>2, <1>3, <1>4 DEF Grown
<1>6. QED
  BY <1>3, <1>4, <1>5

(* A step of a sync that deals with n: it goes on with the object it knew, *)
(* or with a new one if it knew none, or is told of none by a fault.       *)
Kept(p, n, entry) == Len(remote') = Len(remote) /\ entry.id = Known(p, n).id
New(p, n, entry) ==
  /\ Len(remote') = Len(remote) + 1 /\ entry.id = Len(remote) + 1
  /\ Known(p, n).id = 0 \/ (n \notin Local /\ mem[p][n].id \in orphans')

LEMMA Recorded ==
  ASSUME Typed, DeployInv, Apart, NEW p \in Syncs, NEW n \in Names, NEW entry \in Entries,
         pc[p] # "idle", Record(p, n, entry), Grown, Kept(p, n, entry) \/ New(p, n, entry),
         entry.id \in 1..Len(remote'), entry.version \in 1..Len(remote'[entry.id]),
         p = "scenario" => n \in Scoped \cup Local,
         orphans \subseteq orphans'
  PROVE  Typed' /\ DeployInv' /\ Apart'
<1> DEFINE lend == n \in Local /\ p = "scenario"
<1>1. /\ mem' = [mem EXCEPT ![p][n] = entry]
      /\ locals' = IF lend THEN [locals EXCEPT ![n] = entry] ELSE locals
      /\ UNCHANGED <<rev, saved, pc, planned>>
  BY DEF Record
<1>2. /\ mem' \in [Syncs -> [Names -> Entries]] /\ mem'[p][n] = entry
      /\ \A q \in Syncs, m \in Names : q # p \/ m # n => mem'[q][m] = mem[q][m]
  BY <1>1 DEF Typed
<1>3. n \in Local => n \in Skills /\ n \notin Scoped
  BY NamesAssumption
<1>4. /\ locals' \in [Skills -> Entries]
      /\ lend => locals'[n] = entry /\ \A s \in Skills : s # n => locals'[s] = locals[s]
      /\ ~lend => locals' = locals
  BY <1>1, <1>3 DEF Typed
<1>5. Known(p, n) = IF lend THEN locals[n] ELSE mem[p][n]
  BY DEF Known
<1>6. remote \in Seq(Seq(Content)) /\ Len(remote) \in Nat /\ Len(remote') \in Nat
  BY DEF Typed, Grown
<1> HIDE DEF lend
<1>8. \A i : i # 0 /\ Lent(i) => Lent(i)'
  <2>1. CASE lend
    <3>1. entry.id = locals[n].id \/ locals[n].id = 0
      BY <1>5, <2>1, <1>3 DEF Kept, New, lend
    <3>2. QED
      BY <3>1, <2>1, <1>4, <1>3 DEF Lent, lend
  <2>2. CASE ~lend
    BY <1>4, <2>2 DEF Lent
  <2>3. QED
    BY <2>1, <2>2
<1>9. Typed'
  <2>1. \A q \in Syncs, m \in Names : Real(saved[q][m])'
    BY <1>1, RealStays DEF Typed, Real
  <2>2. \A q \in Syncs, m \in Names : Real(mem[q][m])'
    <3>1. TAKE q \in Syncs, m \in Names
    <3>2. CASE q = p /\ m = n
      BY <1>2, <3>2 DEF Real
    <3>3. CASE q # p \/ m # n
      <4>1. mem'[q][m] = mem[q][m] /\ mem[q][m] \in Entries /\ Real(mem[q][m])
        BY <1>2, <3>3 DEF Typed
      <4>2. QED
        BY <4>1, RealStays DEF Real
    <3>4. QED
      BY <3>2, <3>3
  <2>3. \A s \in Skills : Real(locals[s])'
    <3>1. TAKE s \in Skills
    <3>2. CASE lend /\ s = n
      BY <1>4, <3>2 DEF Real
    <3>3. CASE ~lend \/ s # n
      BY <1>4, <3>3, RealStays DEF Typed, Real
    <3>4. QED
      BY <3>2, <3>3
  <2>4. QED
    BY <1>1, <1>2, <1>4, <2>1, <2>2, <2>3 DEF Typed, Grown
<1>10. AllKnown'
  <2>1. SUFFICES ASSUME NEW i \in 1..Len(remote') PROVE Accounted(i)'
    BY DEF AllKnown
  <2>2. CASE i = entry.id
    BY <1>1, <1>2, <2>2 DEF Accounted, InSync
  <2>3. CASE i # entry.id
    <3>1. i \in 1..Len(remote) /\ i # 0
      BY <1>6, <2>3 DEF Kept, New
    <3>2. Accounted(i)
      BY <3>1 DEF DeployInv, AllKnown
    <3>3. CASE i \in orphans
      BY <3>3 DEF Accounted
    <3>4. CASE Lent(i)
      BY <3>1, <3>4, <1>8 DEF Accounted
    <3>5. CASE \E q \in Syncs : InFile(q, i)
      BY <1>1, <3>5 DEF Accounted, InFile
    <3>6. CASE \E q \in Syncs : InSync(q, i)
      <4>1. PICK q \in Syncs, m \in Names : pc[q] # "idle" /\ mem[q][m].id = i
        BY <3>6 DEF InSync
      <4>2. CASE q # p \/ m # n
        BY <1>1, <1>2, <4>1, <4>2 DEF Accounted, InSync
      <4>3. CASE q = p /\ m = n /\ lend
        <5>1. Elsewhere(i, n)
          BY <1>3, <4>1, <4>3 DEF DeployInv, Borrowed, lend
        <5>2. "prod" \in Syncs /\ (i = saved["prod"][n].id => InFile("prod", i)')
          BY <1>1 DEF Syncs, InFile
        <5>3. QED
          BY <3>1, <5>1, <5>2, <1>8 DEF Elsewhere, Accounted
      <4>4. CASE q = p /\ m = n /\ ~lend
        <5>1. i \in orphans'
          BY <1>5, <2>3, <3>1, <4>1, <4>4 DEF Kept, New
        <5>2. QED
          BY <5>1 DEF Accounted
      <4>5. QED
        BY <4>2, <4>3, <4>4
    <3>7. QED
      BY <3>2, <3>3, <3>4, <3>5, <3>6 DEF Accounted
  <2>4. QED
    BY <2>2, <2>3
<1>11. ProdKept' /\ ScopedKept'
  <2>1. p = "prod" \/ n \in Scoped => ~lend
    BY <1>3 DEF lend
  <2>2. ~lend => \/ entry.id = mem[p][n].id \/ mem[p][n].id = 0 \/ mem[p][n].id \in orphans'
    BY <1>5 DEF Kept, New
  <2>3. "prod" \in Syncs /\ "scenario" \in Syncs /\ Scoped \subseteq Names /\ "prod" # "scenario"
    BY NamesAssumption DEF Syncs, Names
  <2>4. ProdKept'
    BY <1>1, <1>2, <2>1, <2>2, <2>3 DEF DeployInv, ProdKept
  <2>5. ScopedKept'
    BY <1>1, <1>2, <2>1, <2>2, <2>3 DEF DeployInv, ScopedKept
  <2>6. QED
    BY <2>4, <2>5
<1>12. Borrowed'
  <2>1. SUFFICES ASSUME NEW m \in Names \ Scoped
                 PROVE  Elsewhere(saved["scenario"][m].id, m)' /\ Elsewhere(mem["scenario"][m].id, m)'
    BY DEF Borrowed
  <2>2. Elsewhere(saved["scenario"][m].id, m) /\ Elsewhere(mem["scenario"][m].id, m)
    BY DEF DeployInv, Borrowed
  <2>3. "scenario" \in Syncs
    BY DEF Syncs
  <2>4. \A i : Elsewhere(i, m) => Elsewhere(i, m)'
    BY <1>1, <1>8 DEF Elsewhere
  <2>5. CASE p = "scenario" /\ m = n
    <3>1. lend
      BY <2>5 DEF lend
    <3>2. Lent(entry.id)'
      BY <1>3, <1>4, <3>1 DEF Lent, lend
    <3>3. QED
      BY <1>1, <1>2, <2>2, <2>4, <2>5, <3>2 DEF Elsewhere
  <2>6. CASE p # "scenario" \/ m # n
    BY <1>1, <1>2, <2>2, <2>3, <2>4, <2>6
  <2>7. QED
    BY <2>5, <2>6
<1>13. Apart'
  <2>1. "prod" \in Syncs /\ "scenario" \in Syncs /\ Scoped \subseteq Names /\ "prod" # "scenario"
    BY NamesAssumption DEF Syncs, Names
  <2>2. \A i : Original(i)' => Original(i) \/ (p = "prod" /\ i = entry.id)
    BY <1>1, <1>2, <2>1 DEF Original
  <2>3. \A i : Copy(i)' => Copy(i) \/ (p = "scenario" /\ i = entry.id)
    <3>1. \A i : Lent(i)' => Lent(i) \/ (p = "scenario" /\ i = entry.id)
      BY <1>3, <1>4 DEF Lent, lend
    <3>2. \A m \in Scoped : mem'["scenario"][m].id = mem["scenario"][m].id
                            \/ (p = "scenario" /\ mem'["scenario"][m].id = entry.id)
      BY <1>2, <2>1
    <3>3. QED
      BY <1>1, <3>1, <3>2 DEF Copy
  <2>4. \A i : Original(i) \/ Copy(i) => i = 0 \/ i \in 1..Len(remote)
    BY <2>1 DEF Typed, Real, Original, Copy, Lent
  <2>5. CASE New(p, n, entry)
    <3>1. entry.id \notin 1..Len(remote) /\ entry.id # 0
      BY <1>6, <2>5 DEF New
    <3>2. QED
      BY <2>2, <2>3, <2>4, <3>1 DEF Apart
  <2>6. CASE Kept(p, n, entry)
    <3>1. p = "prod" => Original(entry.id)
      BY <1>5, <2>6 DEF Kept, Original, lend
    <3>2. p = "scenario" => Copy(entry.id)
      BY <1>3, <1>5, <2>6 DEF Kept, Copy, Lent, lend
    <3>3. QED
      BY <2>2, <2>3, <3>1, <3>2 DEF Apart
  <2>7. QED
    BY <2>5, <2>6
<1>14. QED
  BY <1>9, <1>10, <1>11, <1>12, <1>13 DEF DeployInv

LEMMA KnownIsReal ==
  ASSUME Typed, NEW p \in Syncs, NEW n \in Names
  PROVE  Known(p, n) \in Entries /\ Real(Known(p, n))
<1>1. n \in Local => n \in Skills
  BY NamesAssumption
<1>2. QED
  BY <1>1 DEF Typed, Known

LEMMA ReadyNames ==
  ASSUME NEW p \in Syncs, NEW at, NEW n, Ready(p, at, n)
  PROVE  n \in Names /\ pc[p] = at /\ (p = "scenario" => n \in Scoped \cup Local)
  BY DEF Ready, Stage, Names, Syncs

LEMMA MakeStep ==
  ASSUME Typed, DeployInv, Apart, NEW p \in Syncs, NEW n \in Names, NEW c \in Content,
         pc[p] # "idle", Make(p, n, c), orphans \subseteq orphans',
         p = "scenario" => n \in Scoped \cup Local,
         Known(p, n).id = 0 \/ (n \notin Local /\ mem[p][n].id \in orphans')
  PROVE  Typed' /\ DeployInv' /\ Apart'
<1>1. remote' = Created(c) /\ Record(p, n, NewEntry(c))
  BY DEF Make
<1>2. /\ Grown /\ Len(remote') = Len(remote) + 1 /\ Len(remote) \in Nat
      /\ Len(remote'[Len(remote) + 1]) = 1
  BY <1>1, MadeIsThere
<1>3. c.rev \in 0..MaxRev
  BY DEF Content
<1>4. /\ NewEntry(c) \in Entries /\ NewEntry(c).id = Len(remote) + 1
      /\ NewEntry(c).version = 1
  BY <1>2, <1>3 DEF NewEntry, Entries, Entry
<1>5. New(p, n, NewEntry(c))
  BY <1>2, <1>4 DEF New
<1>6. /\ NewEntry(c).id \in 1..Len(remote')
      /\ NewEntry(c).version \in 1..Len(remote'[NewEntry(c).id])
  <2>1. Len(remote'[NewEntry(c).id]) = 1
    BY <1>2, <1>4
  <2>2. NewEntry(c).id \in 1..Len(remote')
    BY <1>2, <1>4
  <2>3. QED
    BY <1>4, <2>1, <2>2
<1>7. QED
  BY <1>1, <1>2, <1>4, <1>5, <1>6, Recorded

LEMMA SameStep ==
  ASSUME Typed, DeployInv, Apart, NEW p \in Syncs, NEW n \in Names, pc[p] # "idle",
         Record(p, n, Known(p, n)), Known(p, n) # None, UNCHANGED <<remote, orphans>>,
         p = "scenario" => n \in Scoped \cup Local
  PROVE  Typed' /\ DeployInv' /\ Apart'
<1>1. Known(p, n) \in Entries /\ Real(Known(p, n)) /\ Known(p, n).id # 0
  BY KnownIsReal, EntriesAreRecords
<1>2. remote \in Seq(Seq(Content)) /\ Len(remote) \in Nat
        /\ \A i \in 1..Len(remote) : Len(remote[i]) \in Nat
  BY DEF Typed
<1>3. Grown
  BY <1>2 DEF Grown
<1>4. Kept(p, n, Known(p, n))
  BY DEF Kept
<1>5. /\ Known(p, n).id \in 1..Len(remote')
      /\ Known(p, n).version \in 1..Len(remote'[Known(p, n).id])
  BY <1>1 DEF Real
<1>6. QED
  BY <1>1, <1>3, <1>4, <1>5, Recorded

LEMMA UpdateStep ==
  ASSUME Typed, DeployInv, Apart, NEW p \in Syncs, NEW n \in Names, NEW c \in Content,
         pc[p] # "idle", Known(p, n) # None, UNCHANGED orphans,
         remote' = Updated(Known(p, n).id, c),
         Record(p, n, UpdatedEntry(Known(p, n).id, c)),
         p = "scenario" => n \in Scoped \cup Local
  PROVE  /\ Typed' /\ DeployInv' /\ Apart'
         /\ \A i \in 1..Len(remote) : i # Known(p, n).id => remote'[i] = remote[i]
<1> DEFINE id == Known(p, n).id
           entry == UpdatedEntry(id, c)
<1>1. Known(p, n) \in Entries /\ Real(Known(p, n)) /\ id # 0
  BY KnownIsReal, EntriesAreRecords
<1>2. id \in 1..Len(remote) /\ Known(p, n).version \in 1..Len(remote[id])
  BY <1>1 DEF Real
<1>3. remote[id] # <<>>
  BY <1>2
<1>4. /\ Grown /\ Len(remote') = Len(remote) /\ entry.version \in 1..Len(remote'[id])
      /\ \A i \in 1..Len(remote) : i # id => remote'[i] = remote[i]
  BY <1>2, <1>3, UpdatedIsThere
<1>5. c.rev \in 0..MaxRev
  BY DEF Content
<1>6. entry.id = id /\ entry.rev = c.rev
  BY DEF UpdatedEntry
<1>7. entry = [id |-> entry.id, version |-> entry.version, rev |-> entry.rev]
  BY DEF UpdatedEntry
<1>8. Record(p, n, entry)
  OBVIOUS
<1> HIDE DEF entry
<1>9. entry \in Entries
  <2>1. entry.version \in Nat /\ entry.id \in Nat
    BY <1>2, <1>4, <1>6
  <2>2. QED
    BY <1>1, <1>5, <1>6, <1>7, <2>1 DEF Entries, Entry
<1>10. Kept(p, n, entry)
  BY <1>4, <1>6 DEF Kept
<1>11. Typed' /\ DeployInv' /\ Apart'
  BY <1>1, <1>2, <1>4, <1>6, <1>8, <1>9, <1>10, Recorded
<1>12. QED
  BY <1>4, <1>11

(* A step that makes and forgets nothing. *)
LEMMA NothingForgotten ==
  ASSUME Typed, DeployInv, Apart, UNCHANGED <<remote, saved, mem, locals, orphans>>,
         rev' \in 0..MaxRev, planned' \in [Syncs -> 0..MaxRev],
         \A p \in Syncs : pc'[p] = "idle" <=> pc[p] = "idle"
  PROVE  Typed' /\ DeployInv' /\ Apart'
<1>1. Typed' /\ Apart'
  BY DEF Typed, Real, Apart, Copy, Original, Lent
<1>2. AllKnown'
  BY DEF DeployInv, AllKnown, Accounted, Lent, InFile, InSync
<1>3. ProdKept' /\ ScopedKept'
  BY DEF DeployInv, ProdKept, ScopedKept, Syncs
<1>4. Borrowed'
  BY DEF DeployInv, Borrowed, Elsewhere, Lent
<1>5. QED
  BY <1>1, <1>2, <1>3, <1>4 DEF DeployInv


(* A sync begins with what the files have. *)
LEMMA StartStep ==
  ASSUME Typed, DeployInv, Apart, NEW p \in Syncs, Start(p)
  PROVE  Typed' /\ DeployInv' /\ Apart'
<1>1. /\ mem' = [mem EXCEPT ![p] = Loaded(p)]
      /\ UNCHANGED <<rev, remote, saved, locals, planned, orphans>>
      /\ pc[p] = "idle" /\ \A q \in Syncs : q # p => pc'[q] = pc[q]
  BY DEF Start, disk
<1>2. "prod" \in Syncs /\ "scenario" \in Syncs /\ Scoped \subseteq Names /\ "prod" # "scenario"
        /\ (p = "prod" \/ p = "scenario")
  BY NamesAssumption DEF Syncs, Names
<1>3. /\ mem'[p] = Loaded(p) /\ \A q \in Syncs : q # p => mem'[q] = mem[q]
      /\ mem \in [Syncs -> [Names -> Entries]] /\ saved \in [Syncs -> [Names -> Entries]]
  BY <1>1 DEF Typed
<1>4. /\ p = "prod" => Loaded(p) = saved["prod"]
      /\ p = "scenario" => \A n \in Names :
           /\ n \in Scoped => Loaded(p)[n] = saved["scenario"][n]
           /\ n \notin Scoped => Loaded(p)[n] \in {None, saved["prod"][n]}
  BY <1>2 DEF Loaded
<1>5. Loaded(p) \in [Names -> Entries]
  <2>1. CASE p = "prod"
    BY <1>2, <1>3, <1>4, <2>1
  <2>2. CASE p = "scenario"
    <3>1. \A n \in Names : Loaded(p)[n] \in Entries
      BY <1>2, <1>3, <1>4, <2>2, EntriesAreRecords
    <3>2. Loaded(p) = [n \in Names |-> Loaded(p)[n]]
      BY <1>2, <2>2 DEF Loaded
    <3>3. QED
      BY <3>1, <3>2
  <2>3. QED
    BY <1>2, <2>1, <2>2
<1>6. Typed'
  <2>1. mem' \in [Syncs -> [Names -> Entries]]
    BY <1>1, <1>3, <1>5
  <2>2. \A n \in Names : Real(Loaded(p)[n])
    <3>1. Real(None) /\ \A q \in Syncs, n \in Names : Real(saved[q][n])
      BY EntriesAreRecords DEF Typed, Real
    <3>2. TAKE n \in Names
    <3>3. Loaded(p)[n] \in {None, saved["prod"][n], saved["scenario"][n]}
      BY <1>2, <1>4
    <3>4. QED
      BY <1>2, <3>1, <3>3
  <2>3. \A q \in Syncs, n \in Names : Real(mem[q][n])'
    BY <1>1, <1>3, <2>2 DEF Typed, Real
  <2>4. QED
    BY <1>1, <2>1, <2>3 DEF Typed, Real
<1>7. AllKnown'
  <2>1. \A i : Lent(i) => Lent(i)'
    BY <1>1 DEF Lent
  <2>2. \A i : \A q \in Syncs : InSync(q, i) => InSync(q, i)'
    BY <1>1, <1>3 DEF InSync
  <2>3. \A i : \A q \in Syncs : InFile(q, i) => InFile(q, i)'
    BY <1>1 DEF InFile
  <2>4. QED
    BY <1>1, <2>1, <2>2, <2>3 DEF DeployInv, AllKnown, Accounted
<1>8. ProdKept' /\ ScopedKept'
  BY <1>1, <1>2, <1>3, <1>4 DEF DeployInv, ProdKept, ScopedKept
<1>9. Borrowed'
  <2>1. SUFFICES ASSUME NEW m \in Names \ Scoped
                 PROVE  Elsewhere(saved["scenario"][m].id, m)' /\ Elsewhere(mem["scenario"][m].id, m)'
    BY DEF Borrowed
  <2>2. \A i : Elsewhere(i, m) => Elsewhere(i, m)'
    BY <1>1 DEF Elsewhere, Lent
  <2>3. Elsewhere(saved["scenario"][m].id, m) /\ Elsewhere(mem["scenario"][m].id, m)
    BY DEF DeployInv, Borrowed
  <2>4. p = "scenario" => Elsewhere(Loaded(p)[m].id, m)
    BY <1>4, EntriesAreRecords DEF Elsewhere
  <2>5. QED
    BY <1>1, <1>2, <1>3, <2>2, <2>3, <2>4
<1>10. Apart'
  <2>1. \A i : Copy(i)' => Copy(i)
    BY <1>1, <1>2, <1>3, <1>4 DEF Copy, Lent
  <2>2. \A i : Original(i)' => Original(i)
    BY <1>1, <1>2, <1>3, <1>4 DEF Original
  <2>3. QED
    BY <2>1, <2>2 DEF Apart
<1>11. QED
  BY <1>6, <1>7, <1>8, <1>9, <1>10 DEF DeployInv

(* What ends a sync leaves of it. *)
LEMMA Forgotten ==
  ASSUME Typed, NEW p \in Syncs, Ends(p)
  PROVE  /\ mem' \in [Syncs -> [Names -> Entries]] /\ mem'[p] = NoState
         /\ \A n \in Names : mem'[p][n] = None
         /\ \A q \in Syncs : q # p => mem'[q] = mem[q]
         /\ planned' \in [Syncs -> 0..MaxRev]
<1>1. NoState \in [Names -> Entries] /\ \A n \in Names : NoState[n] = None
  BY EntriesAreRecords DEF NoState
<1>2. 0 \in 0..MaxRev
  BY DeployBounds
<1>3. QED
  BY <1>1, <1>2 DEF Ends, Typed

LEMMA SaveStep ==
  ASSUME Typed, Active, DeployInv, Apart, NEW p \in Syncs, Save(p)
  PROVE  Typed' /\ DeployInv' /\ Apart'
<1>1. /\ saved' = [saved EXCEPT ![p] = mem[p]]
      /\ UNCHANGED <<rev, remote, locals, orphans>> /\ Ends(p) /\ pc[p] # "idle"
  BY DEF Save, Active
<1>2. /\ pc' = [pc EXCEPT ![p] = "idle"] /\ pc \in [Syncs -> {"idle", "env", "skills", "agents", "save"}]
  BY <1>1 DEF Ends, Active
<1>3. "prod" \in Syncs /\ "scenario" \in Syncs /\ Scoped \subseteq Names /\ "prod" # "scenario"
        /\ (p = "prod" \/ p = "scenario")
  BY NamesAssumption DEF Syncs, Names
<1>4. /\ mem \in [Syncs -> [Names -> Entries]] /\ saved \in [Syncs -> [Names -> Entries]]
      /\ saved'[p] = mem[p] /\ \A q \in Syncs : q # p => saved'[q] = saved[q]
      /\ saved' \in [Syncs -> [Names -> Entries]]
  BY <1>1 DEF Typed
<1>5. /\ mem' \in [Syncs -> [Names -> Entries]] /\ \A n \in Names : mem'[p][n] = None
      /\ \A q \in Syncs : q # p => mem'[q] = mem[q]
      /\ planned' \in [Syncs -> 0..MaxRev]
  BY <1>1, Forgotten
<1>6. None.id = 0
  BY EntriesAreRecords
<1>7. \A q \in Syncs : (q = p => pc'[q] = "idle") /\ (q # p => pc'[q] = pc[q])
  BY <1>2
<1>8. \A i : Lent(i) <=> Lent(i)'
  BY <1>1 DEF Lent
<1>9. Typed'
  <2>1. \A q \in Syncs, n \in Names : Real(saved[q][n])'
    BY <1>1, <1>4 DEF Typed, Real
  <2>2. \A q \in Syncs, n \in Names : Real(mem[q][n])'
    <3>1. TAKE q \in Syncs, n \in Names
    <3>2. CASE q = p
      BY <1>5, <1>6, <3>2 DEF Real
    <3>3. CASE q # p
      BY <1>1, <1>5, <3>3 DEF Typed, Real
    <3>4. QED
      BY <3>2, <3>3
  <2>3. QED
    BY <1>1, <1>4, <1>5, <2>1, <2>2 DEF Typed, Real
<1>10. ASSUME NEW i, NEW n \in Names, i # 0, saved[p][n].id = i
       PROVE  Accounted(i)'
  <2>1. CASE p = "prod" \/ n \in Scoped
    <3>1. i = mem[p][n].id \/ i \in orphans
      BY <1>1, <1>3, <1>10, <2>1 DEF DeployInv, ProdKept, ScopedKept
    <3>2. i = mem[p][n].id => InFile(p, i)'
      BY <1>4 DEF InFile
    <3>3. QED
      BY <1>1, <3>1, <3>2 DEF Accounted
  <2>2. CASE p = "scenario" /\ n \notin Scoped
    <3>1. Elsewhere(i, n)
      BY <1>10, <2>2 DEF DeployInv, Borrowed
    <3>2. i = saved["prod"][n].id => InFile("prod", i)'
      BY <1>3, <1>4, <2>2 DEF InFile
    <3>3. QED
      BY <1>1, <1>3, <1>8, <1>10, <3>1, <3>2 DEF Elsewhere, Accounted
  <2>3. QED
    BY <1>3, <2>1, <2>2
<1>11. AllKnown'
  <2>1. SUFFICES ASSUME NEW i \in 1..Len(remote') PROVE Accounted(i)'
    BY DEF AllKnown
  <2>2. i \in 1..Len(remote) /\ i # 0
    BY <1>1
  <2>3. Accounted(i)
    BY <2>2 DEF DeployInv, AllKnown
  <2>4. CASE i \in orphans \/ Lent(i)
    BY <1>1, <1>8, <2>4 DEF Accounted
  <2>5. CASE \E q \in Syncs : InFile(q, i)
    <3>1. PICK q \in Syncs, n \in Names : saved[q][n].id = i
      BY <2>5 DEF InFile
    <3>2. q # p => InFile(q, i)'
      BY <1>4, <3>1 DEF InFile
    <3>3. QED
      BY <1>10, <2>2, <3>1, <3>2 DEF Accounted
  <2>6. CASE \E q \in Syncs : InSync(q, i)
    <3>1. PICK q \in Syncs : InSync(q, i)
      BY <2>6
    <3>2. q = p => InFile(p, i)'
      BY <1>4, <3>1 DEF InFile, InSync
    <3>3. q # p => InSync(q, i)'
      BY <1>5, <1>7, <3>1 DEF InSync
    <3>4. QED
      BY <3>2, <3>3 DEF Accounted
  <2>7. QED
    BY <2>3, <2>4, <2>5, <2>6 DEF Accounted
<1>12. ProdKept' /\ ScopedKept'
  BY <1>1, <1>3, <1>4, <1>5, <1>7 DEF DeployInv, ProdKept, ScopedKept
<1>13. Borrowed'
  <2>1. SUFFICES ASSUME NEW m \in Names \ Scoped
                 PROVE  Elsewhere(saved["scenario"][m].id, m)' /\ Elsewhere(mem["scenario"][m].id, m)'
    BY DEF Borrowed
  <2>2. Elsewhere(saved["scenario"][m].id, m) /\ Elsewhere(mem["scenario"][m].id, m)
    BY DEF DeployInv, Borrowed
  <2>3. ASSUME NEW i, Elsewhere(i, m) PROVE Elsewhere(i, m)'
    <3>1. p = "prod" => saved["prod"][m].id \in {0, saved'["prod"][m].id} \cup orphans
      BY <1>1, <1>4 DEF DeployInv, ProdKept
    <3>2. p # "prod" => saved'["prod"] = saved["prod"]
      BY <1>3, <1>4
    <3>3. QED
      BY <1>1, <1>8, <2>3, <3>1, <3>2 DEF Elsewhere
  <2>4. Elsewhere(0, m)
    BY DEF Elsewhere
  <2>5. CASE p = "scenario"
    BY <1>4, <1>5, <1>6, <2>2, <2>3, <2>4, <2>5
  <2>6. CASE p # "scenario"
    BY <1>3, <1>4, <1>5, <2>2, <2>3, <2>6
  <2>7. QED
    BY <2>5, <2>6
<1>14. Apart'
  <2>1. \A i : Copy(i)' => Copy(i) \/ i = 0
    BY <1>3, <1>4, <1>5, <1>6, <1>8 DEF Copy
  <2>2. \A i : Original(i)' => Original(i) \/ i = 0
    BY <1>3, <1>4, <1>5, <1>6 DEF Original
  <2>3. QED
    BY <2>1, <2>2 DEF Apart
<1>15. QED
  BY <1>9, <1>11, <1>12, <1>13, <1>14 DEF DeployInv

LEMMA AbandonStep ==
  ASSUME Typed, Active, DeployInv, Apart, NEW p \in Syncs, Abandon(p)
  PROVE  Typed' /\ DeployInv' /\ Apart'
<1>1. /\ UNCHANGED <<rev, remote, saved, locals>> /\ Ends(p)
      /\ orphans' = orphans \cup (Ids(mem[p]) \ (Ids(saved["prod"]) \cup Ids(saved[p]) \cup LocalIds))
  BY DEF Abandon, disk
<1>2. "prod" \in Syncs /\ "scenario" \in Syncs /\ Scoped \subseteq Names /\ "prod" # "scenario"
  BY NamesAssumption DEF Syncs, Names
<1>3. /\ mem' \in [Syncs -> [Names -> Entries]] /\ \A n \in Names : mem'[p][n] = None
      /\ \A q \in Syncs : q # p => mem'[q] = mem[q]
      /\ planned' \in [Syncs -> 0..MaxRev]
  BY <1>1, Forgotten
<1>4. None.id = 0
  BY EntriesAreRecords
<1>5. \A q \in Syncs : (q = p => pc'[q] = "idle") /\ (q # p => pc'[q] = pc[q])
  BY <1>1 DEF Ends, Active
<1>6. \A i : Lent(i) <=> Lent(i)'
  BY <1>1 DEF Lent
<1>7. Typed'
  <2>1. \A q \in Syncs, n \in Names : Real(mem[q][n])'
    <3>1. TAKE q \in Syncs, n \in Names
    <3>2. CASE q = p
      BY <1>3, <1>4, <3>2 DEF Real
    <3>3. CASE q # p
      BY <1>1, <1>3, <3>3 DEF Typed, Real
    <3>4. QED
      BY <3>2, <3>3
  <2>2. QED
    BY <1>1, <1>3, <2>1 DEF Typed, Real
<1>8. AllKnown'
  <2>1. SUFFICES ASSUME NEW i \in 1..Len(remote') PROVE Accounted(i)'
    BY DEF AllKnown
  <2>2. i \in 1..Len(remote) /\ i # 0
    BY <1>1
  <2>3. Accounted(i)
    BY <2>2 DEF DeployInv, AllKnown
  <2>4. CASE i \in orphans \/ Lent(i)
    BY <1>1, <1>6, <2>4 DEF Accounted
  <2>5. \A q \in Syncs : InFile(q, i) => InFile(q, i)'
    BY <1>1 DEF InFile
  <2>6. CASE \E q \in Syncs : InSync(q, i)
    <3>1. PICK q \in Syncs, n \in Names : pc[q] # "idle" /\ mem[q][n].id = i
      BY <2>6 DEF InSync
    <3>2. CASE q # p
      BY <1>3, <1>5, <3>1, <3>2 DEF Accounted, InSync
    <3>3. CASE q = p
      <4>1. i \in Ids(mem[p])
        BY <2>2, <3>1, <3>3 DEF Ids
      <4>2. i \in orphans' \/ i \in Ids(saved["prod"]) \/ i \in Ids(saved[p]) \/ i \in LocalIds
        BY <1>1, <4>1
      <4>3. i \in Ids(saved["prod"]) => InFile("prod", i)
        BY DEF Ids, InFile
      <4>4. i \in Ids(saved[p]) => InFile(p, i)
        BY DEF Ids, InFile
      <4>5. i \in LocalIds => Lent(i)
        BY DEF LocalIds, Lent
      <4>6. QED
        BY <1>2, <1>6, <2>5, <4>2, <4>3, <4>4, <4>5 DEF Accounted
    <3>4. QED
      BY <3>2, <3>3
  <2>7. QED
    BY <2>3, <2>4, <2>5, <2>6 DEF Accounted
<1>9. ProdKept' /\ ScopedKept'
  BY <1>1, <1>2, <1>3, <1>5 DEF DeployInv, ProdKept, ScopedKept
<1>10. Borrowed'
  <2>1. SUFFICES ASSUME NEW m \in Names \ Scoped
                 PROVE  Elsewhere(saved["scenario"][m].id, m)' /\ Elsewhere(mem["scenario"][m].id, m)'
    BY DEF Borrowed
  <2>2. Elsewhere(saved["scenario"][m].id, m) /\ Elsewhere(mem["scenario"][m].id, m)
    BY DEF DeployInv, Borrowed
  <2>3. \A i : Elsewhere(i, m) => Elsewhere(i, m)'
    BY <1>1, <1>6 DEF Elsewhere
  <2>4. Elsewhere(0, m)
    BY DEF Elsewhere
  <2>5. QED
    BY <1>1, <1>2, <1>3, <1>4, <2>2, <2>3, <2>4
<1>11. Apart'
  <2>1. \A i : Copy(i)' => Copy(i) \/ i = 0
    BY <1>1, <1>2, <1>3, <1>4, <1>6 DEF Copy
  <2>2. \A i : Original(i)' => Original(i) \/ i = 0
    BY <1>1, <1>2, <1>3, <1>4 DEF Original
  <2>3. QED
    BY <2>1, <2>2 DEF Apart
<1>12. QED
  BY <1>7, <1>8, <1>9, <1>10, <1>11 DEF DeployInv

(* A file that is cut short is as if it had not been there. *)
LEMMA SaveCutStep ==
  ASSUME Typed, Active, DeployInv, Apart, NEW p \in Syncs, SaveCut(p)
  PROVE  Typed' /\ DeployInv' /\ Apart'
<1>1. /\ saved' = [saved EXCEPT ![p] = NoState] /\ UNCHANGED <<rev, remote, locals>> /\ Ends(p)
      /\ orphans' = orphans \cup
           ((Ids(saved[p]) \cup Ids(mem[p])) \ (Ids(saved'["prod"]) \cup LocalIds))
  BY DEF SaveCut
<1>2. "prod" \in Syncs /\ "scenario" \in Syncs /\ Scoped \subseteq Names /\ "prod" # "scenario"
        /\ (p = "prod" \/ p = "scenario")
  BY NamesAssumption DEF Syncs, Names
<1>3. /\ mem' \in [Syncs -> [Names -> Entries]] /\ \A n \in Names : mem'[p][n] = None
      /\ \A q \in Syncs : q # p => mem'[q] = mem[q]
      /\ planned' \in [Syncs -> 0..MaxRev]
  BY <1>1, Forgotten
<1>4. None.id = 0 /\ None \in Entries /\ \A n \in Names : NoState[n] = None
  BY EntriesAreRecords DEF NoState
<1>5. \A q \in Syncs : (q = p => pc'[q] = "idle") /\ (q # p => pc'[q] = pc[q])
  BY <1>1 DEF Ends, Active
<1>6. /\ \A n \in Names : saved'[p][n] = None
      /\ \A q \in Syncs : q # p => saved'[q] = saved[q]
      /\ saved' \in [Syncs -> [Names -> Entries]]
  <2>1. NoState \in [Names -> Entries]
    BY <1>4 DEF NoState
  <2>2. QED
    BY <1>1, <1>4, <2>1 DEF Typed
<1>7. \A i : Lent(i) <=> Lent(i)'
  BY <1>1 DEF Lent
<1>8. Typed'
  <2>1. ASSUME NEW q \in Syncs, NEW n \in Names PROVE Real(saved[q][n])' /\ Real(mem[q][n])'
    <3>1. CASE q = p
      BY <1>3, <1>4, <1>6, <3>1 DEF Real
    <3>2. CASE q # p
      BY <1>1, <1>3, <1>6, <3>2 DEF Typed, Real
    <3>3. QED
      BY <3>1, <3>2
  <2>2. QED
    BY <1>1, <1>3, <1>6, <2>1 DEF Typed, Real
<1>9. ASSUME NEW i, NEW n \in Names, i # 0, i = saved[p][n].id \/ i = mem[p][n].id
      PROVE  Accounted(i)' /\ (i \in orphans' \/ Lent(i)' \/ p # "prod")
  <2>1. i \in Ids(saved[p]) \cup Ids(mem[p])
    BY <1>9 DEF Ids
  <2>2. i \in orphans' \/ i \in Ids(saved'["prod"]) \/ i \in LocalIds
    BY <1>1, <2>1
  <2>3. i \in LocalIds => Lent(i)'
    BY <1>7 DEF LocalIds, Lent
  <2>4. i \in Ids(saved'["prod"]) => InFile("prod", i)' /\ p # "prod"
    BY <1>4, <1>6 DEF Ids, InFile
  <2>5. QED
    BY <1>2, <2>2, <2>3, <2>4 DEF Accounted
<1>10. AllKnown'
  <2>1. SUFFICES ASSUME NEW i \in 1..Len(remote') PROVE Accounted(i)'
    BY DEF AllKnown
  <2>2. i \in 1..Len(remote) /\ i # 0
    BY <1>1
  <2>3. Accounted(i)
    BY <2>2 DEF DeployInv, AllKnown
  <2>4. CASE i \in orphans \/ Lent(i)
    BY <1>1, <1>7, <2>4 DEF Accounted
  <2>5. CASE \E q \in Syncs : InFile(q, i) \/ InSync(q, i)
    <3>1. PICK q \in Syncs : InFile(q, i) \/ InSync(q, i)
      BY <2>5
    <3>2. CASE q = p
      BY <1>9, <2>2, <3>1, <3>2 DEF InFile, InSync
    <3>3. CASE q # p
      BY <1>3, <1>5, <1>6, <3>1, <3>3 DEF Accounted, InFile, InSync
    <3>4. QED
      BY <3>2, <3>3
  <2>6. QED
    BY <2>3, <2>4, <2>5 DEF Accounted
<1>11. ProdKept'
  <2>1. CASE p = "prod"
    BY <1>5, <2>1 DEF ProdKept
  <2>2. CASE p # "prod"
    BY <1>1, <1>2, <1>3, <1>5, <1>6, <2>2 DEF DeployInv, ProdKept
  <2>3. QED
    BY <2>1, <2>2
<1>12. ScopedKept'
  <2>1. CASE p = "scenario"
    BY <1>5, <2>1 DEF ScopedKept
  <2>2. CASE p # "scenario"
    BY <1>1, <1>2, <1>3, <1>5, <1>6, <2>2 DEF DeployInv, ScopedKept
  <2>3. QED
    BY <2>1, <2>2
<1>13. Borrowed'
  <2>1. SUFFICES ASSUME NEW m \in Names \ Scoped
                 PROVE  Elsewhere(saved["scenario"][m].id, m)' /\ Elsewhere(mem["scenario"][m].id, m)'
    BY DEF Borrowed
  <2>2. Elsewhere(saved["scenario"][m].id, m) /\ Elsewhere(mem["scenario"][m].id, m)
    BY DEF DeployInv, Borrowed
  <2>3. ASSUME NEW i, Elsewhere(i, m) PROVE Elsewhere(i, m)'
    <3>1. CASE i \in {0} \cup orphans \/ Lent(i)
      BY <1>1, <1>7, <3>1 DEF Elsewhere
    <3>2. CASE i = saved["prod"][m].id /\ i # 0
      <4>1. p # "prod" => saved'["prod"] = saved["prod"]
        BY <1>2, <1>6
      <4>2. p = "prod" => i \in orphans' \/ Lent(i)'
        BY <1>9, <3>2
      <4>3. QED
        BY <3>2, <4>1, <4>2 DEF Elsewhere
    <3>3. QED
      BY <2>3, <3>1, <3>2 DEF Elsewhere
  <2>4. Elsewhere(0, m)'
    BY DEF Elsewhere
  <2>5. saved'["scenario"][m].id \in {0, saved["scenario"][m].id}
          /\ mem'["scenario"][m].id \in {0, mem["scenario"][m].id}
    BY <1>2, <1>3, <1>4, <1>6
  <2>6. QED
    BY <2>2, <2>3, <2>4, <2>5 DEF Elsewhere
<1>14. Apart'
  <2>1. \A i : Copy(i)' => Copy(i) \/ i = 0
    BY <1>2, <1>3, <1>4, <1>6, <1>7 DEF Copy
  <2>2. \A i : Original(i)' => Original(i) \/ i = 0
    BY <1>2, <1>3, <1>4, <1>6 DEF Original
  <2>3. QED
    BY <2>1, <2>2 DEF Apart
<1>15. QED
  BY <1>8, <1>10, <1>11, <1>12, <1>13, <1>14 DEF DeployInv

(* An object that is made and never heard of is an orphan. *)
LEMMA LostStep ==
  ASSUME Typed, DeployInv, Apart, NEW c \in Content, remote' = Created(c),
         orphans' = orphans \cup {Len(remote) + 1},
         UNCHANGED <<rev, saved, locals, pc, mem, planned>>
  PROVE  Typed' /\ DeployInv' /\ Apart'
<1>1. Grown /\ Len(remote') = Len(remote) + 1 /\ Len(remote) \in Nat
  BY MadeIsThere
<1>2. Typed'
  <2>1. \A p \in Syncs, n \in Names : Real(saved[p][n])' /\ Real(mem[p][n])'
    BY <1>1, RealStays DEF Typed, Real
  <2>2. \A s \in Skills : Real(locals[s])'
    BY <1>1, RealStays DEF Typed, Real
  <2>3. QED
    BY <1>1, <2>1, <2>2 DEF Typed, Grown
<1>3. AllKnown'
  <2>1. SUFFICES ASSUME NEW i \in 1..Len(remote') PROVE Accounted(i)'
    BY DEF AllKnown
  <2>2. i \in 1..Len(remote) \/ i = Len(remote) + 1
    BY <1>1
  <2>3. i = Len(remote) + 1 => Accounted(i)'
    BY DEF Accounted
  <2>4. i \in 1..Len(remote) => Accounted(i)
    BY DEF DeployInv, AllKnown
  <2>5. Accounted(i) => Accounted(i)'
    BY DEF Accounted, Lent, InFile, InSync
  <2>6. QED
    BY <2>2, <2>3, <2>4, <2>5
<1>4. ProdKept' /\ ScopedKept'
  BY DEF DeployInv, ProdKept, ScopedKept
<1>5. Borrowed' /\ Apart'
  BY DEF DeployInv, Borrowed, Elsewhere, Lent, Apart, Copy, Original
<1>6. QED
  BY <1>2, <1>3, <1>4, <1>5 DEF DeployInv

-----------------------------------------------------------------------------
(* The steps of a sync, together.                                          *)
DInv == Typed /\ Active /\ DeployInv /\ Apart
Spared ==
  pc["prod"] = "idle" => \A i \in Ids(saved["prod"]) : remote'[i] = remote[i]

LEMMA FilesName ==
  ASSUME Typed
  PROVE  \A i \in Ids(saved["prod"]) : i \in 1..Len(remote) /\ Original(i)
<1>1. "prod" \in Syncs
  BY DEF Syncs
<1>2. QED
  BY <1>1 DEF Typed, Real, Ids, Original

LEMMA MakeSpares ==
  ASSUME Typed, NEW c \in Content, remote' = Created(c)
  PROVE  Spared
BY MadeIsThere, FilesName DEF Spared

LEMMA UpdateSpares ==
  ASSUME Typed, Apart, NEW p \in Syncs, NEW n \in Names, pc[p] # "idle", Known(p, n) # None,
         p = "scenario" => n \in Scoped \cup Local,
         \A i \in 1..Len(remote) : i # Known(p, n).id => remote'[i] = remote[i]
  PROVE  Spared
<1>1. SUFFICES ASSUME pc["prod"] = "idle", NEW i \in Ids(saved["prod"])
               PROVE  remote'[i] = remote[i]
  BY DEF Spared
<1>2. p = "scenario" /\ i \in 1..Len(remote) /\ Original(i) /\ i \in Nat /\ i # 0
  BY <1>1, FilesName DEF Syncs, Typed
<1>3. i = Known(p, n).id => Copy(i)
  <2>1. n \in Local => n \in Skills
    BY NamesAssumption
  <2>2. QED
    BY <1>2, <2>1 DEF Known, Copy, Lent
<1>4. i # Known(p, n).id
  BY <1>2, <1>3 DEF Apart
<1>5. QED
  BY <1>2, <1>4

LEMMA RevisionIsContent ==
  ASSUME Typed, NEW n \in Names
  PROVE  Plain(n, rev) \in Content /\ Plain(n, 0) \in Content
<1>1. rev \in 0..MaxRev /\ 0 \in 0..MaxRev
  BY DeployBounds DEF Typed
<1>2. QED
  BY <1>1, PlainIsContent

LEMMA EnsureEnvironmentStep ==
  ASSUME DInv, NEW p \in Syncs, EnsureEnvironment(p)
  PROVE  Typed' /\ DeployInv' /\ Apart' /\ Spared
<1>1. Ready(p, "env", Env) /\ UNCHANGED orphans
  BY DEF EnsureEnvironment
<1>2. /\ Env \in Names /\ Env \notin Local /\ pc[p] # "idle"
      /\ p = "scenario" => Env \in Scoped \cup Local
  BY <1>1, ReadyNames, NamesAssumption
<1>3. Known(p, Env) = mem[p][Env]
  BY <1>2 DEF Known
<1>4. CASE mem[p][Env] = None
  <2>1. Make(p, Env, Plain(Env, 0))
    BY <1>4 DEF EnsureEnvironment
  <2>2. Known(p, Env).id = 0
    BY <1>3, <1>4, EntriesAreRecords
  <2>3. Plain(Env, 0) \in Content
    BY <1>2, RevisionIsContent DEF DInv
  <2>4. remote' = Created(Plain(Env, 0))
    BY <2>1 DEF Make
  <2>5. Spared
    BY <2>3, <2>4, MakeSpares DEF DInv
  <2>6. QED
    BY <1>1, <1>2, <2>1, <2>2, <2>3, <2>5, MakeStep DEF DInv
<1>5. CASE mem[p][Env] # None
  <2>1. Record(p, Env, Known(p, Env)) /\ UNCHANGED <<remote, orphans>> /\ Known(p, Env) # None
    BY <1>3, <1>5 DEF EnsureEnvironment
  <2>2. Spared
    BY <2>1 DEF Spared
  <2>3. QED
    BY <1>2, <2>1, <2>2, SameStep DEF DInv
<1>6. QED
  BY <1>4, <1>5

LEMMA UploadSkillStep ==
  ASSUME DInv, NEW p \in Syncs, NEW s \in Skills, UploadSkill(p, s)
  PROVE  Typed' /\ DeployInv' /\ Apart' /\ Spared
<1>1. Ready(p, "skills", s) /\ UNCHANGED orphans
  BY DEF UploadSkill
<1>2. /\ s \in Names /\ pc[p] # "idle"
      /\ p = "scenario" => s \in Scoped \cup Local
  BY <1>1, ReadyNames
<1>3. Plain(s, rev) \in Content
  BY <1>2, RevisionIsContent DEF DInv
<1>4. CASE Known(p, s) = None
  <2>1. Make(p, s, Plain(s, rev))
    BY <1>4 DEF UploadSkill
  <2>2. Known(p, s).id = 0
    BY <1>4, EntriesAreRecords
  <2>3. remote' = Created(Plain(s, rev))
    BY <2>1 DEF Make
  <2>4. Spared
    BY <1>3, <2>3, MakeSpares DEF DInv
  <2>5. QED
    BY <1>1, <1>2, <1>3, <2>1, <2>2, <2>4, MakeStep DEF DInv
<1>5. CASE Known(p, s) # None /\ Known(p, s).rev = rev
  <2>1. Record(p, s, Known(p, s)) /\ UNCHANGED <<remote, orphans>>
    BY <1>5 DEF UploadSkill
  <2>2. Spared
    BY <2>1 DEF Spared
  <2>3. QED
    BY <1>2, <1>5, <2>1, <2>2, SameStep DEF DInv
<1>6. CASE Known(p, s) # None /\ Known(p, s).rev # rev
  <2>1. /\ remote' = Updated(Known(p, s).id, Plain(s, rev))
        /\ Record(p, s, UpdatedEntry(Known(p, s).id, Plain(s, rev)))
    BY <1>6 DEF UploadSkill
  <2>2. /\ Typed' /\ DeployInv' /\ Apart'
        /\ \A i \in 1..Len(remote) : i # Known(p, s).id => remote'[i] = remote[i]
    BY <1>1, <1>2, <1>3, <1>6, <2>1, UpdateStep DEF DInv
  <2>3. Spared
    BY <1>2, <1>6, <2>2, UpdateSpares DEF DInv
  <2>4. QED
    BY <2>2, <2>3
<1>7. QED
  BY <1>4, <1>5, <1>6

LEMMA AgentIsNotLocal ==
  ASSUME NEW p \in Syncs, NEW k \in Agents \cup {Env}
  PROVE  k \in Names /\ k \notin Local /\ Known(p, k) = mem[p][k]
<1>1. k \in Names /\ k \notin Local
  BY NamesAssumption DEF Names, Agents
<1>2. QED
  BY <1>1 DEF Known

LEMMA EnsureAgentStep ==
  ASSUME DInv, NEW p \in Syncs, NEW k \in Agents, EnsureAgent(p, k)
  PROVE  Typed' /\ DeployInv' /\ Apart' /\ Spared
<1>1. Ready(p, "agents", k) /\ UNCHANGED orphans
  BY DEF EnsureAgent
<1>2. /\ k \in Names /\ pc[p] # "idle"
      /\ p = "scenario" => k \in Scoped \cup Local
  BY <1>1, ReadyNames
<1>3. Payload(p, k) \in Content
  BY PayloadIsContent DEF DInv
<1>4. Known(p, k) = mem[p][k]
  BY AgentIsNotLocal
<1>5. CASE Known(p, k) = None
  <2>1. Make(p, k, Payload(p, k))
    BY <1>4, <1>5 DEF EnsureAgent
  <2>2. Known(p, k).id = 0
    BY <1>5, EntriesAreRecords
  <2>3. remote' = Created(Payload(p, k))
    BY <2>1 DEF Make
  <2>4. Spared
    BY <1>3, <2>3, MakeSpares DEF DInv
  <2>5. QED
    BY <1>1, <1>2, <1>3, <2>1, <2>2, <2>4, MakeStep DEF DInv
<1>6. CASE Known(p, k) # None
  <2>1. /\ remote' = Updated(Known(p, k).id, Payload(p, k))
        /\ Record(p, k, UpdatedEntry(Known(p, k).id, Payload(p, k)))
    BY <1>4, <1>6 DEF EnsureAgent
  <2>2. /\ Typed' /\ DeployInv' /\ Apart'
        /\ \A i \in 1..Len(remote) : i # Known(p, k).id => remote'[i] = remote[i]
    BY <1>1, <1>2, <1>3, <1>6, <2>1, UpdateStep DEF DInv
  <2>3. Spared
    BY <1>2, <1>6, <2>2, UpdateSpares DEF DInv
  <2>4. QED
    BY <2>2, <2>3
<1>7. QED
  BY <1>5, <1>6

LEMMA RetrieveFailsStep ==
  ASSUME DInv, NEW p \in Syncs, NEW n \in Names, RetrieveFails(p, n)
  PROVE  Typed' /\ DeployInv' /\ Apart' /\ Spared
<1> DEFINE c == IF n = Env THEN Plain(Env, 0) ELSE Payload(p, n)
<1>1. /\ n \in Agents \cup {Env} /\ Ready(p, pc[p], n) /\ Make(p, n, c) /\ pc[p] # "idle"
      /\ orphans' = orphans \cup {mem[p][n].id}
  BY DEF RetrieveFails, Fault
<1>2. p = "scenario" => n \in Scoped \cup Local
  BY <1>1, ReadyNames
<1>3. n \notin Local
  BY <1>1, AgentIsNotLocal
<1>4. c \in Content
  <2>1. n = Env => Plain(Env, 0) \in Content
    BY RevisionIsContent DEF DInv
  <2>2. n # Env => Payload(p, n) \in Content
    BY <1>1, PayloadIsContent DEF DInv
  <2>3. QED
    BY <2>1, <2>2
<1> HIDE DEF c
<1>5. remote' = Created(c)
  BY <1>1 DEF Make
<1>6. Spared
  BY <1>4, <1>5, MakeSpares DEF DInv
<1>7. QED
  BY <1>1, <1>2, <1>3, <1>4, <1>6, MakeStep DEF DInv

LEMMA AnswerLostStep ==
  ASSUME DInv, NEW p \in Syncs, NEW n \in Names, AnswerLost(p, n)
  PROVE  Typed' /\ DeployInv' /\ Apart' /\ Spared
<1> DEFINE c == IF n \in Agents THEN Payload(p, n) ELSE Plain(n, rev)
<1>1. /\ remote' = Created(c) /\ orphans' = orphans \cup {Len(remote) + 1}
      /\ UNCHANGED <<rev, saved, locals, pc, mem, planned>>
  BY DEF AnswerLost, disk
<1>2. c \in Content
  <2>1. n \in Agents => Payload(p, n) \in Content
    BY PayloadIsContent DEF DInv
  <2>2. Plain(n, rev) \in Content
    BY RevisionIsContent DEF DInv
  <2>3. QED
    BY <2>1, <2>2
<1> HIDE DEF c
<1>3. Spared
  BY <1>1, <1>2, MakeSpares DEF DInv
<1>4. QED
  BY <1>1, <1>2, <1>3, LostStep DEF DInv

LEMMA ActiveStep ==
  ASSUME DInv, [Next]_vars
  PROVE  Active'
<1>1. CASE UNCHANGED vars
  BY <1>1 DEF DInv, Active, vars, sync
<1>2. CASE Edit \/ \E r \in Roles : StartProcess(r) \/ WriteRecord(r) \/ StopProcess(r)
  BY <1>2 DEF DInv, Active, Edit, StartProcess, WriteRecord, StopProcess, sync
<1>3. ASSUME NEW p \in Syncs,
             \/ Start(p) \/ NextStage(p) \/ Save(p) \/ CallFails(p) \/ Abandon(p) \/ SaveCut(p)
      PROVE  Active'
  <2>1. /\ pc \in [Syncs -> {"idle", "env", "skills", "agents", "save"}]
        /\ failed \in [Syncs -> BOOLEAN] /\ \A q \in Syncs : failed[q] => pc[q] # "idle"
    BY DEF DInv, Active
  <2>2. CASE Start(p)
    BY <2>1, <2>2 DEF Start, Active
  <2>3. CASE NextStage(p)
    BY <2>1, <2>3 DEF NextStage, Active
  <2>4. CASE Save(p)
    BY <2>1, <2>4 DEF Save, Ends, Active
  <2>5. CASE CallFails(p)
    BY <2>1, <2>5 DEF CallFails, Fail, Fault, Active
  <2>6. CASE Abandon(p)
    BY <2>1, <2>6 DEF Abandon, Ends, Active
  <2>7. CASE SaveCut(p)
    BY <2>1, <2>7 DEF SaveCut, Ends, Active
  <2>8. QED
    BY <1>3, <2>2, <2>3, <2>4, <2>5, <2>6, <2>7
<1>4. ASSUME NEW p \in Syncs, NEW n \in Names, AnswerLost(p, n)
      PROVE  Active'
  <2>1. pc[p] # "idle" /\ UNCHANGED pc /\ failed' = [failed EXCEPT ![p] = TRUE]
    BY <1>4 DEF AnswerLost, Fault, Fail
  <2>2. QED
    BY <2>1 DEF DInv, Active
<1>5. ASSUME NEW p \in Syncs, NEW n \in Names, NEW e, Record(p, n, e)
      PROVE  Active'
  BY <1>5 DEF DInv, Active, Record
<1>6. ASSUME NEW p \in Syncs, NEW n \in Names, RetrieveFails(p, n)
      PROVE  Active'
  BY <1>5, <1>6 DEF RetrieveFails, Make
<1>7. ASSUME NEW p \in Syncs, EnsureEnvironment(p)
      PROVE  Active'
  BY <1>5, <1>7 DEF EnsureEnvironment, Make, Names
<1>8. ASSUME NEW p \in Syncs, NEW s \in Skills, UploadSkill(p, s)
      PROVE  Active'
  <2>1. s \in Names /\ \E e : Record(p, s, e)
    BY <1>8 DEF UploadSkill, Make, Names
  <2>2. QED
    BY <1>5, <2>1
<1>9. ASSUME NEW p \in Syncs, NEW k \in Agents, EnsureAgent(p, k)
      PROVE  Active'
  BY <1>5, <1>9 DEF EnsureAgent, Make, Names
<1>10. QED
  BY <1>1, <1>2, <1>3, <1>4, <1>6, <1>7, <1>8, <1>9 DEF Next

LEMMA DeployStep ==
  ASSUME DInv, [Next]_vars
  PROVE  Typed' /\ DeployInv' /\ Apart' /\ Spared
<1>1. rev \in 0..MaxRev /\ planned \in [Syncs -> 0..MaxRev]
  BY DEF DInv, Typed
<1>2. CASE UNCHANGED vars
  <2>1. UNCHANGED <<rev, remote, saved, locals, pc, mem, planned, orphans>>
    BY <1>2 DEF vars, disk, sync
  <2>2. QED
    BY <1>1, <2>1, NothingForgotten DEF DInv, Spared
<1>3. CASE Edit
  <2>1. /\ UNCHANGED <<remote, saved, locals, pc, mem, planned, orphans>>
        /\ rev < MaxRev /\ rev' = rev + 1
    BY <1>3 DEF Edit, disk, sync
  <2>2. rev' \in 0..MaxRev
    BY <1>1, <2>1, DeployBounds
  <2>3. QED
    BY <1>1, <2>1, <2>2, NothingForgotten DEF DInv, Spared
<1>4. CASE \E r \in Roles : StartProcess(r) \/ WriteRecord(r) \/ StopProcess(r)
  <2>1. UNCHANGED <<rev, remote, saved, locals, pc, mem, planned, orphans>>
    BY <1>4 DEF StartProcess, WriteRecord, StopProcess, disk, sync
  <2>2. QED
    BY <1>1, <2>1, NothingForgotten DEF DInv, Spared
<1>5. ASSUME NEW p \in Syncs, NextStage(p)
      PROVE  Typed' /\ DeployInv' /\ Apart' /\ Spared
  <2>1. UNCHANGED <<rev, remote, saved, locals, mem, orphans>>
    BY <1>5 DEF NextStage, disk
  <2>2. planned' \in [Syncs -> 0..MaxRev]
    BY <1>1, <1>5 DEF NextStage
  <2>3. \A q \in Syncs : pc'[q] = "idle" <=> pc[q] = "idle"
    BY <1>5 DEF NextStage, DInv, Active
  <2>4. QED
    BY <1>1, <2>1, <2>2, <2>3, NothingForgotten DEF DInv, Spared
<1>6. ASSUME NEW p \in Syncs, CallFails(p)
      PROVE  Typed' /\ DeployInv' /\ Apart' /\ Spared
  <2>1. UNCHANGED <<rev, remote, saved, locals, pc, mem, planned, orphans>>
    BY <1>6 DEF CallFails, disk
  <2>2. QED
    BY <1>1, <2>1, NothingForgotten DEF DInv, Spared
<1>7. ASSUME NEW p \in Syncs, Start(p) \/ Save(p) \/ Abandon(p) \/ SaveCut(p)
      PROVE  Typed' /\ DeployInv' /\ Apart' /\ Spared
  <2>1. Typed' /\ DeployInv' /\ Apart'
    BY <1>7, StartStep, SaveStep, AbandonStep, SaveCutStep DEF DInv
  <2>2. UNCHANGED remote
    BY <1>7 DEF Start, Save, Abandon, SaveCut
  <2>3. QED
    BY <2>1, <2>2 DEF Spared
<1>8. QED
  BY <1>2, <1>3, <1>4, <1>5, <1>6, <1>7, EnsureEnvironmentStep, UploadSkillStep,
     EnsureAgentStep, RetrieveFailsStep, AnswerLostStep DEF Next

LEMMA DeployInit ==
  ASSUME Init
  PROVE  DInv
<1>1. None \in Entries /\ None.id = 0
  BY EntriesAreRecords
<1>2. NoState \in [Names -> Entries] /\ \A n \in Names : NoState[n] = None
  BY <1>1 DEF NoState
<1>3. /\ saved = [p \in Syncs |-> NoState] /\ mem = [p \in Syncs |-> NoState]
      /\ locals = [s \in Skills |-> None] /\ remote = <<>> /\ rev = 0
      /\ planned = [p \in Syncs |-> 0] /\ failed = [p \in Syncs |-> FALSE]
      /\ pc = [p \in Syncs |-> "idle"]
  BY DEF Init
<1>4. \A p \in Syncs, n \in Names : saved[p][n] = None /\ mem[p][n] = None
  BY <1>2, <1>3
<1>5. 0 \in 0..MaxRev
  BY DeployBounds
<1>6. Typed
  <2>1. remote \in Seq(Seq(Content))
    BY <1>3
  <2>2. \A p \in Syncs, n \in Names : Real(saved[p][n]) /\ Real(mem[p][n])
    BY <1>1, <1>4 DEF Real
  <2>3. locals \in [Skills -> Entries] /\ \A s \in Skills : Real(locals[s])
    BY <1>1, <1>3 DEF Real
  <2>4. QED
    BY <1>2, <1>3, <1>5, <2>1, <2>2, <2>3 DEF Typed
<1>7. Active
  BY <1>3 DEF Active
<1>8. DeployInv
  <2>1. AllKnown
    BY <1>3 DEF AllKnown
  <2>2. ProdKept /\ ScopedKept
    BY <1>3 DEF ProdKept, ScopedKept, Syncs
  <2>3. Borrowed
    BY <1>1, <1>4 DEF Borrowed, Elsewhere, Syncs
  <2>4. QED
    BY <2>1, <2>2, <2>3 DEF DeployInv
<1>9. Apart
  <2>1. "prod" \in Syncs
    BY DEF Syncs
  <2>2. QED
    BY <1>1, <1>4, <2>1 DEF Apart, Original
<1>10. QED
  BY <1>6, <1>7, <1>8, <1>9 DEF DInv

LEMMA AlwaysDInv == Spec => []DInv
<1>1. Init => DInv
  BY DeployInit
<1>2. DInv /\ [Next]_vars => DInv'
  BY ActiveStep, DeployStep DEF DInv
<1>3. QED
  BY <1>1, <1>2, PTL DEF Spec

(* Every object that a sync makes at the API is known to a state file, to  *)
(* the scenarios' file of local skills, or to a sync that still runs, save *)
(* what a kill, a lost answer, a scenario's exception or a failing         *)
(* retrieve left behind: the `finally` of sync_cmd.                        *)
THEOREM NothingIsLost == Spec => []NoneOrphaned
<1>1. DInv => NoneOrphaned
  <2>1. SUFFICES ASSUME DInv, NEW i \in 1..Len(remote)
                 PROVE  i \in Ids(saved["prod"]) \cup Ids(saved["scenario"]) \cup LocalIds
                              \cup orphans \cup UNION {Ids(mem[p]) : p \in {q \in Syncs : pc[q] # "idle"}}
    BY DEF NoneOrphaned
  <2>2. i # 0 /\ Accounted(i)
    BY <2>1 DEF DInv, DeployInv, AllKnown
  <2>3. Lent(i) => i \in LocalIds
    BY <2>2 DEF Lent, LocalIds
  <2>4. \A p \in Syncs : InFile(p, i) => i \in Ids(saved[p])
    BY <2>2 DEF InFile, Ids
  <2>5. \A p \in Syncs : InSync(p, i) => i \in Ids(mem[p]) /\ pc[p] # "idle"
    BY <2>2 DEF InSync, Ids
  <2>6. QED
    BY <2>2, <2>3, <2>4, <2>5 DEF Accounted, Syncs
<1>2. QED
  BY <1>1, AlwaysDInv, PTL

(* While no sync of production runs, nothing changes an object that its    *)
(* state file names: the scenario's copies are objects of their own        *)
(* (scenario_state and the local skills of scenario/runner.py).            *)
THEOREM ScenariosKeepOff == Spec => ScenarioIsolated
<1>1. DInv /\ [Next]_vars =>
        [pc["prod"] = "idle" => \A i \in Ids(saved["prod"]) : remote'[i] = remote[i]]_vars
  BY DeployStep DEF Spared
<1>2. QED
  BY <1>1, AlwaysDInv, PTL DEF Spec, ScenarioIsolated

-----------------------------------------------------------------------------
(* The rest of the types. *)
Rest ==
  /\ whole \in [Syncs -> BOOLEAN]
  /\ done \in [Syncs -> SUBSET Names]
  /\ orphans \subseteq Nat
  /\ proc \in [Roles -> Process]
  /\ record \in [Roles -> [alive : BOOLEAN, state : States, image : 0..MaxRev]]
  /\ events \in 0..MaxEvents /\ starts \in 0..MaxStarts

LEMMA StatesAreTyped ==
  ASSUME Typed
  PROVE  /\ saved \in [Syncs -> States] /\ mem \in [Syncs -> States]
         /\ NoState \in States /\ locals \in [Skills -> Entry]
         /\ saved["prod"] \in States
<1>1. Entries \subseteq Entry
  BY EntriesAreRecords, DeployBounds DEF Entries, Entry, None
<1>2. NoState \in States
  BY <1>1, EntriesAreRecords DEF NoState, States
<1>3. QED
  BY <1>1, <1>2 DEF Typed, States, Syncs

LEMMA RestOfRecord ==
  ASSUME Rest, NEW p \in Syncs, NEW n \in Names, NEW e, Record(p, n, e),
         orphans' \subseteq Nat, events' \in 0..MaxEvents
  PROVE  Rest'
<1>1. done' = [done EXCEPT ![p] = @ \cup {n}] /\ UNCHANGED <<whole, proc, record, starts>>
  BY DEF Record, processes
<1>2. done' \in [Syncs -> SUBSET Names]
  BY <1>1 DEF Rest
<1>3. QED
  BY <1>1, <1>2 DEF Rest

LEMMA RestOfFault ==
  ASSUME Rest, NEW p \in Syncs, Fault(p)
  PROVE  events' \in 0..MaxEvents
BY DeployBounds DEF Rest, Fault

LEMMA RestOfProcess ==
  ASSUME Rest, Typed, NEW r \in Roles,
         \/ StartProcess(r) \/ WriteRecord(r) \/ StopProcess(r)
  PROVE  Rest'
<1>1. /\ saved["prod"] \in States /\ NoState \in States /\ rev \in 0..MaxRev
      /\ 0 \in 0..MaxRev
  BY StatesAreTyped, DeployBounds DEF Typed
<1>2. proc[r] \in Process /\ starts \in 0..MaxStarts
  BY DEF Rest
<1>3. CASE StartProcess(r)
  <2>1. /\ proc' = [proc EXCEPT ![r] = [up |-> "loaded", state |-> saved["prod"], image |-> rev]]
        /\ starts < MaxStarts /\ starts' = starts + 1
        /\ UNCHANGED <<whole, done, orphans, record, events>>
    BY <1>3 DEF StartProcess, disk, sync
  <2>2. starts' \in 0..MaxStarts
    BY <1>2, <2>1, DeployBounds
  <2>3. [up |-> "loaded", state |-> saved["prod"], image |-> rev] \in Process
    BY <1>1 DEF Process
  <2>4. proc' \in [Roles -> Process]
    BY <2>1, <2>3 DEF Rest
  <2>5. QED
    BY <2>1, <2>2, <2>4 DEF Rest
<1>4. CASE WriteRecord(r)
  <2>1. /\ proc' = [proc EXCEPT ![r].up = "running"]
        /\ record' = [record EXCEPT ![r] = [alive |-> TRUE, state |-> proc[r].state,
                                            image |-> proc[r].image]]
        /\ UNCHANGED <<whole, done, orphans, starts, events>>
    BY <1>4 DEF WriteRecord, disk, sync
  <2>2. [proc[r] EXCEPT !.up = "running"] \in Process
    BY <1>2 DEF Process
  <2>3. proc' \in [Roles -> Process]
    BY <2>1, <2>2 DEF Rest
  <2>4. proc[r].state \in States /\ proc[r].image \in 0..MaxRev
    BY <1>2 DEF Process
  <2>5. record' \in [Roles -> [alive : BOOLEAN, state : States, image : 0..MaxRev]]
    BY <2>1, <2>4 DEF Rest
  <2>6. QED
    BY <2>1, <2>3, <2>5 DEF Rest
<1>5. CASE StopProcess(r)
  <2>1. /\ proc' = [proc EXCEPT ![r] = Down] /\ record' = [record EXCEPT ![r] = NoRecord]
        /\ UNCHANGED <<whole, done, orphans, starts, events>>
    BY <1>5 DEF StopProcess, disk, sync
  <2>2. Down \in Process /\ NoRecord \in [alive : BOOLEAN, state : States, image : 0..MaxRev]
    BY <1>1 DEF Down, NoRecord, Process
  <2>3. QED
    BY <2>1, <2>2 DEF Rest
<1>6. QED
  BY <1>3, <1>4, <1>5

LEMMA RestOfEnds ==
  ASSUME Rest, NEW p \in Syncs, Ends(p)
  PROVE  done' \in [Syncs -> SUBSET Names]
BY DEF Rest, Ends

LEMMA RestStep ==
  ASSUME DInv, Rest, [Next]_vars
  PROVE  Rest'
<1>1. /\ Typed /\ remote \in Seq(Seq(Content)) /\ Len(remote) \in Nat
      /\ \A p \in Syncs, n \in Names : mem[p][n].id \in Nat /\ saved[p][n].id \in Nat
  BY EntriesAreRecords DEF DInv, Typed
<1>2. CASE UNCHANGED vars
  BY <1>2 DEF Rest, vars, disk, sync, processes
<1>3. CASE Edit
  BY <1>3 DEF Rest, Edit, disk, sync, processes
<1>4. ASSUME NEW p \in Syncs, Start(p)
      PROVE  Rest'
  <2>1. /\ events < MaxEvents /\ events' = events + 1
        /\ \E skip \in {{}, Local} :
             done' = [done EXCEPT ![p] = IF p = "prod" THEN {} ELSE skip]
        /\ UNCHANGED <<whole, orphans, proc, record, starts>>
    BY <1>4 DEF Start, disk, processes
  <2>2. events' \in 0..MaxEvents
    BY <2>1, DeployBounds DEF Rest
  <2>3. Local \subseteq Names
    BY NamesAssumption DEF Names
  <2>4. done' \in [Syncs -> SUBSET Names]
    BY <2>1, <2>3 DEF Rest
  <2>5. QED
    BY <2>1, <2>2, <2>4 DEF Rest
<1>5. ASSUME NEW p \in Syncs, NextStage(p)
      PROVE  Rest'
  BY <1>5 DEF Rest, NextStage, disk, processes
<1>6. ASSUME NEW p \in Syncs, Save(p)
      PROVE  Rest'
  <2>1. /\ whole' = [whole EXCEPT ![p] = ~failed[p]] /\ Ends(p)
        /\ UNCHANGED <<orphans, proc, record, starts, events>>
    BY <1>6 DEF Save, processes
  <2>2. whole' \in [Syncs -> BOOLEAN]
    BY <2>1 DEF Rest
  <2>3. done' \in [Syncs -> SUBSET Names]
    BY <2>1, RestOfEnds
  <2>4. QED
    BY <2>1, <2>2, <2>3 DEF Rest
<1>7. ASSUME NEW p \in Syncs, CallFails(p)
      PROVE  Rest'
  <2>1. UNCHANGED <<whole, done, orphans, proc, record, starts>>
    BY <1>7 DEF CallFails, disk, processes
  <2>2. events' \in 0..MaxEvents
    BY <1>7, RestOfFault DEF CallFails
  <2>3. QED
    BY <2>1, <2>2 DEF Rest
<1>8. ASSUME NEW p \in Syncs, Abandon(p)
      PROVE  Rest'
  <2>1. /\ Ends(p) /\ UNCHANGED <<whole, proc, record, starts>>
        /\ orphans' = orphans \cup (Ids(mem[p]) \ (Ids(saved["prod"]) \cup Ids(saved[p]) \cup LocalIds))
    BY <1>8 DEF Abandon, disk, processes
  <2>2. Ids(mem[p]) \subseteq Nat
    BY <1>1 DEF Ids
  <2>3. orphans' \subseteq Nat
    BY <2>1, <2>2 DEF Rest
  <2>4. events' \in 0..MaxEvents
    BY <1>8, RestOfFault DEF Abandon, Rest
  <2>5. done' \in [Syncs -> SUBSET Names]
    BY <2>1, RestOfEnds
  <2>6. QED
    BY <2>1, <2>3, <2>4, <2>5 DEF Rest
<1>9. ASSUME NEW p \in Syncs, NEW n \in Names, AnswerLost(p, n)
      PROVE  Rest'
  <2>1. /\ UNCHANGED <<whole, done, proc, record, starts>>
        /\ orphans' = orphans \cup {Len(remote) + 1}
    BY <1>9 DEF AnswerLost, disk, processes
  <2>2. orphans' \subseteq Nat
    <3>1. Len(remote) + 1 \in Nat
      BY <1>1
    <3>2. orphans \subseteq Nat
      BY DEF Rest
    <3>3. QED
      BY <2>1, <3>1, <3>2, Zenon
  <2>3. events' \in 0..MaxEvents
    BY <1>9, RestOfFault DEF AnswerLost
  <2>4. QED
    BY <2>1, <2>2, <2>3 DEF Rest
<1>10. ASSUME NEW p \in Syncs, NEW n \in Names, RetrieveFails(p, n)
       PROVE  Rest'
  <2>1. orphans' = orphans \cup {mem[p][n].id} /\ \E e : Record(p, n, e)
    BY <1>10 DEF RetrieveFails, Make
  <2>2. orphans' \subseteq Nat
    BY <1>1, <2>1 DEF Rest
  <2>3. events' \in 0..MaxEvents
    BY <1>10, RestOfFault DEF RetrieveFails
  <2>4. QED
    BY <2>1, <2>2, <2>3, RestOfRecord
<1>11. ASSUME NEW p \in Syncs,
              \/ EnsureEnvironment(p)
              \/ \E s \in Skills : UploadSkill(p, s)
              \/ \E k \in Agents : EnsureAgent(p, k)
       PROVE  Rest'
  <2>1. UNCHANGED <<orphans, events>>
    BY <1>11 DEF EnsureEnvironment, UploadSkill, EnsureAgent
  <2>2. \E n \in Names : \E e : Record(p, n, e)
    BY <1>11 DEF EnsureEnvironment, UploadSkill, EnsureAgent, Make, Names
  <2>3. orphans' \subseteq Nat /\ events' \in 0..MaxEvents
    BY <2>1 DEF Rest
  <2>4. QED
    BY <2>2, <2>3, RestOfRecord
<1>12. CASE \E r \in Roles : StartProcess(r) \/ WriteRecord(r) \/ StopProcess(r)
  BY <1>1, <1>12, RestOfProcess
<1>13. ASSUME NEW p \in Syncs, SaveCut(p)
       PROVE  Rest'
  <2>1. /\ Ends(p) /\ Fault(p) /\ whole' = [whole EXCEPT ![p] = FALSE]
        /\ UNCHANGED <<proc, record, starts>>
        /\ orphans' = orphans \cup
             ((Ids(saved[p]) \cup Ids(mem[p])) \ (Ids(saved'["prod"]) \cup LocalIds))
    BY <1>13 DEF SaveCut, processes
  <2>2. Ids(mem[p]) \subseteq Nat /\ Ids(saved[p]) \subseteq Nat
    BY <1>1 DEF Ids
  <2>3. orphans' \subseteq Nat
    BY <2>1, <2>2 DEF Rest
  <2>4. events' \in 0..MaxEvents /\ whole' \in [Syncs -> BOOLEAN]
    BY <2>1, RestOfFault DEF Rest
  <2>5. done' \in [Syncs -> SUBSET Names]
    BY <2>1, RestOfEnds
  <2>6. QED
    BY <2>1, <2>3, <2>4, <2>5 DEF Rest
<1>14. QED
  BY <1>2, <1>3, <1>4, <1>5, <1>6, <1>7, <1>8, <1>9, <1>10, <1>11, <1>12, <1>13 DEF Next

LEMMA RestInit ==
  ASSUME Init
  PROVE  Rest
<1>1. NoState \in States /\ 0 \in 0..MaxRev
  BY DeployInit, StatesAreTyped, DeployBounds DEF DInv
<1>2. Down \in Process /\ NoRecord \in [alive : BOOLEAN, state : States, image : 0..MaxRev]
  BY <1>1 DEF Down, NoRecord, Process
<1>3. 0 \in 0..MaxEvents /\ 0 \in 0..MaxStarts 
  BY DeployBounds
<1>4. QED
  BY <1>2, <1>3 DEF Init, Rest

(* Every variable keeps its type, and a state file, like a sync's own      *)
(* state, names only versions that exist at the API.                       *)
THEOREM TypeCorrect == Spec => []TypeOK
<1>1. Init => DInv /\ Rest
  BY DeployInit, RestInit
<1>2. (DInv /\ Rest) /\ [Next]_vars => (DInv /\ Rest)'
  BY ActiveStep, DeployStep, RestStep DEF DInv
<1>3. DInv /\ Rest => TypeOK
  <2>1. SUFFICES ASSUME DInv, Rest PROVE TypeOK
    OBVIOUS
  <2>2. /\ saved \in [Syncs -> States] /\ mem \in [Syncs -> States] /\ locals \in [Skills -> Entry]
    BY <2>1, StatesAreTyped DEF DInv
  <2>3. \A p \in Syncs : Exists(saved[p]) /\ Exists(mem[p])
    BY <2>1 DEF DInv, Typed, Real, Exists
  <2>4. QED
    BY <2>1, <2>2, <2>3 DEF TypeOK, DInv, Typed, Active, Rest
<1>4. QED
  BY <1>1, <1>2, <1>3, PTL DEF Spec
-----------------------------------------------------------------------------
(* What a new session is made of.  Of production's state: its revisions    *)
(* are the API's, a skill keeps its id, and a sync deals with the skills,  *)
(* then the specialists, then the coordinator that pins them.              *)
ToldOf(e) == e.id # 0 => Version(<<e.id, e.version>>).rev = e.rev
Truthful == \A n \in Names : ToldOf(saved["prod"][n]) /\ ToldOf(mem["prod"][n])

PinnedBy(c, S) ==
  /\ \A s \in Skills : c.uses[s] = <<S[s].id, 0>>
  /\ \A k \in Specialists : c.uses[k] = <<S[k].id, S[k].version>>
Pins(S) == PinnedBy(Version(<<S[Coordinator].id, S[Coordinator].version>>), S)

SkillsKept ==
  pc["prod"] # "idle" =>
    \A s \in Skills : saved["prod"][s].id \in {0, mem["prod"][s].id}
Staged ==
  /\ \A n \in done["prod"] : mem["prod"][n].id # 0
  /\ pc["prod"] \in {"idle", "env", "skills"} => Coordinator \notin done["prod"]
  /\ pc["prod"] \in {"agents", "save"} => Skills \subseteq done["prod"]
  /\ pc["prod"] = "save" => ~failed["prod"] /\ Agents \subseteq done["prod"]
  /\ Coordinator \in done["prod"] => Specialists \subseteq done["prod"] /\ Pins(mem["prod"])
WholeFits ==
  whole["prod"] =>
    (\A n \in Skills \cup Agents : saved["prod"][n].id # 0) /\ Pins(saved["prod"])
(* A process that has the environment of a state knows no other skills. *)
Lists(S, F) == \A s \in Skills : S[s].id \in {0, F[s].id}
Loads ==
  \A r \in Roles :
    /\ proc[r].up # "down" =>
         LET S == proc[r].state IN
         /\ S[Env].id \in 1..Len(remote) /\ \A s \in Skills : S[s] \in Entries
         /\ S[Env].id = saved["prod"][Env].id => Lists(S, saved["prod"])
         /\ pc["prod"] # "idle" /\ S[Env].id = mem["prod"][Env].id => Lists(S, mem["prod"])
    /\ record[r].alive => proc[r].up # "down" /\ record[r].state = proc[r].state
FitInv == Truthful /\ SkillsKept /\ Staged /\ WholeFits /\ Loads

(* The versions of an object never change. *)
Immutable ==
  /\ 1..Len(remote) \subseteq 1..Len(remote')
  /\ \A i \in 1..Len(remote) : \A j \in 1..Len(remote[i]) : remote'[i][j] = remote[i][j]

LEMMA MadeHistory ==
  ASSUME Typed, NEW c \in Content, remote' = Created(c)
  PROVE  Immutable /\ remote'[Len(remote) + 1][1] = c
<1>1. remote \in Seq(Seq(Content)) /\ <<c>> \in Seq(Content) /\ Len(remote) \in Nat
  BY DEF Typed
<1>2. \A i \in 1..Len(remote) : remote'[i] = remote[i]
  BY MadeIsThere
<1>3. remote'[Len(remote) + 1] = <<c>>
  BY <1>1 DEF Created
<1>4. 1..Len(remote) \subseteq 1..Len(remote')
  <2>1. Len(remote') = Len(remote) + 1
    BY MadeIsThere
  <2>2. QED
    BY <1>1, <2>1
<1>5. QED
  BY <1>2, <1>3, <1>4 DEF Immutable

LEMMA UpdatedHistory ==
  ASSUME Typed, NEW id \in 1..Len(remote), NEW c \in Content, remote' = Updated(id, c),
         remote[id] # <<>>
  PROVE  Immutable /\ remote'[id][UpdatedEntry(id, c).version] = c
<1>1. /\ remote \in Seq(Seq(Content)) /\ Len(remote) \in Nat /\ remote[id] \in Seq(Content)
      /\ Len(remote[id]) \in Nat \ {0}
  BY DEF Typed
<1>2. CASE Current(id) = c
  <2>1. remote' = remote /\ UpdatedEntry(id, c).version = Len(remote[id])
    BY <1>1, <1>2 DEF Updated, UpdatedEntry
  <2>2. QED
    BY <1>2, <2>1 DEF Immutable, Current
<1>3. CASE Current(id) # c
  <2>1. UpdatedEntry(id, c).version = Len(remote[id]) + 1
    BY <1>3 DEF UpdatedEntry
  <2>2. remote' = [remote EXCEPT ![id] = Append(remote[id], c)]
    BY <1>3 DEF Updated
  <2>3. /\ remote'[id] = Append(remote[id], c)
        /\ \A i \in 1..Len(remote) : i # id => remote'[i] = remote[i]
    BY <1>1, <2>2
  <2>4. /\ Append(remote[id], c)[Len(remote[id]) + 1] = c
        /\ \A j \in 1..Len(remote[id]) : Append(remote[id], c)[j] = remote[id][j]
    BY <1>1
  <2>5. Immutable
    <3>1. Len(remote') = Len(remote)
      BY UpdatedIsThere
    <3>2. QED
      BY <2>3, <2>4, <3>1 DEF Immutable
  <2>6. QED
    BY <2>1, <2>3, <2>4, <2>5
<1>4. QED
  BY <1>2, <1>3

LEMMA VersionStays ==
  ASSUME Immutable, NEW e, Real(e), e.id # 0
  PROVE  remote'[e.id][e.version] = remote[e.id][e.version]
BY DEF Immutable, Real

(* A state whose objects exist fits as long as it is not changed. *)
LEMMA FitsStill ==
  ASSUME Typed, Immutable
  PROVE  /\ \A p \in Syncs, n \in Names : ToldOf(saved[p][n]) =>
              (saved[p][n].id # 0 =>
                 remote'[saved[p][n].id][saved[p][n].version].rev = saved[p][n].rev)
         /\ \A p \in Syncs, n \in Names : ToldOf(mem[p][n]) =>
              (mem[p][n].id # 0 =>
                 remote'[mem[p][n].id][mem[p][n].version].rev = mem[p][n].rev)
<1>1. \A p \in Syncs, n \in Names : Real(saved[p][n]) /\ Real(mem[p][n])
  BY DEF Typed
<1>2. QED
  BY <1>1, VersionStays DEF ToldOf, Version

(* A step that is not about production's state. *)
LEMMA Unaffected ==
  ASSUME DInv, FitInv, Immutable, UNCHANGED proc, UNCHANGED record,
         saved'["prod"] = saved["prod"], whole'["prod"] = whole["prod"],
         mem'["prod"] = mem["prod"], done'["prod"] = done["prod"],
         pc'["prod"] = pc["prod"], failed'["prod"] => failed["prod"] \/ pc["prod"] # "save"
  PROVE  FitInv'
<1>1. "prod" \in Syncs /\ Coordinator \in Names
  BY DEF Syncs, Names, Agents
<1>2. Truthful'
  BY <1>1, FitsStill DEF DInv, FitInv, Truthful, ToldOf, Version
<1>3. Real(saved["prod"][Coordinator]) /\ Real(mem["prod"][Coordinator])
  BY <1>1 DEF DInv, Typed
<1>4. Coordinator \in done["prod"] => (Pins(mem["prod"]))'
  <2>1. SUFFICES ASSUME Coordinator \in done["prod"] PROVE (Pins(mem["prod"]))'
    OBVIOUS
  <2>2. mem["prod"][Coordinator].id # 0 /\ Pins(mem["prod"])
    BY <2>1 DEF FitInv, Staged
  <2>3. QED
    BY <1>3, <2>2, VersionStays DEF Pins, Version
<1>5. Staged'
  BY <1>4 DEF FitInv, Staged
<1>6. WholeFits'
  <2>1. SUFFICES ASSUME whole["prod"]
                 PROVE  /\ \A n \in Skills \cup Agents : saved["prod"][n].id # 0
                        /\ (Pins(saved["prod"]))'
    BY DEF WholeFits
  <2>2. (\A n \in Skills \cup Agents : saved["prod"][n].id # 0) /\ Pins(saved["prod"])
    BY <2>1 DEF FitInv, WholeFits
  <2>3. saved["prod"][Coordinator].id # 0
    BY <2>2 DEF Agents
  <2>4. QED
    BY <1>3, <2>2, <2>3, VersionStays DEF Pins, Version
<1>7. SkillsKept'
  BY DEF FitInv, SkillsKept
<1>8. Loads'
  BY DEF FitInv, Loads, Lists, Immutable
<1>9. QED
  BY <1>2, <1>5, <1>6, <1>7, <1>8 DEF FitInv

(* Production's sync has dealt with n. *)
LEMMA Dealt ==
  ASSUME DInv, Rest, FitInv, Immutable, NEW n \in Names, NEW e, Record("prod", n, e),
         n \notin done["prod"], pc["prod"] # "idle",
         e.id # 0, Version(<<e.id, e.version>>)'.rev = e.rev,
         n \in Skills => mem["prod"][n].id \in {0, e.id} /\ pc["prod"] = "skills",
         n \in Agents => pc["prod"] = "agents",
         n = Env => e.id \in {mem["prod"][Env].id, Len(remote) + 1},
         n = Coordinator =>
           /\ Specialists \subseteq done["prod"]
           /\ Version(<<e.id, e.version>>)'.uses = Payload("prod", Coordinator).uses
  PROVE  FitInv'
<1>1. "prod" \in Syncs /\ Coordinator \in Names /\ Specialists \subseteq Names
        /\ Skills \subseteq Names /\ Coordinator \notin Skills \cup Specialists
        /\ Coordinator \in Agents /\ Specialists \subseteq Agents
  BY NamesAssumption DEF Syncs, Names, Agents
<1>2. /\ mem' = [mem EXCEPT !["prod"][n] = e] /\ done' = [done EXCEPT !["prod"] = @ \cup {n}]
      /\ UNCHANGED <<saved, whole, pc, failed, proc, record>>
  BY DEF Record, processes
<1>3. /\ mem'["prod"][n] = e /\ \A m \in Names : m # n => mem'["prod"][m] = mem["prod"][m]
      /\ done'["prod"] = done["prod"] \cup {n} /\ done["prod"] \subseteq Names
  BY <1>1, <1>2 DEF DInv, Typed, Rest
<1>4. Truthful'
  <2>1. SUFFICES ASSUME NEW m \in Names PROVE ToldOf(saved["prod"][m])' /\ ToldOf(mem["prod"][m])'
    BY DEF Truthful
  <2>2. ToldOf(saved["prod"][m]) /\ ToldOf(mem["prod"][m])
    BY DEF FitInv, Truthful
  <2>3. Typed
    BY DEF DInv
  <2>4. /\ saved["prod"][m].id # 0 =>
             remote'[saved["prod"][m].id][saved["prod"][m].version].rev = saved["prod"][m].rev
        /\ mem["prod"][m].id # 0 =>
             remote'[mem["prod"][m].id][mem["prod"][m].version].rev = mem["prod"][m].rev
    BY <1>1, <2>2, <2>3, FitsStill
  <2>5. saved'["prod"] = saved["prod"]
    BY <1>2
  <2>6. ToldOf(saved["prod"][m])'
    BY <2>4, <2>5 DEF ToldOf, Version
  <2>7. m # n => ToldOf(mem["prod"][m])'
    BY <1>3, <2>4 DEF ToldOf, Version
  <2>8. m = n => ToldOf(mem["prod"][m])'
    BY <1>3 DEF ToldOf, Version
  <2>9. QED
    BY <2>8, <2>6, <2>7
<1>5. Coordinator \in done'["prod"] => Specialists \subseteq done'["prod"] /\ (Pins(mem["prod"]))'
  <2>1. CASE n = Coordinator
    <3>1. \A m \in Skills \cup Specialists : mem'["prod"][m] = mem["prod"][m]
      BY <1>1, <1>3, <2>1
    <3>2. /\ \A s \in Skills : Payload("prod", Coordinator).uses[s] = <<mem["prod"][s].id, 0>>
          /\ \A k \in Specialists : Payload("prod", Coordinator).uses[k]
                                      = <<mem["prod"][k].id, mem["prod"][k].version>>
      BY NamesAssumption DEF Payload, Agents
    <3> PICK c : c = Version(<<e.id, e.version>>)'
      OBVIOUS
    <3> PICK S : S = mem'["prod"]
      OBVIOUS
    <3>5. PinnedBy(c, S)
      BY <2>1, <3>1, <3>2 DEF PinnedBy
    <3>3. (Pins(mem["prod"]))'
      BY <1>3, <2>1, <3>5 DEF Pins, Version
    <3>4. QED
      BY <1>3, <2>1, <3>3
  <2>2. CASE n # Coordinator /\ Coordinator \in done["prod"]
    <3>1. Specialists \subseteq done["prod"] /\ Pins(mem["prod"]) /\ mem["prod"][Coordinator].id # 0
      BY <2>2 DEF FitInv, Staged
    <3>2. n \notin Skills
      BY <2>2 DEF FitInv, Staged
    <3>3. n \notin Specialists
      BY <3>1
    <3>4. \A m \in Skills \cup Specialists \cup {Coordinator} : mem'["prod"][m] = mem["prod"][m]
      BY <1>1, <1>3, <2>2, <3>2, <3>3
    <3> PICK c : c = Version(<<mem["prod"][Coordinator].id, mem["prod"][Coordinator].version>>)
      OBVIOUS
    <3> PICK S : S = mem'["prod"]
      OBVIOUS
    <3>5. PinnedBy(c, mem["prod"]) => PinnedBy(c, S)
      BY <3>4 DEF PinnedBy
    <3>6. Version(<<mem["prod"][Coordinator].id, mem["prod"][Coordinator].version>>)' = c
      <4>1. remote'[mem["prod"][Coordinator].id][mem["prod"][Coordinator].version] = c
        BY <1>1, <3>1, VersionStays DEF Version, DInv, Typed
      <4>2. mem'["prod"][Coordinator] = mem["prod"][Coordinator]
        BY <3>4
      <4>3. QED
        BY <4>1, <4>2 DEF Version
    <3>8. (Pins(mem["prod"]))'
      BY <3>1, <3>5, <3>6 DEF Pins
    <3>7. QED
      BY <1>3, <3>1, <3>8
  <2>3. QED
    BY <1>3, <2>1, <2>2
<1>6. Staged'
  <2>1. \A m \in done'["prod"] : mem'["prod"][m].id # 0
    BY <1>3 DEF FitInv, Staged
  <2>2. pc["prod"] \in {"idle", "env", "skills"} => Coordinator \notin done'["prod"]
    BY <1>1, <1>3 DEF FitInv, Staged
  <2>3. /\ pc["prod"] \in {"agents", "save"} => Skills \subseteq done'["prod"]
        /\ pc["prod"] = "save" => ~failed["prod"] /\ Agents \subseteq done'["prod"]
    BY <1>3 DEF FitInv, Staged
  <2>4. QED
    BY <1>2, <1>5, <2>1, <2>2, <2>3 DEF Staged
<1>7. WholeFits'
  <2>1. SUFFICES ASSUME whole["prod"]
                 PROVE  /\ \A m \in Skills \cup Agents : saved["prod"][m].id # 0
                        /\ (Pins(saved["prod"]))'
    BY <1>2 DEF WholeFits
  <2>2. (\A m \in Skills \cup Agents : saved["prod"][m].id # 0) /\ Pins(saved["prod"])
    BY <2>1 DEF FitInv, WholeFits
  <2>3. saved["prod"][Coordinator].id # 0 /\ Real(saved["prod"][Coordinator])
    BY <1>1, <2>2 DEF DInv, Typed
  <2>4. QED
    BY <1>2, <2>2, <2>3, VersionStays DEF Pins, Version
<1>8. SkillsKept'
  <2>1. \A s \in Skills : mem["prod"][s].id \in {0, mem'["prod"][s].id}
    BY <1>1, <1>3
  <2>2. \A s \in Skills : saved["prod"][s].id \in {0, mem["prod"][s].id}
    BY DEF FitInv, SkillsKept
  <2>3. QED
    BY <1>2, <2>1, <2>2 DEF SkillsKept
<1>9. Loads'
  <2>1. SUFFICES ASSUME NEW r \in Roles, proc[r].up # "down"
                 PROVE  LET S == proc[r].state IN
                        /\ S[Env].id \in 1..Len(remote')
                        /\ pc["prod"] # "idle" /\ S[Env].id = mem'["prod"][Env].id
                             => Lists(S, mem'["prod"])
    BY <1>2 DEF FitInv, Loads
  <2> PICK S : S = proc[r].state
    OBVIOUS
  <2>2. /\ S[Env].id \in 1..Len(remote)
        /\ pc["prod"] # "idle" /\ S[Env].id = mem["prod"][Env].id => Lists(S, mem["prod"])
    BY <2>1 DEF FitInv, Loads
  <2>3. S[Env].id \in 1..Len(remote')
    BY <2>2 DEF Immutable
  <2>4. Env \in Names /\ Env \notin Skills
    BY NamesAssumption DEF Names
  <2>5. ASSUME pc["prod"] # "idle", S[Env].id = mem'["prod"][Env].id
        PROVE  Lists(S, mem'["prod"])
    <3>1. mem'["prod"][Env].id = mem["prod"][Env].id
      <4>1. CASE n = Env
        <5>1. Len(remote) \in Nat
          BY DEF DInv, Typed
        <5>2. e.id # Len(remote) + 1
          BY <1>3, <2>2, <2>5, <4>1, <5>1
        <5>3. QED
          BY <1>3, <4>1, <5>2
      <4>2. CASE n # Env
        BY <1>3, <2>4, <4>2
      <4>3. QED
        BY <4>1, <4>2
    <3>2. \A s \in Skills : mem["prod"][s].id \in {0, mem'["prod"][s].id}
      BY <1>1, <1>3
    <3>3. QED
      BY <2>2, <2>5, <3>1, <3>2 DEF Lists
  <2>6. QED
    BY <2>3, <2>5
<1>10. QED
  BY <1>4, <1>6, <1>7, <1>8, <1>9 DEF FitInv

LEMMA MadeEntry ==
  ASSUME Typed, NEW p \in Syncs, NEW n \in Names, NEW c \in Content, Make(p, n, c)
  PROVE  \E e : /\ Immutable /\ Record(p, n, e) /\ e.id = Len(remote) + 1 /\ e.id # 0
                /\ Version(<<e.id, e.version>>)' = c /\ e.rev = c.rev
<1>1. remote' = Created(c) /\ Record(p, n, NewEntry(c))
  BY DEF Make
<1>2. Immutable /\ remote'[Len(remote) + 1][1] = c
  BY <1>1, MadeHistory
<1>3. Len(remote) \in Nat
  BY DEF Typed
<1>4. PICK e : e = NewEntry(c)
  OBVIOUS
<1>5. e.id = Len(remote) + 1 /\ e.version = 1 /\ e.rev = c.rev
  BY <1>4 DEF NewEntry
<1>6. Version(<<e.id, e.version>>)' = c
  BY <1>2, <1>5 DEF Version
<1>7. e.id # 0 /\ Record(p, n, e)
  BY <1>1, <1>3, <1>4, <1>5
<1>8. QED
  BY <1>2, <1>5, <1>6, <1>7

LEMMA NextVersion ==
  ASSUME Typed, NEW p \in Syncs, NEW n \in Names, NEW c \in Content, Known(p, n) # None,
         remote' = Updated(Known(p, n).id, c),
         Record(p, n, UpdatedEntry(Known(p, n).id, c))
  PROVE  \E e : /\ Immutable /\ Record(p, n, e) /\ e.id = Known(p, n).id /\ e.id # 0
                /\ Version(<<e.id, e.version>>)' = c /\ e.rev = c.rev
<1> DEFINE id == Known(p, n).id
<1>1. Known(p, n) \in Entries /\ Real(Known(p, n)) /\ id # 0
  BY KnownIsReal, EntriesAreRecords
<1>2. id \in 1..Len(remote) /\ Known(p, n).version \in 1..Len(remote[id])
  BY <1>1 DEF Real
<1>3. remote[id] # <<>>
  BY <1>2
<1>4. Immutable /\ remote'[id][UpdatedEntry(id, c).version] = c
  BY <1>2, <1>3, UpdatedHistory
<1>5. PICK e : e = UpdatedEntry(id, c)
  OBVIOUS
<1>6. e.id = id /\ e.rev = c.rev
  BY <1>5 DEF UpdatedEntry
<1>7. Version(<<e.id, e.version>>)' = c
  BY <1>4, <1>5, <1>6 DEF Version
<1>8. QED
  BY <1>1, <1>4, <1>5, <1>6, <1>7

LEMMA NothingNew ==
  ASSUME UNCHANGED remote
  PROVE  Immutable
BY DEF Immutable

(* A scenario's run leaves production's state alone. *)
LEMMA ScenarioFits ==
  ASSUME DInv, Rest, FitInv, Immutable, NEW n \in Names, NEW e, Record("scenario", n, e)
  PROVE  FitInv'
<1>1. "prod" \in Syncs /\ "scenario" \in Syncs /\ "prod" # "scenario"
  BY DEF Syncs
<1>2. /\ mem' = [mem EXCEPT !["scenario"][n] = e]
      /\ done' = [done EXCEPT !["scenario"] = @ \cup {n}]
      /\ UNCHANGED <<saved, whole, pc, failed, proc, record>>
  BY DEF Record, processes
<1>3. mem'["prod"] = mem["prod"] /\ done'["prod"] = done["prod"]
  BY <1>1, <1>2 DEF DInv, Typed, Rest
<1>4. QED
  BY <1>2, <1>3, Unaffected

LEMMA EnsureEnvironmentFits ==
  ASSUME DInv, Rest, FitInv, NEW p \in Syncs, EnsureEnvironment(p)
  PROVE  FitInv'
<1>1. /\ Env \in Names /\ Env \notin Skills \cup Agents /\ Env # Coordinator
      /\ Env \notin done[p] /\ pc[p] # "idle" /\ (p = "prod" \/ p = "scenario")
      /\ "prod" \in Syncs
  BY NamesAssumption DEF EnsureEnvironment, Ready, Names, Agents, Syncs
<1>2. \E e : /\ Immutable /\ Record(p, Env, e)
             /\ p = "prod" => /\ e.id # 0 /\ Version(<<e.id, e.version>>)'.rev = e.rev
                              /\ e.id \in {mem[p][Env].id, Len(remote) + 1}
  <2>1. CASE mem[p][Env] = None
    <3>1. Plain(Env, 0) \in Content /\ Make(p, Env, Plain(Env, 0))
      BY <1>1, <2>1, RevisionIsContent DEF DInv, EnsureEnvironment
    <3>2. QED
      BY <1>1, <3>1, MadeEntry DEF DInv
  <2>2. CASE mem[p][Env] # None
    <3>1. Record(p, Env, mem[p][Env]) /\ UNCHANGED remote
      BY <2>2 DEF EnsureEnvironment
    <3>2. mem[p][Env].id # 0
      BY <1>1, <2>2, EntriesAreRecords DEF DInv, Typed
    <3>3. PICK e : e = mem[p][Env]
      OBVIOUS
    <3>4. p = "prod" => Version(<<e.id, e.version>>).rev = e.rev
      BY <1>1, <3>2, <3>3 DEF FitInv, Truthful, ToldOf
    <3>5. p = "prod" => Version(<<e.id, e.version>>)'.rev = e.rev
      BY <3>1, <3>4 DEF Version
    <3>6. QED
      BY <3>1, <3>2, <3>3, <3>5, NothingNew
  <2>3. QED
    BY <2>1, <2>2
<1>3. QED
  BY <1>1, <1>2, Dealt, ScenarioFits

LEMMA UploadSkillFits ==
  ASSUME DInv, Rest, FitInv, NEW p \in Syncs, NEW s \in Skills, UploadSkill(p, s)
  PROVE  FitInv'
<1>1. /\ s \in Names /\ s \notin Agents /\ s # Coordinator /\ s # Env /\ s \notin done[p]
      /\ pc[p] = "skills" /\ (p = "prod" \/ p = "scenario") /\ "prod" \in Syncs
  BY NamesAssumption DEF UploadSkill, Ready, Names, Agents, Syncs
<1>2. Plain(s, rev) \in Content
  BY <1>1, RevisionIsContent DEF DInv
<1>3. p = "prod" => Known(p, s) = mem[p][s]
  BY DEF Known
<1>4. \E e : /\ Immutable /\ Record(p, s, e)
             /\ p = "prod" => /\ e.id # 0 /\ Version(<<e.id, e.version>>)'.rev = e.rev
                              /\ mem[p][s].id \in {0, e.id}
  <2>1. CASE Known(p, s) = None
    <3>1. Make(p, s, Plain(s, rev)) /\ (p = "prod" => mem[p][s].id = 0)
      BY <1>3, <2>1, EntriesAreRecords DEF UploadSkill
    <3>2. QED
      BY <1>1, <1>2, <3>1, MadeEntry DEF DInv
  <2>2. CASE Known(p, s) # None /\ Known(p, s).rev = rev
    <3>1. Record(p, s, Known(p, s)) /\ UNCHANGED remote
      BY <2>2 DEF UploadSkill
    <3>2. Known(p, s).id # 0
      BY <1>1, <2>2, KnownIsReal, EntriesAreRecords DEF DInv
    <3>3. PICK e : e = Known(p, s)
      OBVIOUS
    <3>4. p = "prod" => Version(<<e.id, e.version>>).rev = e.rev
      BY <1>1, <1>3, <3>2, <3>3 DEF FitInv, Truthful, ToldOf
    <3>5. p = "prod" => Version(<<e.id, e.version>>)'.rev = e.rev
      BY <3>1, <3>4 DEF Version
    <3>6. QED
      BY <1>3, <3>1, <3>2, <3>3, <3>5, NothingNew
  <2>3. CASE Known(p, s) # None /\ Known(p, s).rev # rev
    <3>1. /\ remote' = Updated(Known(p, s).id, Plain(s, rev))
          /\ Record(p, s, UpdatedEntry(Known(p, s).id, Plain(s, rev)))
      BY <2>3 DEF UploadSkill
    <3>2. PICK c \in Content : c = Plain(s, rev)
      BY <1>2
    <3>3. Typed /\ remote' = Updated(Known(p, s).id, c)
            /\ Record(p, s, UpdatedEntry(Known(p, s).id, c))
      BY <3>1, <3>2 DEF DInv
    <3>4. \E e : /\ Immutable /\ Record(p, s, e) /\ e.id = Known(p, s).id /\ e.id # 0
                 /\ Version(<<e.id, e.version>>)' = c /\ e.rev = c.rev
      BY <1>1, <2>3, <3>3, NextVersion
    <3>5. QED
      BY <1>3, <3>4
  <2>4. QED
    BY <2>1, <2>2, <2>3
<1>5. QED
  BY <1>1, <1>4, Dealt, ScenarioFits

(* An agent is dealt with after the agents it pins. *)
LEMMA AgentDealt ==
  ASSUME DInv, Rest, FitInv, NEW p \in Syncs, NEW k \in Agents, NEW e,
         Immutable, Record(p, k, e), k \notin done[p], pc[p] = "agents", InOrder(p, k),
         e.id # 0, Version(<<e.id, e.version>>)' = Payload(p, k), e.rev = Payload(p, k).rev
  PROVE  FitInv'
<1>1. k \in Names /\ k \notin Skills /\ k # Env /\ (p = "prod" \/ p = "scenario")
  BY NamesAssumption DEF Names, Syncs, Agents
<1>2. p = "prod" /\ k = Coordinator => Specialists \subseteq done[p]
  BY DEF InOrder, Stage, Agents
<1>3. CASE p = "prod"
  BY <1>1, <1>2, <1>3, Dealt
<1>4. CASE p = "scenario"
  BY <1>1, <1>4, ScenarioFits
<1>5. QED
  BY <1>1, <1>3, <1>4

LEMMA EnsureAgentFits ==
  ASSUME DInv, Rest, FitInv, NEW p \in Syncs, NEW k \in Agents, EnsureAgent(p, k)
  PROVE  FitInv'
<1>1. k \notin done[p] /\ pc[p] = "agents" /\ InOrder(p, k)
  BY DEF EnsureAgent, Ready
<1>2. k \in Names /\ Known(p, k) = mem[p][k] /\ Payload(p, k) \in Content
  BY AgentIsNotLocal, PayloadIsContent DEF DInv
<1>3. PICK c \in Content : c = Payload(p, k)
  BY <1>2
<1>4. \E e : /\ Immutable /\ Record(p, k, e) /\ e.id # 0
             /\ Version(<<e.id, e.version>>)' = c /\ e.rev = c.rev
  <2>1. CASE mem[p][k] = None
    <3>1. Make(p, k, c)
      BY <1>3, <2>1 DEF EnsureAgent
    <3>2. QED
      BY <1>2, <3>1, MadeEntry DEF DInv
  <2>2. CASE mem[p][k] # None
    <3>1. remote' = Updated(Known(p, k).id, c) /\ Record(p, k, UpdatedEntry(Known(p, k).id, c))
      BY <1>2, <1>3, <2>2 DEF EnsureAgent
    <3>2. Typed /\ Known(p, k) # None
      BY <1>2, <2>2 DEF DInv
    <3>3. QED
      BY <1>2, <3>1, <3>2, NextVersion
  <2>3. QED
    BY <2>1, <2>2
<1>5. QED
  BY <1>1, <1>3, <1>4, AgentDealt

LEMMA RetrieveFailsFits ==
  ASSUME DInv, Rest, FitInv, NEW p \in Syncs, NEW n \in Names, RetrieveFails(p, n)
  PROVE  FitInv'
<1>1. /\ n \in Agents \cup {Env} /\ n \in Stage(p, pc[p]) \ done[p] /\ pc[p] # "idle"
      /\ Make(p, n, IF n = Env THEN Plain(Env, 0) ELSE Payload(p, n))
      /\ n \in Agents => InOrder(p, n)
      /\ (p = "prod" \/ p = "scenario")
  BY DEF RetrieveFails, Fault, Ready, Syncs
<1>2. /\ Env \notin Skills \cup Agents /\ n \notin Skills
      /\ n \in Agents => pc[p] = "agents"
  BY <1>1, NamesAssumption DEF Stage, Agents
<1>3. CASE n = Env
  <2>1. Plain(Env, 0) \in Content /\ Make(p, Env, Plain(Env, 0))
    BY <1>1, <1>3, RevisionIsContent DEF DInv
  <2>2. \E e : /\ Immutable /\ Record(p, n, e) /\ e.id # 0 /\ e.id = Len(remote) + 1
               /\ Version(<<e.id, e.version>>)'.rev = e.rev
    BY <1>3, <2>1, MadeEntry DEF DInv
  <2>3. n # Coordinator
    BY <1>2, <1>3 DEF Agents
  <2>4. QED
    BY <1>1, <1>2, <1>3, <2>2, <2>3, Dealt, ScenarioFits
<1>4. CASE n # Env
  <2>1. n \in Agents /\ Payload(p, n) \in Content
    BY <1>1, <1>4, PayloadIsContent DEF DInv
  <2>2. PICK c \in Content : c = Payload(p, n)
    BY <2>1
  <2>3. Make(p, n, c)
    BY <1>1, <1>4, <2>2
  <2>4. \E e : /\ Immutable /\ Record(p, n, e) /\ e.id # 0
               /\ Version(<<e.id, e.version>>)' = c /\ e.rev = c.rev
    BY <2>3, MadeEntry DEF DInv
  <2>5. QED
    BY <1>1, <1>2, <2>1, <2>2, <2>4, AgentDealt
<1>5. QED
  BY <1>3, <1>4

LEMMA StartFits ==
  ASSUME DInv, Rest, FitInv, NEW p \in Syncs, Start(p)
  PROVE  FitInv'
<1>1. /\ mem' = [mem EXCEPT ![p] = Loaded(p)]
      /\ pc' = [pc EXCEPT ![p] = IF p = "prod" THEN "env" ELSE "skills"]
      /\ \E skip \in {{}, Local} : done' = [done EXCEPT ![p] = IF p = "prod" THEN {} ELSE skip]
      /\ failed' = [failed EXCEPT ![p] = FALSE]
      /\ UNCHANGED <<remote, saved, whole, proc, record>>
  BY DEF Start, disk, processes
<1>2. "prod" \in Syncs /\ Immutable /\ (p = "prod" \/ p = "scenario")
  BY <1>1, NothingNew DEF Syncs
<1>3. CASE p = "scenario"
  <2>1. /\ mem'["prod"] = mem["prod"] /\ done'["prod"] = done["prod"]
        /\ pc'["prod"] = pc["prod"] /\ failed'["prod"] = failed["prod"]
    BY <1>1, <1>2, <1>3 DEF DInv, Typed, Active, Rest
  <2>2. QED
    BY <1>1, <1>2, <2>1, Unaffected
<1>4. CASE p = "prod"
  <2>1. /\ mem'["prod"] = saved["prod"] /\ done'["prod"] = {} /\ pc'["prod"] = "env"
    BY <1>1, <1>2, <1>4 DEF DInv, Typed, Active, Rest, Loaded
  <2>2. Truthful'
    BY <1>1, <2>1 DEF FitInv, Truthful, ToldOf, Version
  <2>3. SkillsKept' /\ Staged'
    BY <1>1, <2>1 DEF SkillsKept, Staged
  <2>4. WholeFits'
    BY <1>1 DEF FitInv, WholeFits, Pins, Version
  <2>5. Loads'
    BY <1>1, <2>1 DEF FitInv, Loads, Lists
  <2>6. QED
    BY <2>2, <2>3, <2>4, <2>5 DEF FitInv
<1>5. QED
  BY <1>2, <1>3, <1>4

LEMMA NextStageFits ==
  ASSUME DInv, Rest, FitInv, NEW p \in Syncs, NextStage(p)
  PROVE  FitInv'
<1>1. /\ pc[p] \in {"env", "skills", "agents"} /\ ~failed[p] /\ Stage(p, pc[p]) \subseteq done[p]
      /\ pc' = [pc EXCEPT ![p] = CASE @ = "env" -> "skills" [] @ = "skills" -> "agents"
                                    [] @ = "agents" -> "save"]
      /\ UNCHANGED <<remote, saved, whole, mem, done, failed, proc, record>>
  BY DEF NextStage, disk, processes
<1>2. "prod" \in Syncs /\ Immutable /\ (p = "prod" \/ p = "scenario")
  BY <1>1, NothingNew DEF Syncs
<1>3. CASE p = "scenario"
  <2>1. pc'["prod"] = pc["prod"]
    BY <1>1, <1>2, <1>3 DEF DInv, Active
  <2>2. QED
    BY <1>1, <1>2, <2>1, Unaffected
<1>4. CASE p = "prod"
  <2>1. pc \in [Syncs -> {"idle", "env", "skills", "agents", "save"}]
    BY DEF DInv, Active
  <2>2. pc'["prod"] = CASE pc["prod"] = "env" -> "skills" [] pc["prod"] = "skills" -> "agents"
                         [] pc["prod"] = "agents" -> "save"
    BY <1>1, <1>2, <1>4, <2>1
  <2>3. /\ pc["prod"] = "skills" => Skills \subseteq done["prod"]
        /\ pc["prod"] = "agents" => Agents \subseteq done["prod"]
    BY <1>1, <1>4 DEF Stage
  <2>4. Truthful'
    BY <1>1 DEF FitInv, Truthful, ToldOf, Version
  <2>5. SkillsKept'
    BY <1>1, <1>4 DEF FitInv, SkillsKept
  <2>6. Staged'
    BY <1>1, <1>4, <2>2, <2>3 DEF FitInv, Staged, Pins, Version
  <2>7. WholeFits'
    BY <1>1 DEF FitInv, WholeFits, Pins, Version
  <2>8. Loads'
    BY <1>1, <1>4, <2>1, <2>2 DEF FitInv, Loads, Lists
  <2>9. QED
    BY <2>4, <2>5, <2>6, <2>7, <2>8 DEF FitInv
<1>5. QED
  BY <1>2, <1>3, <1>4

(* The sync of production ends, and its file is as it was or as the sync   *)
(* knew it.                                                                *)
LEMMA EndFits ==
  ASSUME DInv, Rest, FitInv, Ends("prod"), pc["prod"] # "idle", UNCHANGED <<remote, proc, record>>,
         \/ saved'["prod"] = saved["prod"] /\ whole'["prod"] = whole["prod"]
         \/ saved'["prod"] = mem["prod"] /\ (whole'["prod"] => pc["prod"] = "save")
         \/ saved'["prod"] = NoState /\ ~whole'["prod"]
  PROVE  FitInv'
<1>1. "prod" \in Syncs
  BY DEF Syncs
<1>2. /\ pc'["prod"] = "idle" /\ done'["prod"] = {}
      /\ \A n \in Names : mem'["prod"][n] = None /\ NoState[n] = None
  BY <1>1, Forgotten DEF Ends, DInv, Active, Rest, NoState
<1>3. Truthful'
  <2>1. \A n \in Names : ToldOf(mem["prod"][n])'
    BY <1>2, EntriesAreRecords DEF ToldOf
  <2>2. \A n \in Names : ToldOf(saved["prod"][n])'
    BY <1>2, EntriesAreRecords DEF FitInv, Truthful, ToldOf, Version
  <2>3. QED
    BY <2>1, <2>2 DEF Truthful
<1>4. SkillsKept' /\ Staged'
  BY <1>2 DEF SkillsKept, Staged
<1>5. WholeFits'
  <2>1. CASE saved'["prod"] = saved["prod"] /\ whole'["prod"] = whole["prod"]
    BY <2>1 DEF FitInv, WholeFits, Pins, Version
  <2>2. CASE saved'["prod"] = mem["prod"] /\ pc["prod"] = "save"
    <3>1. Skills \subseteq done["prod"] /\ Agents \subseteq done["prod"] /\ Coordinator \in Agents
      BY <2>2 DEF FitInv, Staged, Agents
    <3>2. (\A n \in Skills \cup Agents : mem["prod"][n].id # 0) /\ Pins(mem["prod"])
      BY <3>1 DEF FitInv, Staged
    <3>3. QED
      BY <2>2, <3>2 DEF WholeFits, Pins, Version
  <2>3. CASE ~whole'["prod"]
    BY <2>3 DEF WholeFits
  <2>4. QED
    BY <2>1, <2>2, <2>3
<1>6. Loads'
  <2>1. CASE saved'["prod"] \in {saved["prod"], mem["prod"]}
    BY <1>2, <2>1 DEF FitInv, Loads, Lists
  <2>2. CASE saved'["prod"] = NoState
    <3>1. Env \in Names /\ 0 \notin 1..Len(remote)
      BY DEF Names
    <3>2. saved'["prod"][Env].id = 0
      BY <1>2, <2>2, <3>1, EntriesAreRecords
    <3>3. QED
      BY <1>2, <3>1, <3>2 DEF FitInv, Loads
  <2>3. QED
    BY <2>1, <2>2
<1>7. QED
  BY <1>3, <1>4, <1>5, <1>6 DEF FitInv

LEMMA EndingFits ==
  ASSUME DInv, Rest, FitInv, NEW p \in Syncs, Save(p) \/ Abandon(p) \/ SaveCut(p)
  PROVE  FitInv'
<1>1. /\ Ends(p) /\ UNCHANGED <<remote, proc, record>>
      /\ Save(p) => /\ saved' = [saved EXCEPT ![p] = mem[p]]
                    /\ whole' = [whole EXCEPT ![p] = ~failed[p]]
                    /\ pc[p] = "save" \/ (p = "prod" /\ failed[p])
      /\ Abandon(p) => UNCHANGED <<saved, whole>>
      /\ SaveCut(p) => /\ saved' = [saved EXCEPT ![p] = NoState]
                       /\ whole' = [whole EXCEPT ![p] = FALSE]
  BY DEF Save, Abandon, SaveCut, disk, processes
<1>2. "prod" \in Syncs /\ Immutable /\ (p = "prod" \/ p = "scenario")
  BY <1>1, NothingNew DEF Syncs
<1>3. CASE p = "scenario"
  <2>1. /\ mem'["prod"] = mem["prod"] /\ done'["prod"] = done["prod"]
        /\ pc'["prod"] = pc["prod"] /\ failed'["prod"] = failed["prod"]
    BY <1>1, <1>2, <1>3 DEF Ends, DInv, Typed, Active, Rest
  <2>2. saved'["prod"] = saved["prod"] /\ whole'["prod"] = whole["prod"]
    BY <1>1, <1>2, <1>3 DEF DInv, Typed, Rest
  <2>3. QED
    BY <1>1, <1>2, <2>1, <2>2, Unaffected
<1>4. CASE p = "prod"
  <2>1. pc["prod"] # "idle"
    BY <1>1, <1>4 DEF Save, Abandon, SaveCut, Fault, DInv, Active, Syncs
  <2>2. /\ Save(p) => saved'["prod"] = mem["prod"] /\ (whole'["prod"] => pc["prod"] = "save")
        /\ SaveCut(p) => saved'["prod"] = NoState /\ ~whole'["prod"]
    BY <1>1, <1>2, <1>4 DEF DInv, Typed, Rest
  <2>3. QED
    BY <1>1, <1>4, <2>1, <2>2, EndFits
<1>5. QED
  BY <1>2, <1>3, <1>4

LEMMA ProcessFits ==
  ASSUME DInv, Rest, FitInv, NEW r \in Roles, StartProcess(r) \/ WriteRecord(r) \/ StopProcess(r)
  PROVE  FitInv'
<1>1. UNCHANGED <<remote, saved, whole, pc, mem, done, failed>>
  BY DEF StartProcess, WriteRecord, StopProcess, disk, sync
<1>2. Truthful' /\ SkillsKept'
  BY <1>1 DEF FitInv, Truthful, SkillsKept, ToldOf, Version
<1>3. Staged' /\ WholeFits'
  BY <1>1 DEF FitInv, Staged, WholeFits, Pins, Version
<1>4. Loads'
  <2>1. /\ proc \in [Roles -> Process]
        /\ record \in [Roles -> [alive : BOOLEAN, state : States, image : 0..MaxRev]]
    BY DEF Rest
  <2>2. CASE StartProcess(r)
    <3>1. /\ proc[r].up = "down" /\ UNCHANGED record
          /\ proc' = [proc EXCEPT ![r] = [up |-> "loaded", state |-> saved["prod"], image |-> rev]]
      BY <2>2 DEF StartProcess
    <3>2. proc'[r].state = saved["prod"] /\ \A q \in Roles : q # r => proc'[q] = proc[q]
      BY <2>1, <3>1
    <3>3. ~record[r].alive
      BY <3>1 DEF FitInv, Loads
    <3>4. \A s \in Skills : saved["prod"][s] \in Entries
      BY DEF DInv, Typed, Syncs, Names
    <3>5. saved["prod"][Env].id \in 1..Len(remote)
      <4>1. saved["prod"][Env] # None /\ saved["prod"][Env] \in Entries /\ Real(saved["prod"][Env])
        BY <2>2 DEF StartProcess, DInv, Typed, Syncs, Names
      <4>2. QED
        BY <4>1, EntriesAreRecords DEF Real
    <3>6. /\ Lists(saved["prod"], saved["prod"])
          /\ pc["prod"] # "idle" => Lists(saved["prod"], mem["prod"])
      BY DEF FitInv, SkillsKept, Lists
    <3>7. ASSUME NEW q \in Roles, proc'[q].up # "down"
          PROVE  LET S == proc'[q].state IN
                 /\ S[Env].id \in 1..Len(remote) /\ \A s \in Skills : S[s] \in Entries
                 /\ S[Env].id = saved["prod"][Env].id => Lists(S, saved["prod"])
                 /\ pc["prod"] # "idle" /\ S[Env].id = mem["prod"][Env].id => Lists(S, mem["prod"])
      <4>1. CASE q = r
        BY <3>2, <3>4, <3>5, <3>6, <4>1
      <4>2. CASE q # r
        BY <3>2, <3>7, <4>2 DEF FitInv, Loads
      <4>3. QED
        BY <4>1, <4>2
    <3>8. \A q \in Roles : record'[q].alive =>
            proc'[q].up # "down" /\ record'[q].state = proc'[q].state
      BY <3>1, <3>2, <3>3 DEF FitInv, Loads
    <3>9. QED
      BY <1>1, <3>7, <3>8 DEF Loads
  <2>3. CASE WriteRecord(r)
    <3>1. /\ proc[r].up = "loaded" /\ proc' = [proc EXCEPT ![r].up = "running"]
          /\ record' = [record EXCEPT ![r] = [alive |-> TRUE, state |-> proc[r].state,
                                              image |-> proc[r].image]]
      BY <2>3 DEF WriteRecord
    <3>2. proc[r] \in Process
      BY <2>1
    <3>3. /\ proc'[r].up = "running" /\ proc'[r].state = proc[r].state
          /\ \A q \in Roles : q # r => proc'[q] = proc[q]
      BY <2>1, <3>1, <3>2 DEF Process
    <3>4. /\ record'[r].state = proc[r].state
          /\ \A q \in Roles : q # r => record'[q] = record[q]
      BY <2>1, <3>1
    <3>5. QED
      BY <1>1, <3>1, <3>3, <3>4 DEF FitInv, Loads
  <2>4. CASE StopProcess(r)
    <3>1. proc' = [proc EXCEPT ![r] = Down] /\ record' = [record EXCEPT ![r] = NoRecord]
      BY <2>4 DEF StopProcess
    <3>2. /\ proc'[r].up = "down" /\ \A q \in Roles : q # r => proc'[q] = proc[q]
          /\ ~record'[r].alive /\ \A q \in Roles : q # r => record'[q] = record[q]
      BY <2>1, <3>1 DEF Down, NoRecord
    <3>3. QED
      BY <1>1, <3>2 DEF FitInv, Loads
  <2>5. QED
    BY <2>2, <2>3, <2>4
<1>5. QED
  BY <1>2, <1>3, <1>4 DEF FitInv

LEMMA FitStep ==
  ASSUME DInv, Rest, FitInv, [Next]_vars
  PROVE  FitInv'
<1>1. CASE UNCHANGED vars
  BY <1>1, NothingNew, Unaffected DEF vars, disk, sync, processes
<1>2. CASE Edit
  BY <1>2, NothingNew, Unaffected DEF Edit, disk, sync, processes
<1>3. ASSUME NEW p \in Syncs, CallFails(p)
      PROVE  FitInv'
  <2>1. /\ pc[p] # "save" /\ failed' = [failed EXCEPT ![p] = TRUE]
        /\ UNCHANGED <<remote, saved, whole, pc, mem, done, proc, record>>
    BY <1>3 DEF CallFails, Fail, disk, processes
  <2>2. failed'["prod"] => failed["prod"] \/ pc["prod"] # "save"
    BY <2>1 DEF DInv, Active, Syncs
  <2>3. QED
    BY <2>1, <2>2, NothingNew, Unaffected
<1>4. ASSUME NEW p \in Syncs, NEW n \in Names, AnswerLost(p, n)
      PROVE  FitInv'
  <2>1. /\ failed' = [failed EXCEPT ![p] = TRUE] /\ n \in Stage(p, pc[p])
        /\ remote' = Created(IF n \in Agents THEN Payload(p, n) ELSE Plain(n, rev))
        /\ UNCHANGED <<saved, whole, pc, mem, done, proc, record>>
    BY <1>4 DEF AnswerLost, Ready, Fail, disk, processes
  <2>2. pc[p] # "save"
    BY <2>1 DEF Stage
  <2>3. failed'["prod"] => failed["prod"] \/ pc["prod"] # "save"
    BY <2>1, <2>2 DEF DInv, Active, Syncs
  <2>4. (IF n \in Agents THEN Payload(p, n) ELSE Plain(n, rev)) \in Content
    BY PayloadIsContent, RevisionIsContent DEF DInv
  <2>5. Immutable
    BY <2>1, <2>4, MadeHistory DEF DInv
  <2>6. QED
    BY <2>1, <2>3, <2>5, Unaffected
<1>5. QED
  BY <1>1, <1>2, <1>3, <1>4, StartFits, NextStageFits, EndingFits, EnsureEnvironmentFits,
     UploadSkillFits, EnsureAgentFits, RetrieveFailsFits, ProcessFits DEF Next

LEMMA FitInit ==
  ASSUME Init
  PROVE  FitInv
<1>1. "prod" \in Syncs /\ None.id = 0 /\ \A n \in Names : NoState[n] = None
  BY EntriesAreRecords DEF Syncs, NoState
<1>2. /\ saved["prod"] = NoState /\ mem["prod"] = NoState /\ pc["prod"] = "idle"
      /\ done["prod"] = {} /\ ~whole["prod"]
  BY <1>1 DEF Init
<1>3. \A r \in Roles : proc[r].up = "down" /\ ~record[r].alive
  BY DEF Init, Down, NoRecord
<1>4. Truthful
  BY <1>1, <1>2 DEF Truthful, ToldOf
<1>5. QED
  BY <1>2, <1>3, <1>4 DEF FitInv, SkillsKept, Staged, WholeFits, Loads

(* Two processes with the fingerprint of the file agree on its agents, and *)
(* the file's coordinator pins what it names.                              *)
LEMMA FitInvFits ==
  ASSUME DInv, Rest, FitInv
  PROVE  SessionsFit
<1>1. SUFFICES ASSUME whole["prod"], Staleness("slack") = "current",
                      Staleness("poller") \in {"current", "older sandbox"}
               PROVE  LET S == proc["slack"].state T == proc["poller"].state IN
                      /\ Declared(S) = [k \in Agents |-> T[k].rev]
                      /\ \A s \in Skills :
                           Version(<<S[Coordinator].id, S[Coordinator].version>>).uses[s]
                             = <<T[s].id, 0>>
  BY DEF SessionsFit
<1> DEFINE S == proc["slack"].state
           T == proc["poller"].state
           F == saved["prod"]
<1>2. /\ "slack" \in Roles /\ "poller" \in Roles /\ "prod" \in Syncs
      /\ Coordinator \in Agents /\ Agents \subseteq Names
  BY DEF Roles, Syncs, Agents, Names
<1>3. \A r \in Roles : record[r].alive => record[r].state = proc[r].state /\ proc[r].up # "down"
  BY DEF FitInv, Loads
<1>4. /\ record["slack"].alive /\ Fingerprint(record["slack"].state) = Fingerprint(F)
      /\ record["poller"].alive /\ Fingerprint(record["poller"].state) = Fingerprint(F)
  BY <1>1 DEF Staleness
<1>5. Fingerprint(S) = Fingerprint(F) /\ Fingerprint(T) = Fingerprint(F)
  BY <1>2, <1>3, <1>4
<1>6. /\ \A k \in Agents : S[k] = F[k] /\ T[k] = F[k]
      /\ {s \in Skills : T[s] # None} = {s \in Skills : F[s] # None}
  <2>1. /\ [k \in Agents |-> S[k]] = [k \in Agents |-> F[k]]
        /\ [k \in Agents |-> T[k]] = [k \in Agents |-> F[k]]
        /\ {s \in Skills : T[s] # None} = {s \in Skills : F[s] # None}
    BY <1>5 DEF Fingerprint
  <2>2. QED
    BY <2>1
<1>7. /\ \A n \in Skills \cup Agents : F[n].id # 0
      /\ PinnedBy(Version(<<F[Coordinator].id, F[Coordinator].version>>), F)
  BY <1>1 DEF FitInv, WholeFits, Pins
<1>8. \A k \in Agents : Version(<<F[k].id, F[k].version>>).rev = F[k].rev
  BY <1>2, <1>7 DEF FitInv, Truthful, ToldOf
<1>14. T[Env].id = F[Env].id
  BY <1>5 DEF Fingerprint
<1>9. \A s \in Skills : T[s].id = F[s].id
  <2>1. TAKE s \in Skills
  <2>2. F[s] # None /\ T[s] # None
    BY <1>6, <1>7, EntriesAreRecords
  <2>3. T[s].id \in {0, F[s].id}
    BY <1>2, <1>3, <1>4, <1>14 DEF FitInv, Loads, Lists
  <2>4. T[s].id # 0
    BY <1>2, <1>3, <1>4, <2>2, EntriesAreRecords DEF FitInv, Loads
  <2>5. QED
    BY <2>3, <2>4
<1> HIDE DEF S, T, F
<1> DEFINE c == Version(<<F[Coordinator].id, F[Coordinator].version>>)
<1>10. Version(<<S[Coordinator].id, S[Coordinator].version>>) = c
  BY <1>2, <1>6
<1>11. \A s \in Skills : c.uses[s] = <<T[s].id, 0>>
  BY <1>7, <1>9 DEF PinnedBy
<1>12. Declared(S) = [k \in Agents |-> T[k].rev]
  <2>1. Declared(S) = [k \in Agents |-> IF k = Coordinator THEN c.rev ELSE Version(c.uses[k]).rev]
    BY <1>10, Zenon DEF Declared
  <2>2. ASSUME NEW k \in Agents
        PROVE  (IF k = Coordinator THEN c.rev ELSE Version(c.uses[k]).rev) = T[k].rev
    <3>1. CASE k = Coordinator
      BY <1>2, <1>6, <1>8, <3>1
    <3>2. CASE k # Coordinator
      <4>1. c.uses[k] = <<F[k].id, F[k].version>>
        BY <1>7, <3>2 DEF PinnedBy, Agents
      <4>2. Version(c.uses[k]).rev = F[k].rev
        BY <1>8, <4>1
      <4>3. QED
        BY <1>6, <3>2, <4>2
    <3>3. QED
      BY <3>1, <3>2
  <2>3. QED
    BY <2>1, <2>2, Zenon
<1>13. QED
  BY <1>10, <1>11, <1>12 DEF S, T

(* If `status` finds the orchestrator and the poller current with the      *)
(* state of a sync that went through, then a new session's agents declare  *)
(* exactly the tools whose manifests the poller's containers check and use *)
(* the skills they expect, however the syncs, the scenarios and the        *)
(* restarts were interleaved (runtime.staleness, agent_payload).           *)
THEOREM SessionsFitHolds == Spec => []SessionsFit
<1>1. Init => DInv /\ Rest /\ FitInv
  BY DeployInit, RestInit, FitInit
<1>2. (DInv /\ Rest /\ FitInv) /\ [Next]_vars => (DInv /\ Rest /\ FitInv)'
  BY ActiveStep, DeployStep, RestStep, FitStep DEF DInv
<1>3. DInv /\ Rest /\ FitInv => SessionsFit
  BY FitInvFits
<1>4. QED
  BY <1>1, <1>2, <1>3, PTL DEF Spec
=============================================================================
