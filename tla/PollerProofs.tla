---------------------------- MODULE PollerProofs ----------------------------
(***************************************************************************)
(* Proofs about Poller, for any items, sessions and images, any pool, and  *)
(* any number of faults and restarts.                                      *)
(***************************************************************************)
EXTENDS Poller, SequenceTheorems, TLAPS

USE DEF Workers

(* A worker has an item, and thus a session, unless it is idle. *)
LEMMA Tasks ==
  ASSUME TypeOK, NEW k \in Workers, pc[k] # "idle"
  PROVE  task[k] \in Runnable /\ task[k] # NoItem /\ task[k] \in Items /\ Mine(k) \in Sessions
BY SessionAssumption DEF TypeOK, Runnable, Mine

LEMMA TypeInit == Init => TypeOK
BY SessionAssumption, ImagesAssumption, PollerBounds
   DEF Init, TypeOK, Runnable

LEMMA TypeStep == TypeOK /\ [Next]_vars => TypeOK'
<1> SUFFICES ASSUME TypeOK, [Next]_vars PROVE TypeOK'
  OBVIOUS
<1> USE SessionAssumption, ImagesAssumption, PollerBounds
<1>1. ASSUME NEW w \in Items, Enqueue(w) \/ Lapse(w) PROVE TypeOK'
  BY <1>1 DEF TypeOK, Enqueue, Lapse, poll, worker, marker, docker, counts
<1>2. ASSUME NEW w \in Items, Claim(w) PROVE TypeOK'
  BY <1>2 DEF TypeOK, Claim, worker, marker, docker, counts
<1>3. ASSUME NEW w \in Items, Serve(w) \/ Exit(w) \/ BoxFails(w) PROVE TypeOK'
  <2>1. CASE Serve(w)
    BY <2>1 DEF TypeOK, Serve, poll, worker, marker, docker, counts
  <2>2. CASE Exit(w)
    BY <2>2 DEF TypeOK, Exit, platform, poll, worker, marker, counts
  <2>3. CASE BoxFails(w)
    BY <2>3 DEF TypeOK, BoxFails, Fault, platform, poll, worker, marker
  <2> QED
    BY <1>3, <2>1, <2>2, <2>3
<1>4. CASE Dispatch
  <2>1. claimed \in Items
    BY <1>4 DEF Dispatch, TypeOK
  <2>2. Session[claimed] # NoSession => claimed \in Runnable
    BY <2>1 DEF Runnable
  <2>3. inflight' \subseteq Runnable /\ jobs' \in Seq(Runnable)
    <3>1. CASE UNCHANGED <<inflight, jobs>>
      BY <3>1 DEF TypeOK
    <3>2. CASE /\ Session[claimed] # NoSession
               /\ inflight' = inflight \cup {claimed} /\ jobs' = Append(jobs, claimed)
      BY <2>2, <3>2 DEF TypeOK
    <3> QED
      BY <1>4, <3>1, <3>2 DEF Dispatch
  <2> QED
    BY <1>4, <2>3 DEF Dispatch, TypeOK, platform, worker, marker, docker, counts
<1>5. ASSUME NEW k \in Workers, Begin(k) PROVE TypeOK'
  <2>1. Head(jobs) \in Runnable /\ Tail(jobs) \in Seq(Runnable) /\ Head(jobs) # NoItem
    BY <1>5 DEF Begin, TypeOK, Runnable
  <2> QED
    BY <1>5, <2>1 DEF Begin, At, To, TypeOK, platform, marker, docker, counts
<1>6. ASSUME NEW k \in Workers, Look(k) \/ Wait(k) PROVE TypeOK'
  BY <1>6 DEF TypeOK, Look, Wait, At, To, platform, poll, marker, docker, counts
<1>7. ASSUME NEW k \in Workers, Read(k) \/ Make(k) \/ Write(k) PROVE TypeOK'
  <2>1. Mine(k) \in Sessions
    BY <1>7, Tasks DEF Read, Make, Write, At
  <2> HIDE DEF Mine
  <2>2. CASE Read(k)
    BY <2>1, <2>2 DEF TypeOK, Read, At, To, platform, poll, marker, docker, counts
  <2>3. CASE Make(k)
    BY <2>1, <2>3 DEF TypeOK, Make, At, To, platform, poll, marker, docker, counts
  <2>4. CASE Write(k)
    BY <2>1, <2>4 DEF TypeOK, Write, At, To, platform, poll, marker, docker, counts
  <2> QED
    BY <1>7, <2>2, <2>3, <2>4
<1>8. ASSUME NEW k \in Workers, WriteFails(k) \/ RunFails(k) PROVE TypeOK'
  BY <1>8 DEF TypeOK, WriteFails, RunFails, Fault, At, To, platform, poll, marker, docker, counts
<1>9. ASSUME NEW k \in Workers, Run(k) PROVE TypeOK'
  <2>1. task[k] \in Runnable /\ Mine(k) \in Sessions
    BY <1>9, Tasks DEF Run, At
  <2> QED
    BY <1>9, <2>1 DEF TypeOK, Run, At, To, platform, poll, marker, docker, counts
<1>10. ASSUME NEW k \in Workers, End(k) PROVE TypeOK'
  BY <1>10 DEF TypeOK, End, At, To, platform, marker, docker, counts
<1>11. CASE Restart
  BY <1>11 DEF TypeOK, Restart, platform, marker, docker
<1>12. CASE UNCHANGED vars
  BY <1>12 DEF TypeOK, vars, poll, worker, marker, docker, counts
<1> QED
  BY <1>1, <1>2, <1>3, <1>4, <1>5, <1>6, <1>7, <1>8, <1>9, <1>10, <1>11, <1>12 DEF Next, Work

(* The poller's state, the workspaces and the containers are well-typed,   *)
(* and only items of sessions are ever in flight, run by a worker or in a  *)
(* container.                                                              *)
THEOREM TypeCorrect == Spec => []TypeOK
<1>1. Init => TypeOK
  BY TypeInit
<1>2. TypeOK /\ [Next]_vars => TypeOK'
  BY TypeStep
<1> QED
  BY <1>1, <1>2, PTL DEF Spec

-----------------------------------------------------------------------------
(* The pool's queue.                                                       *)

Elements(s) == {s[i] : i \in DOMAIN s}
Distinct(s) == \A i, j \in DOMAIN s : s[i] = s[j] => i = j

(* A new item keeps the queue free of duplicates. *)
LEMMA DistinctAppend ==
  ASSUME NEW S, NEW s \in Seq(S), NEW e \in S, Distinct(s), e \notin Elements(s)
  PROVE  Distinct(Append(s, e)) /\ Elements(Append(s, e)) = Elements(s) \cup {e}
<1> DEFINE t == Append(s, e)
<1>1. /\ Len(s) \in Nat /\ DOMAIN s = 1..Len(s) /\ DOMAIN t = 1..(Len(s) + 1)
      /\ t[Len(s) + 1] = e /\ \A i \in 1..Len(s) : t[i] = s[i]
  OBVIOUS
<1> HIDE DEF t
<1>2. \A i \in DOMAIN t : (i \in DOMAIN s /\ t[i] = s[i]) \/ (i = Len(s) + 1 /\ t[i] = e)
  BY <1>1
<1>3. Elements(t) = Elements(s) \cup {e}
  <2>1. Elements(t) \subseteq Elements(s) \cup {e}
    BY <1>2 DEF Elements
  <2>2. Elements(s) \subseteq Elements(t)
    BY <1>1 DEF Elements
  <2>3. e \in Elements(t)
    BY <1>1 DEF Elements
  <2> QED
    BY <2>1, <2>2, <2>3
<1>4. ASSUME NEW i \in DOMAIN t, NEW j \in DOMAIN t, t[i] = t[j] PROVE i = j
  <2>1. \A k \in DOMAIN s : s[k] # e
    BY DEF Elements
  <2> QED
    BY <1>2, <1>4, <2>1 DEF Distinct
<1> QED
  BY <1>3, <1>4 DEF Distinct, t

(* The first item leaves the queue for good. *)
LEMMA DistinctTail ==
  ASSUME NEW S, NEW s \in Seq(S), s # <<>>, Distinct(s)
  PROVE  Distinct(Tail(s)) /\ Elements(Tail(s)) = Elements(s) \ {Head(s)} /\ Head(s) \in Elements(s)
<1> DEFINE t == Tail(s)
<1>1. /\ Len(s) \in Nat \ {0} /\ DOMAIN s = 1..Len(s) /\ DOMAIN t = 1..(Len(s) - 1)
      /\ Head(s) = s[1] /\ \A i \in 1..(Len(s) - 1) : t[i] = s[i + 1]
  OBVIOUS
<1> HIDE DEF t
<1>2. \A i \in DOMAIN t : i + 1 \in DOMAIN s /\ i + 1 # 1 /\ t[i] = s[i + 1]
  BY <1>1
<1>3. 1 \in DOMAIN s
  BY <1>1
<1>4. Elements(t) \subseteq Elements(s) \ {Head(s)}
  <2> SUFFICES ASSUME NEW i \in DOMAIN t PROVE t[i] \in Elements(s) \ {Head(s)}
    BY DEF Elements
  <2> QED
    BY <1>1, <1>2, <1>3 DEF Elements, Distinct
<1>5. Elements(s) \ {Head(s)} \subseteq Elements(t)
  <2> SUFFICES ASSUME NEW i \in DOMAIN s, s[i] # Head(s) PROVE s[i] \in Elements(t)
    BY DEF Elements
  <2>1. i # 1 /\ i - 1 \in DOMAIN t /\ t[i - 1] = s[i]
    BY <1>1
  <2> QED
    BY <2>1 DEF Elements
<1>6. Distinct(t)
  <2> SUFFICES ASSUME NEW i \in DOMAIN t, NEW j \in DOMAIN t, t[i] = t[j] PROVE i = j
    BY DEF Distinct
  <2>1. i + 1 = j + 1
    BY <1>2 DEF Distinct
  <2> QED
    BY <1>1, <2>1
<1> QED
  BY <1>1, <1>3, <1>4, <1>5, <1>6 DEF Elements, t

-----------------------------------------------------------------------------
(* One job per item.                                                       *)

Alone == \A k, l \in Workers : task[k] = task[l] /\ task[k] # NoItem => k = l

LEMMA JobsParts ==
  OneJobPerItem <=> /\ Distinct(jobs) /\ Alone
                    /\ Elements(jobs) \cap Started = {}
                    /\ inflight = Elements(jobs) \cup Started
BY DEF OneJobPerItem, Distinct, Alone, Elements, Queued

LEMMA JobsInit == Init => OneJobPerItem
<1> SUFFICES ASSUME Init PROVE OneJobPerItem
  OBVIOUS
<1>1. DOMAIN jobs = {} /\ Queued = {}
  BY DEF Init, Queued
<1>2. Started = {}
  BY DEF Init, Started
<1> QED
  BY <1>1, <1>2 DEF OneJobPerItem, Init

LEMMA JobsStep == TypeOK /\ OneJobPerItem /\ [Next]_vars => OneJobPerItem'
<1> SUFFICES ASSUME TypeOK, OneJobPerItem, [Next]_vars PROVE OneJobPerItem'
  OBVIOUS
<1>p. /\ Distinct(jobs) /\ Alone
      /\ Elements(jobs) \cap Started = {}
      /\ inflight = Elements(jobs) \cup Started
  BY JobsParts
<1>s. SUFFICES /\ Distinct(jobs') /\ Alone'
               /\ Elements(jobs') \cap Started' = {}
               /\ inflight' = Elements(jobs') \cup Started'
  BY DEF OneJobPerItem, Distinct, Alone, Elements, Queued
<1>1. CASE Dispatch
  <2>1. CASE UNCHANGED <<inflight, jobs>>
    BY <1>1, <2>1, <1>p DEF Dispatch, worker, Started, Alone
  <2>2. CASE /\ claimed \notin inflight /\ Session[claimed] # NoSession
             /\ inflight' = inflight \cup {claimed} /\ jobs' = Append(jobs, claimed)
    <3>1. claimed \in Runnable /\ jobs \in Seq(Runnable)
      BY <1>1, <2>2, SessionAssumption DEF Dispatch, TypeOK, Runnable
    <3>2. Distinct(jobs') /\ Elements(jobs') = Elements(jobs) \cup {claimed}
      BY <1>p, <2>2, <3>1, DistinctAppend
    <3>3. task' = task /\ Started' = Started
      BY <1>1 DEF Dispatch, worker, Started
    <3> QED
      BY <1>p, <2>2, <3>2, <3>3 DEF Alone
  <2> QED
    BY <1>1, <2>1, <2>2 DEF Dispatch
<1>2. ASSUME NEW k \in Workers, Begin(k)
      PROVE  /\ Distinct(jobs') /\ Alone'
             /\ Elements(jobs') \cap Started' = {}
             /\ inflight' = Elements(jobs') \cup Started'
  <2> DEFINE h == Head(jobs)
  <2>1. /\ jobs # <<>> /\ jobs' = Tail(jobs) /\ inflight' = inflight
        /\ task' = [task EXCEPT ![k] = h] /\ task[k] = NoItem
    BY <1>2 DEF Begin, At, TypeOK
  <2>2. Distinct(jobs') /\ Elements(jobs') = Elements(jobs) \ {h} /\ h \in Elements(jobs)
    BY <1>p, <2>1, DistinctTail DEF TypeOK
  <2>3. h \in Runnable /\ h # NoItem
    BY <2>1, SessionAssumption DEF TypeOK, Runnable
  <2> HIDE DEF h
  <2>4. task'[k] = h /\ \A l \in Workers \ {k} : task'[l] = task[l]
    BY <2>1 DEF TypeOK
  <2>5. Started' = Started \cup {h}
    BY <2>1, <2>3, <2>4 DEF Started
  <2>6. Alone'
    <3> SUFFICES ASSUME NEW i \in Workers, NEW j \in Workers, task'[i] = task'[j], task'[i] # NoItem
                 PROVE  i = j
      BY DEF Alone
    <3>1. \A l \in Workers : task[l] # h
      BY <1>p, <2>2, <2>3 DEF Started
    <3> QED
      BY <1>p, <2>4, <3>1 DEF Alone
  <2> QED
    BY <1>p, <2>1, <2>2, <2>5, <2>6
<1>3. ASSUME NEW k \in Workers, End(k)
      PROVE  /\ Distinct(jobs') /\ Alone'
             /\ Elements(jobs') \cap Started' = {}
             /\ inflight' = Elements(jobs') \cup Started'
  <2>1. /\ jobs' = jobs /\ inflight' = inflight \ {task[k]}
        /\ task' = [task EXCEPT ![k] = NoItem] /\ task[k] # NoItem
    BY <1>3 DEF End, At, TypeOK
  <2>2. task'[k] = NoItem /\ \A l \in Workers \ {k} : task'[l] = task[l]
    BY <2>1 DEF TypeOK
  <2>3. \A l \in Workers \ {k} : task[l] # task[k]
    BY <1>p, <2>1 DEF Alone
  <2>4. Started' = Started \ {task[k]} /\ task[k] \in Started
    BY <2>1, <2>2, <2>3 DEF Started
  <2>5. Alone'
    BY <1>p, <2>2 DEF Alone
  <2> QED
    BY <1>p, <2>1, <2>4, <2>5
<1>4. CASE Restart
  <2>1. jobs' = <<>> /\ inflight' = {} /\ task' = [k \in Workers |-> NoItem]
    BY <1>4 DEF Restart
  <2>2. Started' = {} /\ Alone'
    BY <2>1 DEF Started, Alone
  <2>3. Elements(jobs') = {} /\ Distinct(jobs')
    BY <2>1 DEF Elements, Distinct
  <2> QED
    BY <2>1, <2>2, <2>3
<1>5. ASSUME NEW w \in Items,
             Enqueue(w) \/ Lapse(w) \/ Claim(w) \/ Serve(w) \/ Exit(w) \/ BoxFails(w)
      PROVE  UNCHANGED <<inflight, jobs, task>>
  BY <1>5 DEF Enqueue, Lapse, Claim, Serve, Exit, BoxFails, poll, worker
<1>6. ASSUME NEW k \in Workers,
             \/ Look(k) \/ Read(k) \/ Make(k) \/ Write(k) \/ WriteFails(k)
             \/ Run(k) \/ RunFails(k) \/ Wait(k)
      PROVE  UNCHANGED <<inflight, jobs, task>>
  BY <1>6 DEF Look, Read, Make, Write, WriteFails, Run, RunFails, Wait, poll
<1>7. CASE UNCHANGED vars
  BY <1>7, <1>p DEF vars, poll, worker, Started, Alone
<1>8. ASSUME UNCHANGED <<inflight, jobs, task>>
      PROVE  /\ Distinct(jobs') /\ Alone'
             /\ Elements(jobs') \cap Started' = {}
             /\ inflight' = Elements(jobs') \cup Started'
  BY <1>8, <1>p DEF Started, Alone
<1> QED
  BY <1>1, <1>2, <1>3, <1>4, <1>5, <1>6, <1>7, <1>8 DEF Next, Work

(* However leases lapse and items are handed out again, no item is twice   *)
(* in the pool, and `inflight` is the set of those that are in it: an item *)
(* is never spawned twice at a time, nor shut out for good.                *)
THEOREM JobsAreUnique == Spec => []OneJobPerItem
<1>1. Init => TypeOK /\ OneJobPerItem
  BY TypeInit, JobsInit
<1>2. TypeOK /\ OneJobPerItem /\ [Next]_vars => (TypeOK /\ OneJobPerItem)'
  BY TypeStep, JobsStep
<1> QED
  BY <1>1, <1>2, PTL DEF Spec

-----------------------------------------------------------------------------
(* The pinned image.                                                       *)

(* A session has at most one item that is waiting or at work. *)
OneActive == \A v, w \in Items : /\ v # w /\ Session[v] = Session[w]
                                 /\ work[v] \notin {"new", "stopped"}
                                 => work[w] \in {"new", "stopped"}

(* What was claimed is no longer new, and what was stopped had a container. *)
Known == /\ claimed # NoItem => work[claimed] # "new"
         /\ \A w \in inflight \cup up : work[w] # "new"
         /\ \A w \in up : used[Session[w]] # {}
         /\ \A w \in Runnable : work[w] = "stopped" => used[Session[w]] # {}

(* A marker is only made where nothing was recorded yet, and an image that *)
(* was handed on is the recorded one.                                      *)
Recorded == /\ \A s \in Sessions : s \notin marked => content[s] = NoImage
            /\ \A k \in Workers : pc[k] \in {"make", "write"} => content[Mine(k)] = NoImage
            /\ \A k \in Workers : pc[k] = "write" => Mine(k) \in marked
            /\ \A k \in Workers : pc[k] = "run" /\ ref[k] # NoImage => ref[k] = content[Mine(k)]

PinInv == OneActive /\ Known /\ Recorded /\ Pinned

LEMMA PinInit == Init => PinInv
BY DEF Init, PinInv, OneActive, Known, Recorded, Pinned, Runnable

(* While nothing is recorded for a session, one worker at most is on it. *)
LEMMA FirstAlone ==
  ASSUME TypeOK, OneJobPerItem, OneActive, Known, Pinned,
         NEW k \in Workers, NEW l \in Workers, pc[k] # "idle", pc[l] # "idle",
         Mine(k) = Mine(l), content[Mine(k)] = NoImage
  PROVE  k = l
<1>1. /\ task[k] \in Runnable /\ task[l] \in Runnable /\ task[k] # NoItem /\ task[l] # NoItem
      /\ task[k] \in Items /\ task[l] \in Items /\ Mine(k) \in Sessions
  BY Tasks
<1>2. used[Mine(k)] = {}
  BY <1>1, ImagesAssumption DEF TypeOK, Pinned
<1>3. task[k] \in inflight /\ task[l] \in inflight
  BY <1>1 DEF OneJobPerItem, Started
<1>4. work[task[k]] \notin {"new", "stopped"} /\ work[task[l]] \notin {"new", "stopped"}
  BY <1>1, <1>2, <1>3 DEF Known, Mine
<1>5. task[k] = task[l]
  BY <1>1, <1>4 DEF OneActive, Mine
<1> QED
  BY <1>1, <1>5 DEF OneJobPerItem

LEMMA PinStep == TypeOK /\ OneJobPerItem /\ PinInv /\ [Next]_vars => PinInv'
<1> SUFFICES ASSUME TypeOK, OneJobPerItem, OneActive, Known, Recorded, Pinned, [Next]_vars
             PROVE  OneActive' /\ Known' /\ Recorded' /\ Pinned'
  BY DEF PinInv
(* The platform and the claim loop. *)
<1>1. ASSUME NEW w \in Items, Enqueue(w) PROVE OneActive' /\ Known' /\ Recorded' /\ Pinned'
  <2>1. /\ work[w] = "new" /\ work'[w] = "queued" /\ \A v \in Items \ {w} : work'[v] = work[v]
        /\ \A v \in Items \ {w} : Session[v] = Session[w] => work[v] \in {"new", "stopped"}
        /\ UNCHANGED <<claimed, inflight, jobs, pc, task, ref, image, marked, content, up, used>>
    BY <1>1 DEF Enqueue, TypeOK, poll, worker, marker, docker
  <2>2. OneActive'
    BY <2>1 DEF OneActive
  <2>3. Known'
    BY <2>1, SessionAssumption DEF Known, TypeOK, Runnable
  <2> QED
    BY <2>1, <2>2, <2>3 DEF Recorded, Pinned, Mine
<1>2. ASSUME NEW w \in Items, Lapse(w) \/ Claim(w) PROVE OneActive' /\ Known' /\ Recorded' /\ Pinned'
  <2>1. /\ work[w] \notin {"new", "stopped"} /\ work'[w] \notin {"new", "stopped"}
        /\ \A v \in Items \ {w} : work'[v] = work[v]
        /\ claimed' = claimed \/ claimed' = w
        /\ UNCHANGED <<inflight, jobs, pc, task, ref, image, marked, content, up, used>>
    BY <1>2 DEF Lapse, Claim, TypeOK, poll, worker, marker, docker
  <2>2. OneActive'
    BY <2>1 DEF OneActive
  <2>3. Known'
    BY <2>1, SessionAssumption DEF Known, TypeOK, Runnable
  <2> QED
    BY <2>1, <2>2, <2>3 DEF Recorded, Pinned, Mine
<1>3. CASE Dispatch
  <2>1. /\ claimed \in Items /\ claimed # NoItem /\ claimed' = NoItem
        /\ inflight' \subseteq inflight \cup {claimed}
        /\ UNCHANGED <<work, pc, task, ref, image, marked, content, up, used>>
    BY <1>3 DEF Dispatch, TypeOK, platform, worker, marker, docker
  <2>2. Known'
    BY <2>1 DEF Known
  <2> QED
    BY <2>1, <2>2 DEF OneActive, Recorded, Pinned, Mine
(* The workers. *)
<1>4. ASSUME NEW k \in Workers,
             Begin(k) \/ Look(k) \/ Read(k) \/ Wait(k) \/ WriteFails(k) \/ RunFails(k) \/ End(k)
      PROVE  OneActive' /\ Known' /\ Recorded' /\ Pinned'
  <2>1. /\ claimed' = claimed /\ inflight' \subseteq inflight
        /\ UNCHANGED <<work, image, marked, content, up, used>>
    BY <1>4 DEF Begin, Look, Read, Wait, WriteFails, RunFails, End, platform, poll, marker, docker
  <2>2. OneActive' /\ Known' /\ Pinned'
    BY <2>1 DEF OneActive, Known, Pinned
  <2>3. /\ \A l \in Workers \ {k} : pc'[l] = pc[l] /\ task'[l] = task[l] /\ ref'[l] = ref[l]
        /\ pc'[k] \notin {"make", "write", "run"} \/ Look(k) \/ Read(k)
    BY <1>4 DEF Begin, Look, Read, Wait, WriteFails, RunFails, End, To, TypeOK, poll
  <2>4. Look(k) => task' = task /\ (pc'[k] = "make" => content[Mine(k)] = NoImage) /\ pc'[k] \in {"read", "make"}
    <3> SUFFICES ASSUME Look(k)
                 PROVE  task' = task /\ (pc'[k] = "make" => content[Mine(k)] = NoImage) /\ pc'[k] \in {"read", "make"}
      OBVIOUS
    <3>1. Mine(k) \in Sessions
      BY Tasks DEF Look, At
    <3> HIDE DEF Mine
    <3> QED
      BY <3>1 DEF Look, To, TypeOK, Recorded
  <2>5. Read(k) => task' = task /\ pc'[k] = "run" /\ ref'[k] = content[Mine(k)]
    BY DEF Read, To, TypeOK, Mine
  <2>6. Recorded'
    <3>1. \A s \in Sessions : s \notin marked' => content'[s] = NoImage
      BY <2>1 DEF Recorded
    <3>2. ASSUME NEW l \in Workers, pc'[l] \in {"make", "write"} PROVE content'[Mine(l)'] = NoImage
      BY <2>1, <2>3, <2>4, <2>5, <3>2 DEF Recorded, Mine
    <3>3. ASSUME NEW l \in Workers, pc'[l] = "run", ref'[l] # NoImage PROVE ref'[l] = content'[Mine(l)']
      BY <2>1, <2>3, <2>4, <2>5, <3>3 DEF Recorded, Mine
    <3>4. ASSUME NEW l \in Workers, pc'[l] = "write" PROVE Mine(l)' \in marked'
      BY <2>1, <2>3, <2>4, <2>5, <3>4 DEF Recorded, Mine
    <3> QED
      BY <3>1, <3>2, <3>3, <3>4 DEF Recorded
  <2> QED
    BY <2>2, <2>6
<1>5. ASSUME NEW k \in Workers, Make(k) \/ Write(k) PROVE OneActive' /\ Known' /\ Recorded' /\ Pinned'
  <2> DEFINE s == Mine(k)
  <2>1. /\ s \in Sessions /\ content[s] = NoImage /\ pc[k] # "idle"
    BY <1>5, Tasks DEF Make, Write, At, Recorded
  <2>2. used[s] = {}
    BY <2>1, ImagesAssumption DEF TypeOK, Pinned
  <2>3. \A l \in Workers \ {k} : pc[l] # "idle" => Mine(l) # s
    BY <2>1, FirstAlone DEF Recorded
  <2>4. /\ UNCHANGED <<work, claimed, inflight, jobs, task, image, up, used>>
        /\ marked' \in {marked, marked \cup {s}} /\ (Make(k) => s \in marked')
        /\ pc'[k] \in {"write", "run"} /\ (pc'[k] = "write" <=> Make(k))
        /\ \A l \in Workers \ {k} : pc'[l] = pc[l] /\ ref'[l] = ref[l]
    BY <1>5 DEF Make, Write, To, At, platform, poll, docker, TypeOK
  <2>5. /\ \A r \in Sessions \ {s} : content'[r] = content[r]
        /\ Make(k) => content'[s] = NoImage
        /\ Write(k) => content'[s] = ref'[k]
    <3>1. content \in [Sessions -> Images \cup {NoImage}] /\ ref \in [Workers -> Images \cup {NoImage}]
      BY DEF TypeOK
    <3>2. CASE Make(k)
      BY <2>1, <3>1, <3>2 DEF Make, Write, At
    <3>3. CASE Write(k)
      BY <2>1, <3>1, <3>3 DEF Make, Write, At
    <3> QED
      BY <1>5, <3>2, <3>3
  <2>6. \A l \in Workers : Mine(l)' = Mine(l)
    BY <2>4 DEF Mine
  <2>7. Write(k) => s \in marked
    BY DEF Write, At, Recorded
  <2> HIDE DEF s
  <2>8. \A l \in Workers \ {k} : pc[l] # "idle" => Mine(l) \in Sessions
    BY Tasks
  <2>9. \A r \in Sessions : r \notin marked' => content'[r] = NoImage
    BY <1>5, <2>4, <2>5, <2>7 DEF Recorded
  <2>10. ASSUME NEW l \in Workers, pc'[l] \in {"make", "write"} PROVE content'[Mine(l)] = NoImage
    <3>1. CASE l = k
      BY <2>4, <2>5, <2>10, <3>1 DEF s
    <3>2. CASE l # k
      BY <2>3, <2>4, <2>5, <2>8, <2>10, <3>2 DEF Recorded
    <3> QED
      BY <3>1, <3>2
  <2>11. ASSUME NEW l \in Workers, pc'[l] = "run", ref'[l] # NoImage PROVE ref'[l] = content'[Mine(l)]
    <3>1. CASE l = k
      BY <1>5, <2>4, <2>5, <2>11, <3>1 DEF s
    <3>2. CASE l # k
      BY <2>3, <2>4, <2>5, <2>8, <2>11, <3>2 DEF Recorded
    <3> QED
      BY <3>1, <3>2
  <2>12. ASSUME NEW l \in Workers, pc'[l] = "write" PROVE Mine(l) \in marked'
    BY <1>5, <2>4, <2>12 DEF Recorded, s
  <2>13. Recorded'
    BY <2>6, <2>9, <2>10, <2>11, <2>12 DEF Recorded
  <2>14. Pinned'
    BY <2>2, <2>4, <2>5 DEF Pinned
  <2> QED
    BY <2>4, <2>13, <2>14 DEF OneActive, Known
<1>6. ASSUME NEW k \in Workers, Run(k) PROVE OneActive' /\ Known' /\ Recorded' /\ Pinned'
  <2> DEFINE s == Mine(k)
             w == task[k]
  <2>1. /\ s \in Sessions /\ w \in Items /\ w # NoItem /\ Session[w] = s
        /\ ref[k] = content[s] /\ ref[k] \in Images
    BY <1>6, Tasks DEF Run, At, Recorded, Mine, TypeOK
  <2>2. /\ UNCHANGED <<work, claimed, inflight, jobs, task, ref, image, marked, content>>
        /\ up' = up \cup {w} /\ pc'[k] = "wait" /\ \A l \in Workers \ {k} : pc'[l] = pc[l]
    BY <1>6 DEF Run, To, platform, poll, marker, TypeOK
  <2>3. w \in inflight
    BY <2>1 DEF OneJobPerItem, Started
  <2> HIDE DEF w
  <2>4. used'[s] = used[s] \cup {ref[k]} /\ \A r \in Sessions \ {s} : used'[r] = used[r]
    <3> HIDE DEF s
    <3>1. used' = [used EXCEPT ![s] = @ \cup {ref[k]}]
      BY <1>6 DEF Run, s
    <3> QED
      BY <2>1, <3>1 DEF TypeOK
  <2> HIDE DEF s
  <2>5. Known'
    <3>1. \A r \in Sessions : used[r] # {} => used'[r] # {}
      BY <2>4
    <3>2. \A v \in up : Session[v] \in Sessions
      BY DEF TypeOK, Runnable
    <3>3. used'[s] # {}
      BY <2>4
    <3> QED
      BY <2>1, <2>2, <2>3, <3>1, <3>2, <3>3 DEF Known, Runnable
  <2>6. Pinned'
    BY <2>1, <2>2, <2>4 DEF Pinned
  <2>7. Recorded'
    BY <2>2 DEF Recorded, Mine
  <2> QED
    BY <2>2, <2>5, <2>6, <2>7 DEF OneActive
(* The containers and the poller's end. *)
<1>7. ASSUME NEW w \in Items, Serve(w) PROVE OneActive' /\ Known' /\ Recorded' /\ Pinned'
  <2>1. /\ w \in up /\ work'[w] = "stopped" /\ \A v \in Items \ {w} : work'[v] = work[v]
        /\ UNCHANGED <<claimed, inflight, jobs, pc, task, ref, image, marked, content, up, used>>
    BY <1>7 DEF Serve, TypeOK, poll, worker, marker, docker
  <2>2. OneActive'
    BY <2>1 DEF OneActive
  <2>3. Known'
    BY <2>1, SessionAssumption DEF Known, TypeOK, Runnable
  <2> QED
    BY <2>1, <2>2, <2>3 DEF Recorded, Pinned, Mine
<1>8. ASSUME NEW w \in Items, Exit(w) \/ BoxFails(w) PROVE OneActive' /\ Known' /\ Recorded' /\ Pinned'
  <2>1. /\ up' \subseteq up
        /\ UNCHANGED <<work, claimed, inflight, jobs, pc, task, ref, image, marked, content, used>>
    BY <1>8 DEF Exit, BoxFails, platform, poll, worker, marker
  <2> QED
    BY <2>1 DEF OneActive, Known, Recorded, Pinned, Mine
<1>9. CASE Restart
  <2>1. /\ claimed' = NoItem /\ inflight' = {} /\ UNCHANGED <<work, marked, content, up, used>>
        /\ \A k \in Workers : pc'[k] = "idle"
    BY <1>9 DEF Restart, platform, marker, docker
  <2> QED
    BY <2>1 DEF OneActive, Known, Recorded, Pinned
<1>10. CASE UNCHANGED vars
  BY <1>10 DEF vars, poll, worker, marker, docker, OneActive, Known, Recorded, Pinned, Mine
<1> QED
  BY <1>1, <1>2, <1>3, <1>4, <1>5, <1>6, <1>7, <1>8, <1>9, <1>10 DEF Next, Work

(* All containers a session ever has run the image its workspace records,  *)
(* over any restarts of the poller with other images.                      *)
THEOREM ImageIsPinned == Spec => []Pinned
<1> DEFINE Inv == TypeOK /\ OneJobPerItem /\ PinInv
<1>1. Init => Inv
  BY TypeInit, JobsInit, PinInit
<1>2. Inv /\ [Next]_vars => Inv'
  BY TypeStep, JobsStep, PinStep
<1>3. Inv => Pinned
  BY DEF PinInv
<1> QED
  BY <1>1, <1>2, <1>3, PTL DEF Spec
=============================================================================
