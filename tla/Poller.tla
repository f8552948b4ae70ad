------------------------------- MODULE Poller -------------------------------
(***************************************************************************)
(* The host poller (worker/poller.py): it claims work items from the       *)
(* environment's queue and runs a sandbox container for each, on a pool of *)
(* threads, with the image that the item's session started with.           *)
(*                                                                         *)
(* External: the platform's queue, which leases an item to whoever claims  *)
(* it and hands it out again when the lease is not renewed in time, and    *)
(* docker, which runs one container of a name at a time (spawn.sh names it *)
(* after the item).                                                        *)
(***************************************************************************)
EXTENDS Naturals, Sequences, FiniteSets

CONSTANTS Items,
          Sessions,
          Session,      \* the session of each item, or NoSession
          NoSession,
          Images,       \* the sandbox images a poller may be started with
          NoImage,      \* an empty reference
          Pool,         \* max_concurrent
          NoItem,
          Faults,       \* which of AllFaults may happen
          MaxFaults,    \* bound: how often
          MaxRestarts   \* bound: how often the poller dies and is started again

(* "docker" `docker run` fails;  "box" a container fails before it is done *)
(* with its item;  "disk" the workspace cannot be written.                 *)
AllFaults == {"docker", "box", "disk"}

ASSUME SessionAssumption == /\ Session \in [Items -> Sessions \cup {NoSession}]
                            /\ NoSession \notin Sessions /\ NoItem \notin Items
ASSUME ImagesAssumption == Images # {} /\ NoImage \notin Images
ASSUME PollerBounds == /\ Pool \in Nat \ {0} /\ Faults \subseteq AllFaults
                       /\ MaxFaults \in Nat /\ MaxRestarts \in Nat

Workers == 1..Pool
Runnable == {w \in Items : Session[w] \in Sessions}

VARIABLES
  work,      \* the platform: the state of each item
  claimed,   \* the item iter_work has just yielded
  inflight,
  jobs,      \* the pool's items that no worker has started
  pc, task,  \* by worker: where it is, and with which item
  ref,       \* the image session_image returned to it
  image,     \* cfg.image
  marked,    \* the sessions whose workspace has a file .image
  content,   \* and what is in it
  up,        \* the items whose container exists
  used,      \* history: the images each session's containers ran
  faults, restarts

platform == work
poll == <<claimed, inflight, jobs>>
worker == <<pc, task, ref>>
marker == <<marked, content>>
docker == <<up, used>>
counts == <<faults, restarts>>
vars == <<work, poll, worker, image, marker, docker, counts>>

TypeOK ==
  /\ work \in [Items -> {"new", "queued", "leased", "lapsed", "stopped"}]
  /\ claimed \in Items \cup {NoItem}
  /\ inflight \subseteq Runnable /\ jobs \in Seq(Runnable)
  /\ pc \in [Workers -> {"idle", "look", "read", "make", "write", "run", "wait", "end"}]
  /\ task \in [Workers -> Runnable \cup {NoItem}]
  /\ \A k \in Workers : pc[k] = "idle" <=> task[k] = NoItem
  /\ ref \in [Workers -> Images \cup {NoImage}]
  /\ image \in Images
  /\ marked \subseteq Sessions /\ content \in [Sessions -> Images \cup {NoImage}]
  /\ up \subseteq Runnable /\ used \in [Sessions -> SUBSET Images]
  /\ faults \in 0..MaxFaults /\ restarts \in 0..MaxRestarts

Init ==
  /\ work = [w \in Items |-> "new"]
  /\ claimed = NoItem /\ inflight = {} /\ jobs = <<>>
  /\ pc = [k \in Workers |-> "idle"]
  /\ task = [k \in Workers |-> NoItem]
  /\ ref = [k \in Workers |-> NoImage]
  /\ image \in Images
  /\ marked = {} /\ content = [s \in Sessions |-> NoImage]
  /\ up = {} /\ used = [s \in Sessions |-> {}]
  /\ faults = 0 /\ restarts = 0

-----------------------------------------------------------------------------
(* The platform (external).                                                *)

(* An item covers one active period of its session: the next one is made   *)
(* when the last was stopped.                                              *)
Enqueue(w) ==
  /\ work[w] = "new"
  /\ \A v \in Items : v # w /\ Session[v] = Session[w] => work[v] \in {"new", "stopped"}
  /\ work' = [work EXCEPT ![w] = "queued"]
  /\ UNCHANGED <<poll, worker, image, marker, docker, counts>>

(* A lease grows older than reclaim_older_than_ms, with its container      *)
(* running or not.                                                         *)
Lapse(w) ==
  /\ work[w] = "leased"
  /\ work' = [work EXCEPT ![w] = "lapsed"]
  /\ UNCHANGED <<poll, worker, image, marker, docker, counts>>

-----------------------------------------------------------------------------
(* The claim loop.                                                         *)

(* iter_work yields an item that waits, or whose lease lapsed. *)
Claim(w) ==
  /\ claimed = NoItem /\ work[w] \in {"queued", "lapsed"}
  /\ work' = [work EXCEPT ![w] = "leased"]
  /\ claimed' = w
  /\ UNCHANGED <<inflight, jobs, worker, image, marker, docker, counts>>

(* Fault: the items in flight are not looked at. *)
DispatchAgain ==
  /\ claimed # NoItem
  /\ claimed' = NoItem
  /\ IF Session[claimed] = NoSession
     THEN UNCHANGED <<inflight, jobs>>
     ELSE inflight' = inflight \cup {claimed} /\ jobs' = Append(jobs, claimed)
  /\ UNCHANGED <<platform, worker, image, marker, docker, counts>>

(* It is given to the pool, unless it is in flight or not a session's. *)
Dispatch ==
  /\ claimed # NoItem
  /\ claimed' = NoItem
  /\ IF Session[claimed] = NoSession \/ claimed \in inflight
     THEN UNCHANGED <<inflight, jobs>>
     ELSE inflight' = inflight \cup {claimed} /\ jobs' = Append(jobs, claimed)
  /\ UNCHANGED <<platform, worker, image, marker, docker, counts>>

-----------------------------------------------------------------------------
(* A worker of the pool: dispatch, and spawn in it.                        *)

At(k, p) == pc[k] = p
To(k, p) == pc' = [pc EXCEPT ![k] = p]
Mine(k) == Session[task[k]]

Begin(k) ==
  /\ At(k, "idle") /\ jobs # <<>>
  /\ To(k, "look")
  /\ task' = [task EXCEPT ![k] = Head(jobs)]
  /\ jobs' = Tail(jobs)
  /\ UNCHANGED <<platform, claimed, inflight, ref, image, marker, docker, counts>>

(* session_image: the marker is looked for. *)
Look(k) ==
  /\ At(k, "look")
  /\ To(k, IF Mine(k) \in marked THEN "read" ELSE "make")
  /\ UNCHANGED <<platform, poll, task, ref, image, marker, docker, counts>>

(* Fault: the image is the poller's, whatever the session started with. *)
ReadCurrent(k) ==
  /\ At(k, "read")
  /\ ref' = [ref EXCEPT ![k] = image]
  /\ To(k, "run")
  /\ UNCHANGED <<platform, poll, task, image, marker, docker, counts>>

Read(k) ==
  /\ At(k, "read")
  /\ ref' = [ref EXCEPT ![k] = content[Mine(k)]]
  /\ To(k, "run")
  /\ UNCHANGED <<platform, poll, task, image, marker, docker, counts>>

(* write_text opens the file, which empties it, and then writes. *)
Make(k) ==
  /\ At(k, "make")
  /\ marked' = marked \cup {Mine(k)}
  /\ content' = [content EXCEPT ![Mine(k)] = NoImage]
  /\ To(k, "write")
  /\ UNCHANGED <<platform, poll, task, ref, image, docker, counts>>

Write(k) ==
  /\ At(k, "write")
  /\ content' = [content EXCEPT ![Mine(k)] = image]
  /\ ref' = [ref EXCEPT ![k] = image]
  /\ To(k, "run")
  /\ UNCHANGED <<platform, poll, task, image, marked, docker, counts>>

Fault(f) == f \in Faults /\ faults < MaxFaults /\ faults' = faults + 1

(* The workspace is not writable, or full; dispatch logs the exception. *)
WriteFails(k) ==
  /\ pc[k] \in {"make", "write"}
  /\ Fault("disk")
  /\ To(k, "end")
  /\ UNCHANGED <<platform, poll, task, ref, image, marker, docker, restarts>>

(* spawn.sh: docker runs the image, under the item's name. *)
Run(k) ==
  /\ At(k, "run") /\ ref[k] # NoImage /\ task[k] \notin up
  /\ up' = up \cup {task[k]}
  /\ used' = [used EXCEPT ![Mine(k)] = @ \cup {ref[k]}]
  /\ To(k, "wait")
  /\ UNCHANGED <<platform, poll, task, ref, image, marker, counts>>

(* No image was given, or the name is taken, or docker fails. *)
RunFails(k) ==
  /\ At(k, "run")
  /\ \/ (ref[k] = NoImage \/ task[k] \in up) /\ UNCHANGED faults
     \/ Fault("docker")
  /\ To(k, "end")
  /\ UNCHANGED <<platform, poll, task, ref, image, marker, docker, restarts>>

(* subprocess.run returns when the container is gone. *)
Wait(k) ==
  /\ At(k, "wait") /\ task[k] \notin up
  /\ To(k, "end")
  /\ UNCHANGED <<platform, poll, task, ref, image, marker, docker, counts>>

(* Fault: the item stays in flight. *)
EndInFlight(k) ==
  /\ At(k, "end")
  /\ To(k, "idle")
  /\ task' = [task EXCEPT ![k] = NoItem]
  /\ ref' = [ref EXCEPT ![k] = NoImage]
  /\ UNCHANGED <<platform, poll, image, marker, docker, counts>>

End(k) ==
  /\ At(k, "end")
  /\ To(k, "idle")
  /\ inflight' = inflight \ {task[k]}
  /\ task' = [task EXCEPT ![k] = NoItem]
  /\ ref' = [ref EXCEPT ![k] = NoImage]
  /\ UNCHANGED <<platform, claimed, jobs, image, marker, docker, counts>>

Work(k) == \/ Begin(k) \/ Look(k) \/ Read(k) \/ Make(k) \/ Write(k) \/ WriteFails(k)
           \/ Run(k) \/ RunFails(k) \/ Wait(k) \/ End(k)

-----------------------------------------------------------------------------
(* The containers (external; entrypoint.py and the SDK's handle_item).     *)

(* The item is handled and stopped. *)
Serve(w) ==
  /\ w \in up /\ work[w] # "stopped"
  /\ work' = [work EXCEPT ![w] = "stopped"]
  /\ UNCHANGED <<poll, worker, image, marker, docker, counts>>

(* The container of an item that was stopped exits, and is removed. *)
Exit(w) ==
  /\ w \in up /\ work[w] = "stopped"
  /\ up' = up \ {w}
  /\ UNCHANGED <<platform, poll, worker, image, marker, used, counts>>

(* It exits before that: a manifest mismatch, an error, a lost host. *)
BoxFails(w) ==
  /\ w \in up /\ work[w] # "stopped"
  /\ Fault("box")
  /\ up' = up \ {w}
  /\ UNCHANGED <<platform, poll, worker, image, marker, used, restarts>>

(* The poller dies and is started again, perhaps with another image.  The  *)
(* containers it started run on.                                           *)
Restart ==
  /\ restarts < MaxRestarts
  /\ restarts' = restarts + 1
  /\ claimed' = NoItem /\ inflight' = {} /\ jobs' = <<>>
  /\ pc' = [k \in Workers |-> "idle"]
  /\ task' = [k \in Workers |-> NoItem]
  /\ ref' = [k \in Workers |-> NoImage]
  /\ image' \in Images
  /\ UNCHANGED <<platform, marker, docker, faults>>

Next == \/ \E w \in Items : \/ Enqueue(w) \/ Lapse(w) \/ Claim(w)
                            \/ Serve(w) \/ Exit(w) \/ BoxFails(w)
        \/ \E k \in Workers : Work(k)
        \/ Dispatch
        \/ Restart

Spec == Init /\ [][Next]_vars

(* The poller and its workers go on, leases and containers come to an end, *)
(* and the platform does not pass an item over for ever.                   *)
FairSpec == /\ Spec
            /\ WF_vars(Dispatch)
            /\ \A k \in Workers : WF_vars(Work(k))
            /\ \A w \in Items : /\ WF_vars(Lapse(w)) /\ SF_vars(Claim(w))
                                /\ WF_vars(Serve(w)) /\ WF_vars(Exit(w))

-----------------------------------------------------------------------------
(* Properties.                                                             *)

(* An item that is handed out again is not spawned a second time: no item  *)
(* is in two places of the pool, and in flight are exactly those that are  *)
(* in one, however a reclaim races with the end of its job (inflight).     *)
Queued == {jobs[i] : i \in DOMAIN jobs}
Started == {task[k] : k \in Workers} \ {NoItem}

OneJobPerItem ==
  /\ \A i, j \in DOMAIN jobs : jobs[i] = jobs[j] => i = j
  /\ \A k, l \in Workers : task[k] = task[l] /\ task[k] # NoItem => k = l
  /\ Queued \cap Started = {}
  /\ inflight = Queued \cup Started

(* All containers a session ever had ran one image, the one its workspace  *)
(* names, over restarts of the poller with other images (session_image).   *)
Pinned == \A s \in Sessions : used[s] \subseteq {content[s]}

(* Every item is served in the end, whatever fails on the way, unless the  *)
(* marker of its session was left empty: the guard of the items in flight  *)
(* is not a blocklist.                                                     *)
Broken(s) == s \in marked /\ content[s] = NoImage /\ \A k \in Workers : ~At(k, "write")

EveryItemServed ==
  \A w \in Items : work[w] = "queued" /\ Session[w] # NoSession
                     ~> work[w] = "stopped" \/ Broken(Session[w])
=============================================================================
