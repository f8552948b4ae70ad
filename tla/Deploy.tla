------------------------------- MODULE Deploy -------------------------------
(***************************************************************************)
(* Deployment: `k8srca sync` (cli.py, sync.py, kb/skills.py) makes and     *)
(* updates the environment, the skills and the agents at the API and keeps *)
(* their ids in .k8srca/state.json; a scenario run (scenario/runner.py)    *)
(* does the same for copies of its own, beginning with production's ids;   *)
(* and the poller and the orchestrator work with the ids they loaded when  *)
(* they started, which `status` compares with the file (runtime.py).       *)
(*                                                                         *)
(* External: the API.  An object has immutable versions; an agent's says   *)
(* which tools it declares and which skills and specialists it uses.       *)
(***************************************************************************)
EXTENDS Naturals, Sequences, FiniteSets

CONSTANTS Env, Skills, Specialists, Coordinator,
          Scoped,      \* SCENARIO_SCOPED_AGENTS and _SKILLS
          Local,       \* the skills a scenario takes from the working tree
          MaxRev,      \* bound: changes of the working tree and its tools
          MaxEvents,   \* bound: runs of either, failing calls and kills
          MaxStarts    \* bound: how often a process is started

Agents == Specialists \cup {Coordinator}
Names == {Env} \cup Skills \cup Agents
Syncs == {"prod", "scenario"}
Roles == {"poller", "slack"}

ASSUME NamesAssumption ==
  /\ Env \notin Skills \cup Agents /\ Skills \cap Agents = {}
  /\ Coordinator \notin Specialists
  /\ Scoped \subseteq Skills \cup Agents /\ Local \subseteq Skills \ Scoped
ASSUME DeployBounds == {MaxRev, MaxEvents, MaxStarts} \subseteq Nat

None == [id |-> 0, version |-> 0, rev |-> 0]
NoState == [n \in Names |-> None]

NoRecord == [alive |-> FALSE, state |-> NoState, image |-> 0]
Down == [up |-> "down", state |-> NoState, image |-> 0]

VARIABLES
  rev,      \* the revision of the working tree and of the live tools
  remote,   \* the API: by id, an object's versions
  saved,    \* each state file
  locals,   \* local-skills.json
  pc, mem,  \* of a sync: where it is, and its State
  done,     \* the names it has dealt with in the present stage
  planned,  \* the revision its plan was made at
  failed,   \* an exception was raised
  whole,    \* a state file was saved by a sync that went through
  orphans,  \* history: objects that a fault made unknown
  proc,     \* the long-running processes: what each loaded
  record,   \* their startup records
  events, starts

sync == <<pc, mem, done, planned, failed>>
disk == <<saved, whole, locals>>
processes == <<proc, record, starts>>
vars == <<rev, remote, disk, sync, orphans, processes, events>>

Entry == [id : Nat, version : Nat, rev : 0..MaxRev]
States == [Names -> Entry]
Content == [of : Names, rev : 0..MaxRev, uses : [Skills \cup Specialists -> Nat \X Nat]]
Process == [up : {"down", "loaded", "running"}, state : States, image : 0..MaxRev]

(* A state names versions that exist. *)
Exists(S) == \A n \in Names : S[n].id # 0 =>
  /\ S[n].id \in 1..Len(remote) /\ S[n].version \in 1..Len(remote[S[n].id])

TypeOK ==
  /\ rev \in 0..MaxRev
  /\ remote \in Seq(Seq(Content))
  /\ saved \in [Syncs -> States] /\ mem \in [Syncs -> States]
  /\ \A p \in Syncs : Exists(saved[p]) /\ Exists(mem[p])
  /\ locals \in [Skills -> Entry]
  /\ whole \in [Syncs -> BOOLEAN] /\ failed \in [Syncs -> BOOLEAN]
  /\ pc \in [Syncs -> {"idle", "env", "skills", "agents", "save"}]
  /\ done \in [Syncs -> SUBSET Names]
  /\ planned \in [Syncs -> 0..MaxRev]
  /\ orphans \subseteq Nat
  /\ proc \in [Roles -> Process]
  /\ record \in [Roles -> [alive : BOOLEAN, state : States, image : 0..MaxRev]]
  /\ events \in 0..MaxEvents /\ starts \in 0..MaxStarts

Init ==
  /\ rev = 0 /\ remote = <<>>
  /\ saved = [p \in Syncs |-> NoState] /\ mem = [p \in Syncs |-> NoState]
  /\ locals = [s \in Skills |-> None]
  /\ whole = [p \in Syncs |-> FALSE] /\ failed = [p \in Syncs |-> FALSE]
  /\ pc = [p \in Syncs |-> "idle"] /\ done = [p \in Syncs |-> {}]
  /\ planned = [p \in Syncs |-> 0]
  /\ orphans = {}
  /\ proc = [r \in Roles |-> Down]
  /\ record = [r \in Roles |-> NoRecord]
  /\ events = 0 /\ starts = 0

-----------------------------------------------------------------------------
(* A sync.                                                                 *)

(* Fault: the scenario's entries are laid over production's. *)
LoadedOverlaid(p) ==
  IF p = "prod" THEN saved["prod"]
  ELSE [n \in Names |-> IF saved["scenario"][n] # None THEN saved["scenario"][n]
                        ELSE IF n = Env THEN None ELSE saved["prod"][n]]

(* What a run begins with: its own file, and for a scenario production's   *)
(* ids wherever it has no copy of its own.                                 *)
Loaded(p) ==
  IF p = "prod" THEN saved["prod"]
  ELSE [n \in Names |-> IF n \in Scoped THEN saved["scenario"][n]
                        ELSE IF n = Env THEN None ELSE saved["prod"][n]]

(* The names of a stage. *)
Stage(p, at) ==
  LET all == CASE at = "env" -> {Env} [] at = "skills" -> Skills [] at = "agents" -> Agents
               [] OTHER -> {}
  IN  IF p = "prod" THEN all ELSE all \cap (Scoped \cup Local)

Ready(p, at, n) ==
  /\ pc[p] = at /\ ~failed[p] /\ n \in Stage(p, at) \ done[p]
  /\ n \in Local => Stage(p, at) \ Local \subseteq done[p]

Start(p) ==
  /\ pc[p] = "idle" /\ events < MaxEvents
  /\ events' = events + 1
  /\ mem' = [mem EXCEPT ![p] = Loaded(p)]
  /\ pc' = [pc EXCEPT ![p] = IF p = "prod" THEN "env" ELSE "skills"]
  /\ \E skip \in {{}, Local} :         \* --local-skill, or not
       done' = [done EXCEPT ![p] = IF p = "prod" THEN {} ELSE skip]
  /\ failed' = [failed EXCEPT ![p] = FALSE]
  /\ UNCHANGED <<rev, remote, disk, planned, orphans, processes>>

(* What the API makes of a call, and the entry the caller then has. *)
Created(c) == Append(remote, <<c>>)
NewEntry(c) == [id |-> Len(remote) + 1, version |-> 1, rev |-> c.rev]
Current(id) == remote[id][Len(remote[id])]
Updated(id, c) ==
  IF Current(id) = c THEN remote ELSE [remote EXCEPT ![id] = Append(@, c)]
UpdatedEntry(id, c) ==
  [id |-> id, version |-> Len(remote[id]) + (IF Current(id) = c THEN 0 ELSE 1), rev |-> c.rev]

NoUses == [n \in Skills \cup Specialists |-> <<0, 0>>]
Plain(n, r) == [of |-> n, rev |-> r, uses |-> NoUses]

(* agent_payload: skills at "latest", and the roster's members pinned.     *)
Payload(p, k) ==
  [of |-> k, rev |-> planned[p],
   uses |-> [n \in Skills \cup Specialists |->
     IF n \in Skills THEN <<mem[p][n].id, 0>>
     ELSE IF k = Coordinator THEN <<mem[p][n].id, mem[p][n].version>> ELSE <<0, 0>>]]

(* What the code knows of n before it makes the call. *)
Known(p, n) == IF n \in Local /\ p = "scenario" THEN locals[n] ELSE mem[p][n]

(* The call went through. *)
Record(p, n, entry) ==
  /\ mem' = [mem EXCEPT ![p][n] = entry]
  /\ locals' = IF n \in Local /\ p = "scenario" THEN [locals EXCEPT ![n] = entry] ELSE locals
  /\ done' = [done EXCEPT ![p] = @ \cup {n}]
  /\ UNCHANGED <<rev, saved, whole, pc, planned, failed, processes>>

Make(p, n, c) ==
  /\ remote' = Created(c) /\ Record(p, n, NewEntry(c))

(* ensure_environment: no update, only the check that it is there. *)
EnsureEnvironment(p) ==
  /\ Ready(p, "env", Env)
  /\ IF mem[p][Env] = None THEN Make(p, Env, Plain(Env, 0))
     ELSE Record(p, Env, mem[p][Env]) /\ UNCHANGED remote
  /\ UNCHANGED <<orphans, events>>

(* upload: a new version only when the bundle's digest changed.            *)
UploadSkill(p, s) ==
  LET known == Known(p, s) c == Plain(s, rev) IN
  /\ Ready(p, "skills", s)
  /\ CASE known = None -> Make(p, s, c)
       [] known # None /\ known.rev = rev -> Record(p, s, known) /\ UNCHANGED remote
       [] OTHER -> remote' = Updated(known.id, c) /\ Record(p, s, UpdatedEntry(known.id, c))
  /\ UNCHANGED <<orphans, events>>

(* sync_order: the specialists before the coordinator, and resolve_roster: *)
(* without one of them it raises, which is a failure like any other.       *)
InOrder(p, k) == k = Coordinator =>
  /\ Specialists \cap Stage(p, "agents") \subseteq done[p]
  /\ \A s \in Specialists : mem[p][s] # None

EnsureAgent(p, k) ==
  LET known == mem[p][k] c == Payload(p, k) IN
  /\ Ready(p, "agents", k) /\ InOrder(p, k)
  /\ IF known = None THEN Make(p, k, c)
     ELSE remote' = Updated(known.id, c) /\ Record(p, k, UpdatedEntry(known.id, c))
  /\ UNCHANGED <<orphans, events>>

(* A stage is over; the plan is made anew once the skills are there.       *)
NextStage(p) ==
  /\ pc[p] \in {"env", "skills", "agents"} /\ ~failed[p]
  /\ Stage(p, pc[p]) \subseteq done[p]
  /\ pc' = [pc EXCEPT ![p] = CASE @ = "env" -> "skills" [] @ = "skills" -> "agents"
                               [] @ = "agents" -> "save"]
  /\ planned' = IF pc[p] = "skills" THEN [planned EXCEPT ![p] = rev] ELSE planned
  /\ UNCHANGED <<rev, remote, disk, mem, done, failed, orphans, processes, events>>

Ids(S) == {S[n].id : n \in Names} \ {0}
LocalIds == {locals[s].id : s \in Skills} \ {0}

(* The command ends, and its State with it. *)
Ends(p) ==
  /\ pc' = [pc EXCEPT ![p] = "idle"] /\ failed' = [failed EXCEPT ![p] = FALSE]
  /\ mem' = [mem EXCEPT ![p] = NoState] /\ done' = [done EXCEPT ![p] = {}]
  /\ planned' = [planned EXCEPT ![p] = 0]

(* Fault: the state is saved after the last agent only. *)
SaveAtEnd(p) ==
  /\ pc[p] = "save" \/ (p = "prod" /\ failed[p])
  /\ saved' = IF failed[p] THEN saved ELSE [saved EXCEPT ![p] = mem[p]]
  /\ whole' = [whole EXCEPT ![p] = ~failed[p]]
  /\ Ends(p)
  /\ UNCHANGED <<rev, remote, locals, orphans, processes, events>>

(* A sync saves in a `finally`; a scenario only when it went through.      *)
Save(p) ==
  /\ pc[p] = "save" \/ (p = "prod" /\ failed[p])
  /\ saved' = [saved EXCEPT ![p] = mem[p]]
  /\ whole' = [whole EXCEPT ![p] = ~failed[p]]
  /\ Ends(p)
  /\ UNCHANGED <<rev, remote, locals, orphans, processes, events>>

-----------------------------------------------------------------------------
(* Faults.                                                                 *)

Fault(p) == events < MaxEvents /\ events' = events + 1 /\ pc[p] # "idle"

Fail(p) == failed' = [failed EXCEPT ![p] = TRUE]

(* A call, or the second plan, raises. *)
CallFails(p) ==
  /\ Fault(p) /\ pc[p] # "save" /\ ~failed[p] /\ Fail(p)
  /\ UNCHANGED <<rev, remote, disk, pc, mem, done, planned, orphans, processes>>

(* The call that makes an object takes effect, but its answer is lost. *)
AnswerLost(p, n) ==
  /\ Fault(p) /\ Ready(p, pc[p], n) /\ Known(p, n) = None
  /\ n \in Agents => InOrder(p, n)
  /\ Fail(p)
  /\ remote' = Created(IF n \in Agents THEN Payload(p, n) ELSE Plain(n, rev))
  /\ orphans' = orphans \cup {Len(remote) + 1}
  /\ UNCHANGED <<rev, disk, pc, mem, done, planned, processes>>

(* Any error of `retrieve` counts as "no longer resolves": another object  *)
(* is made in the place of the one that is still there.                    *)
RetrieveFails(p, n) ==
  LET c == IF n = Env THEN Plain(Env, 0) ELSE Payload(p, n) IN
  /\ Fault(p) /\ n \in Agents \cup {Env} /\ Ready(p, pc[p], n) /\ mem[p][n] # None
  /\ n \in Agents => InOrder(p, n)
  /\ Make(p, n, c)
  /\ orphans' = orphans \cup {mem[p][n].id}

(* The command is killed, or a scenario's run ends with an exception: what *)
(* it made is in no file.                                                  *)
Abandon(p) ==
  /\ \/ Fault(p)
     \/ p = "scenario" /\ failed[p] /\ UNCHANGED events
  /\ Ends(p)
  /\ orphans' = orphans \cup (Ids(mem[p]) \ (Ids(saved["prod"]) \cup Ids(saved[p]) \cup LocalIds))
  /\ UNCHANGED <<rev, remote, disk, processes>>

(* A kill while the file is written, which truncates it first: nobody can  *)
(* load what is left, and the file is removed by hand.                     *)
SaveCut(p) ==
  /\ Fault(p)
  /\ pc[p] = "save" \/ (p = "prod" /\ failed[p])
  /\ saved' = [saved EXCEPT ![p] = NoState]
  /\ whole' = [whole EXCEPT ![p] = FALSE]
  /\ orphans' = orphans \cup ((Ids(saved[p]) \cup Ids(mem[p])) \ (Ids(saved'["prod"]) \cup LocalIds))
  /\ Ends(p)
  /\ UNCHANGED <<rev, remote, locals, processes>>

-----------------------------------------------------------------------------
(* The working tree, and the processes that loaded the state.              *)

Edit ==
  /\ rev < MaxRev /\ rev' = rev + 1
  /\ UNCHANGED <<remote, disk, sync, orphans, processes, events>>

StartProcess(r) ==
  /\ proc[r].up = "down" /\ starts < MaxStarts
  /\ saved["prod"][Env] # None
  /\ r = "slack" => saved["prod"][Coordinator] # None
  /\ starts' = starts + 1
  /\ proc' = [proc EXCEPT ![r] = [up |-> "loaded", state |-> saved["prod"], image |-> rev]]
  /\ UNCHANGED <<rev, remote, disk, sync, orphans, record, events>>

(* Fault: the record is of the state as it is when it is written. *)
WriteRecordLate(r) ==
  /\ proc[r].up = "loaded"
  /\ proc' = [proc EXCEPT ![r].up = "running"]
  /\ record' = [record EXCEPT ![r] = [alive |-> TRUE, state |-> saved["prod"],
                                      image |-> proc[r].image]]
  /\ UNCHANGED <<rev, remote, disk, sync, orphans, starts, events>>

(* runtime.write, just before the process begins its loop. *)
WriteRecord(r) ==
  /\ proc[r].up = "loaded"
  /\ proc' = [proc EXCEPT ![r].up = "running"]
  /\ record' = [record EXCEPT ![r] = [alive |-> TRUE, state |-> proc[r].state,
                                      image |-> proc[r].image]]
  /\ UNCHANGED <<rev, remote, disk, sync, orphans, starts, events>>

StopProcess(r) ==
  /\ proc[r].up # "down"
  /\ proc' = [proc EXCEPT ![r] = Down]
  /\ record' = [record EXCEPT ![r] = NoRecord]   \* its pid is dead
  /\ UNCHANGED <<rev, remote, disk, sync, orphans, starts, events>>

(* State.fingerprint: what a running process depends on. *)
Fingerprint(S) == <<S[Env].id, [k \in Agents |-> S[k]], {s \in Skills : S[s] # None}>>

(* runtime.staleness, as `status` reports it. *)
Staleness(r) ==
  IF ~record[r].alive THEN "unknown"
  ELSE IF Fingerprint(record[r].state) # Fingerprint(saved["prod"]) THEN "stale"
  ELSE IF r = "poller" /\ record[r].image # rev THEN "older sandbox"
  ELSE "current"

Next ==
  \/ \E p \in Syncs :
       \/ Start(p) \/ EnsureEnvironment(p) \/ NextStage(p) \/ Save(p)
       \/ CallFails(p) \/ Abandon(p) \/ SaveCut(p)
       \/ \E s \in Skills : UploadSkill(p, s)
       \/ \E k \in Agents : EnsureAgent(p, k)
       \/ \E n \in Names : AnswerLost(p, n) \/ RetrieveFails(p, n)
  \/ \E r \in Roles : StartProcess(r) \/ WriteRecord(r) \/ StopProcess(r)
  \/ Edit

Spec == Init /\ [][Next]_vars

-----------------------------------------------------------------------------
(* Properties.                                                             *)

(* The finally of sync_cmd: every object made is known to a state file, or *)
(* to a sync that still runs, unless a kill, a lost answer, a file cut     *)
(* short, a scenario's exception or a failure to retrieve left it behind.  *)
NoneOrphaned ==
  1..Len(remote) \subseteq
    Ids(saved["prod"]) \cup Ids(saved["scenario"]) \cup LocalIds \cup orphans
      \cup UNION {Ids(mem[p]) : p \in {q \in Syncs : pc[q] # "idle"}}

(* The agents of a session as the orchestrator would create it: the        *)
(* coordinator at the version it loaded, and the specialists it pins.      *)
Version(e) == remote[e[1]][e[2]]
Declared(S) ==
  LET c == Version(<<S[Coordinator].id, S[Coordinator].version>>)
  IN  [k \in Agents |-> IF k = Coordinator THEN c.rev ELSE Version(c.uses[k]).rev]

(* If `status` finds both processes current, with the state of a sync that *)
(* went through, then the agents of a new session declare exactly the      *)
(* tools whose manifests the poller's containers are told to check, and    *)
(* use the skills it tells them to expect.                                 *)
SessionsFit ==
  (/\ whole["prod"] /\ Staleness("slack") = "current"
   /\ Staleness("poller") \in {"current", "older sandbox"}) =>
    LET S == proc["slack"].state T == proc["poller"].state IN
    /\ Declared(S) = [k \in Agents |-> T[k].rev]
    /\ \A s \in Skills : Version(<<S[Coordinator].id, S[Coordinator].version>>).uses[s]
                           = <<T[s].id, 0>>

(* scenario_state: while no sync runs, nothing a scenario does changes an  *)
(* object of production's.                                                 *)
ScenarioIsolated ==
  [][pc["prod"] = "idle" =>
       \A i \in Ids(saved["prod"]) : remote'[i] = remote[i]]_vars
=============================================================================
