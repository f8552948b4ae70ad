--------------------------- MODULE Investigation ----------------------------
(***************************************************************************)
(* An investigation of one incident: the agent calls tools, whose results  *)
(* the facts layer reads (Derivations); it records facts of its own; and   *)
(* it runs `open`, which says how the facts so far stand on the claims     *)
(* (Standings).  The cluster stays as it is meanwhile.                     *)
(***************************************************************************)
EXTENDS Derivations, Standings

CONSTANTS Tellable,       \* the facts the agent may record: such that have no value
          MaxToolCalls,   \* bound: tool calls
          MaxTells        \* bound: recorded facts

ASSUME InvestigationAssumption ==
  /\ MaxToolCalls \in Nat /\ MaxTells \in Nat
  /\ IsFiniteSet(Nodes) /\ Nodes # {}
  /\ Tellable \cap Valued = {}

VARIABLES
  cluster,   \* the incident
  derived,   \* the derived lines of facts.jsonl, in their order
  told,      \* those the agent recorded
  toolCalls, \* how many tools were called
  rows,      \* what the last `open` said: each claim's standing
  asked      \* history: the lines that `open` read, derived and told

investigationVars == <<cluster, derived, told, toolCalls, rows, asked>>

-----------------------------------------------------------------------------
(* The incidents.                                                          *)

NodeStates == [match : BOOLEAN, taint : BOOLEAN, short : {{}, {"cpu"}, {"cpu", "memory"}}]
Free == [match |-> TRUE, taint |-> FALSE, short |-> {}]
NoClaim == [why |-> "none", kinds |-> {}]
Idle == [cause |-> "none"]

Quiet == [placed |-> TRUE, nodes |-> [n \in Nodes |-> Free], selects |-> FALSE,
          claim |-> NoClaim, pull |-> {None}, mount |-> None, older |-> FALSE, run |-> Idle]

(* Why a claim is not bound, and what its newest event says then: a        *)
(* provisioner's error alternates with the controller's wait for it.       *)
ClaimStates ==
  { [why |-> "class_missing", kinds |-> {"claim_event_storage_class_not_found"}],
    [why |-> "no_class", kinds |-> {"claim_event_no_volume_and_no_class"}],
    [why |-> "provisioning", kinds |-> {"claim_event_provisioner_error"}],
    [why |-> "provisioning", kinds |-> {"claim_event_provisioner_error", "claim_event_waiting_external_provisioner"}],
    [why |-> "provisioner_down", kinds |-> {"claim_event_waiting_external_provisioner"}],
    [why |-> "provisioner_down", kinds |-> {}],
    [why |-> "first_consumer", kinds |-> {"claim_event_waiting_for_first_consumer"}],
    [why |-> "bound", kinds |-> {}], NoClaim }

Pending ==
  { w \in [placed : {FALSE}, nodes : [Nodes -> NodeStates], selects : BOOLEAN,
           claim : ClaimStates, pull : {{None}}, mount : {None}, older : BOOLEAN, run : {Idle}] :
      /\ w.selects \/ \A n \in Nodes : w.nodes[n].match
      /\ \A n \in Nodes : IF Immediate(w) THEN w.nodes[n].short = {}
                           ELSE Refusal(w.nodes[n]) # {}
      /\ w.older => w.selects /\ w.claim.why = "none" }

Refusals == { {"pull_message_names_manifest_not_found", "pull_message_names_image_not_found"}, {"pull_message_names_image_not_found"}, {"pull_message_names_unauthorized"},
              {"pull_message_names_image_not_found", "pull_message_names_unauthorized"}, {"pull_message_names_forbidden"}, {"pull_message_names_connection_failure"}, {} }

Unstarted == {[Quiet EXCEPT !.pull = p] : p \in Refusals}
             \cup {[Quiet EXCEPT !.mount = m] : m \in MountKinds \cup {"attach", "multi_attach"}}

Memory == {"low", "leak", "spike"}

Runs ==
  { r \in [cause : Memory \cup {"crash", "config", "liveness"}, code : {"137", "143", "1"},
           reason : {"OOMKilled", "Error"}, equal : BOOLEAN, probe : BOOLEAN, sized : BOOLEAN,
           peak : BOOLEAN, flat : BOOLEAN, change : {"none", "spec"},
           since : {"inside", "at_start", "before_events", "before_metrics"}] :
      /\ r.cause \in Memory <=> (r.code = "137" /\ r.cause # "liveness")
      /\ r.cause = "liveness" => r.probe /\ r.code # "1"
      /\ r.cause \in {"crash", "config"} => r.code = "1"
      /\ r.reason = "OOMKilled" => r.cause \in Memory
      /\ r.flat => r.cause = "low"
      /\ r.equal = ~r.sized /\ r.peak = (r.cause \in Memory) /\ (r.sized => r.cause = "low")
      /\ r.change # "none" => r.since \in {"inside", "at_start"} }

Clusters == Pending \cup Unstarted \cup {[Quiet EXCEPT !.run = r] : r \in Runs}

(* The facts that hold of an incident, by what the knowledge says each     *)
(* means: the values it holds for.                                         *)
Meaning(w) ==
  LET has(b) == IF b THEN {None} ELSE {}
      for(b, v) == IF b THEN {v} ELSE {}
      cites(r) == ~w.placed /\ \E n \in Nodes : r \in Message(w).why[n]
      run(b) == Restarts(w) /\ b
  IN [ pod_unscheduled |-> has(~w.placed),
       failed_scheduling_event |-> has(~w.placed),
       pvc_not_bound |-> has(Unbound(w)),
       scheduling_rejected_before_nodes_weighed |-> has(Immediate(w)),
       scheduling_message_cites_affinity |-> has(cites("affinity")),
       scheduling_message_cites_taint |-> has(cites("taint")),
       scheduling_message_cites_insufficient_resource |-> {x \in {"cpu", "memory"} : cites(x)},
       untolerated_noschedule_taint_on_all_candidate_nodes |-> has(\A n \in Nodes : w.nodes[n].taint),
       node_selector_or_affinity_set |-> has(w.selects),
       no_node_matches_node_selector_or_affinity |-> has(\A n \in Nodes : ~w.nodes[n].match),
       claim_event_storage_class_not_found |-> has("claim_event_storage_class_not_found" \in w.claim.kinds),
       claim_event_no_volume_and_no_class |-> has("claim_event_no_volume_and_no_class" \in w.claim.kinds),
       claim_event_provisioner_error |-> has("claim_event_provisioner_error" \in w.claim.kinds),
       claim_event_waiting_external_provisioner |-> has("claim_event_waiting_external_provisioner" \in w.claim.kinds),
       claim_event_waiting_for_first_consumer |-> has("claim_event_waiting_for_first_consumer" \in w.claim.kinds),
       claim_storage_class_requested |-> for(Unbound(w) /\ w.claim.why # "no_class", "sc"),
       image_pull_failure_event |-> has(w.pull # {None}),
       pull_message_names_manifest_not_found |-> has("pull_message_names_manifest_not_found" \in w.pull),
       pull_message_names_image_not_found |-> has("pull_message_names_image_not_found" \in w.pull),
       pull_message_names_unauthorized |-> has("pull_message_names_unauthorized" \in w.pull),
       pull_message_names_forbidden |-> has("pull_message_names_forbidden" \in w.pull),
       pull_message_names_connection_failure |-> has("pull_message_names_connection_failure" \in w.pull),
       waiting_reason |-> Reasons(w) \ {None},
       pod_scheduled_but_container_waiting |-> has(w.pull # {None} \/ w.mount # None),
       failed_attach_volume_event |-> has(w.mount \in {"attach", "multi_attach"}),
       multi_attach_error_event |-> has(w.mount = "multi_attach"),
       volume_access_mode_is_readwriteonce |-> has(w.mount = "multi_attach"),
       mount_failure_event |-> has(w.mount \in MountKinds),
       mount_message_names_csi_error |-> has(w.mount = "mount_message_names_csi_error"),
       mount_message_names_permission_denied |-> has(w.mount = "mount_message_names_permission_denied"),
       mount_message_names_missing_volume |-> has(w.mount = "mount_message_names_missing_volume"),
       last_exit_code |-> IF Restarts(w) THEN {w.run.code} ELSE {},
       last_termination_reason |-> IF Restarts(w) THEN {w.run.reason} ELSE {},
       limit_equals_request |-> for(run(w.run.equal), "memory"),
       liveness_probe_configured |-> has(run(w.run.probe)),
       runtime_sizing_flags_set |-> has(run(w.run.sized)),
       memory_limit_plausibly_reached |-> has(run(w.run.peak)),
       memory_grows_within_life |-> has(run(~w.run.flat)),
       killed_in_every_retained_life |-> has(run(Killed(w.run))),
       process_logged_fatal_error |-> has(run(w.run.cause = "crash")),
       completes_startup_in_retained_lives |-> has(run(w.run.cause \in {"leak", "spike"})) ]

(* A fact that no incident shows, as a lull before the kills, never holds. *)
Holds(means, f, v) == f \in DOMAIN means /\ v \in means[f]

(* The claims that explain an incident. *)
Causes(w) ==
  LET match == {n \in Nodes : w.nodes[n].match}
      node == IF match = {} THEN "node_selector_or_affinity_matches_no_node"
              ELSE IF \A n \in match : w.nodes[n].taint THEN "untolerated_node_taint"
              ELSE "insufficient_cluster_resources"
      claim == CASE w.claim.why = "class_missing" -> "requested_storage_class_does_not_exist"
                 [] w.claim.why = "no_class" -> "no_class_requested_and_no_default_class"
                 [] w.claim.why = "provisioning" -> "volume_provisioning_failed"
                 [] OTHER -> "storage_class_provisioner_not_running"
      mount == CASE w.mount = "mount_message_names_csi_error" -> {"csi_mount_failure"}
                 [] w.mount = "mount_message_names_permission_denied" -> {"volume_permission_denied"}
                 [] w.mount = "multi_attach" -> {"volume_already_attached_to_another_node"}
                 [] OTHER -> {}
      run == CASE w.run.cause = "low" -> {"oom_kill", "memory_limit_too_low"}
               [] w.run.cause = "leak" -> {"oom_kill", "memory_leak"}
               [] w.run.cause = "spike" -> {"oom_kill", "workload_spike"}
               [] w.run.cause = "crash" -> {"application_crash"}
               [] w.run.cause = "config" -> {"bad_config"}
               [] OTHER -> {"failed_liveness_probe"}
  IN CASE Restarts(w) -> run
       [] ~w.placed -> {"pod_not_scheduled"}
            \cup (IF Immediate(w) THEN {"unbound_persistent_volume_claim", claim} ELSE {node})
       [] w.pull # {None} -> {"image_pull_failure"}
            \cup (IF "pull_message_names_image_not_found" \in w.pull THEN {"image_not_found_in_registry"}
                  ELSE IF w.pull # {} THEN {"registry_network_or_auth_problem"} ELSE {})
       [] OTHER -> {"volume_not_attached_or_mounted"} \cup mount

-----------------------------------------------------------------------------
InvestigationInit ==
  /\ cluster \in Clusters
  /\ derived = <<>> /\ told = <<>> /\ toolCalls = 0 /\ rows = <<>> /\ asked = <<<<>>, <<>>>>

(* What a tool may give: derive.  A result is of interest here if it has a *)
(* line that none before it had.                                           *)
Results(w) ==
  LET newest == Newest(w.claim)
      reason == Reasons(w)
  IN {NamespaceHealth(w, n) : n \in newest}
     \cup {Events(w, b) : b \in BOOLEAN}
     \cup {WorkloadReport(w, n, x) : n \in newest, x \in reason}
     \cup (UNION {{PodSpec(w, b, c) : c \in Sizings} : b \in {FALSE, w.older}})
     \cup {PvcSummaries(w, n) : n \in newest}
     \cup {MemoryReport(w), RestartReport(w)}

CallTool ==
  /\ toolCalls < MaxToolCalls /\ toolCalls' = toolCalls + 1
  /\ \E lines \in Results(cluster) :
       ~(Elements(lines) \subseteq Elements(derived)) /\ derived' = derived \o lines
  /\ UNCHANGED <<cluster, told, rows, asked>>

(* cmd_fact: a fact the agent read somewhere, rightly or not.              *)
Tell ==
  /\ Len(told) < MaxTells
  /\ \E f \in Tellable \ Reserved, t \in BOOLEAN : told' = Append(told, Line(f, None, t))
  /\ UNCHANGED <<cluster, derived, toolCalls, rows, asked>>

(* The symptoms the incident shows. *)
Shown(w) ==
  IF Restarts(w) THEN {"pod_restarting", "container_oom_killed"}
  ELSE IF w.placed THEN {"pod_not_ready"} ELSE {"pod_not_ready", "pod_pending"}

(* cmd_open, once there is something to rank; again with the same lines it *)
(* says the same.                                                          *)
Open ==
  /\ asked # <<derived, told>>
  /\ \E s \in {Widened[x] : x \in Shown(cluster)} :
       rows' = Opened(Store(derived, told), s)
  /\ asked' = <<derived, told>>
  /\ UNCHANGED <<cluster, derived, told, toolCalls>>

InvestigationNext == CallTool \/ Tell \/ Open

InvestigationSpec == InvestigationInit /\ [][InvestigationNext]_investigationVars

-----------------------------------------------------------------------------
(* Properties.                                                             *)

Dropped(r) == {c \in DOMAIN r : r[c].status \in {"ruled_out", "conflicting"}}

(* What is wrong among some lines. *)
Wrong(w, lines) ==
  LET means == Meaning(w) IN {l \in Elements(lines) : l.t # Holds(means, l.f, l.v)}

(* derive.py: what a derivation states is so, however little of the        *)
(* cluster its result showed.  Two statements are left out, for they are   *)
(* not always so: of the onset, and of the taints when the selector keeps  *)
(* some node out.                                                          *)
Contested(w, l) ==
  \/ l.f \in Reserved
  \/ /\ l.f = "untolerated_noschedule_taint_on_all_candidate_nodes"
     /\ \E n \in Nodes : ~w.nodes[n].match

FactsTrue == \A l \in Wrong(cluster, derived) : Contested(cluster, l)

(* kb_query.py: a fact that is not recorded is unknown, so whatever was    *)
(* looked at so far, and whichever symptom was opened, what explains the   *)
(* incident is among the rows and not ruled out, if what the agent         *)
(* recorded is right.  A message that cites one of the two resources is    *)
(* left out: it rules the shortage out.                                    *)
CitesOne(w) ==
  LET cited == UNION {Message(w).why[n] : n \in Nodes}
  IN ~w.placed /\ Cardinality({"cpu", "memory"} \cap cited) = 1

TrueCauseKept ==
  (rows # <<>> /\ ~CitesOne(cluster) /\ Wrong(cluster, asked[2]) = {})
  => \A c \in Causes(cluster) : c \in DOMAIN rows /\ rows[c].status # "ruled_out"

(* status: what the facts ruled out, more facts do not bring back, as long *)
(* as the agent records nothing against what is stated already.            *)
Against(d, t) == \E i \in DOMAIN t : \E l \in Elements(d) \cup Elements(t) :
                   l.f = t[i].f /\ l.v = t[i].v /\ l.t # t[i].t

RuledOutStays ==
  [][ (asked' # asked /\ ~Against(asked'[1], asked'[2])) =>
        Dropped(rows) \cap DOMAIN rows' \subseteq Dropped(rows') ]_investigationVars

(* status's docstring: "A strong `for` and a rules_out together are a      *)
(* conflict: a fact is wrong."                                             *)
ConflictMeansAFactIsWrong ==
  (\E c \in DOMAIN rows : rows[c].status = "conflicting")
  => Wrong(cluster, asked[1] \o asked[2]) # {}
=============================================================================
