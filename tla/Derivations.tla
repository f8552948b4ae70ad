---------------------------- MODULE Derivations -----------------------------
(***************************************************************************)
(* What a tool's result states about a workload (facts/derive.py), in the  *)
(* lines the knowledge reads.  Two kinds of incident are here, as the      *)
(* cluster is while it lasts: a pod that does not start, and a container   *)
(* that restarts.                                                          *)
(*                                                                         *)
(* A cluster is a record:                                                  *)
(*   placed    the failing pod has a node                                  *)
(*   nodes     of each node: it matches the pod's selector, it has a taint *)
(*             the pod does not tolerate, what it has too little of        *)
(*   selects   the pod has a selector or a required affinity               *)
(*   claim     [why, kinds]: the volume claim it mounts, why it is not     *)
(*             bound ("none": no claim, "bound"), and the kinds its newest *)
(*             event alternates among                                      *)
(*   pull      what the registry's refusals name, or {None}                *)
(*   mount     what keeps its volume from it: "attach", "multi_attach",    *)
(*             what the failure names, or None                             *)
(*   older     a pod of before the last change is still there, placed, and *)
(*             has no selector and no claim                                *)
(*   run       of a restarting container: why it restarts ("none": it does *)
(*             not), how it ended, what its spec sets, and since when: well *)
(*             "inside" the event record, "at_start" of it (within a tenth *)
(*             of its length), "before_events" or "before_metrics"         *)
(*                                                                         *)
(* External: the messages of the scheduler, the volume controller, the     *)
(* kubelet and the registry, and k8stools' and promtools' readings.        *)
(***************************************************************************)
EXTENDS Knowledge, FiniteSets, SequencesExt

CONSTANT Nodes

Line(f, v, t) == [f |-> f, v |-> v, t |-> t]
Yes(f) == <<Line(f, None, TRUE)>>
No(f) == <<Line(f, None, FALSE)>>
YesOf(f, v) == <<Line(f, v, TRUE)>>
When(b, lines) == IF b THEN lines ELSE <<>>
Either(f, b) == <<Line(f, None, b)>>
EachOf(facts, t) == SetToSeq({Line(f, None, t) : f \in facts})

-----------------------------------------------------------------------------
(* Why a pod has no node.                                                  *)

Unbound(w) == w.claim.why \notin {"none", "bound"}
Immediate(w) == Unbound(w) /\ w.claim.why # "first_consumer"

(* The first plugin that refuses the node: its taint, the pod's selector,  *)
(* what the pod requests.                                                  *)
Refusal(n) == IF n.taint THEN {"taint"} ELSE IF ~n.match THEN {"affinity"} ELSE n.short

(* The scheduler's message: it names the claim and no node, or a reason    *)
(* for each node.                                                          *)
Message(w) == [unbound |-> Immediate(w),
               why |-> [n \in Nodes |-> IF Immediate(w) THEN {} ELSE Refusal(w.nodes[n])]]

(* Fault: a message's list is the whole of it, whatever it counts.         *)
SchedulingKbUncounted(m) ==
  LET cited(r) == {n \in Nodes : r \in m.why[n]}
  IN When(m.unbound, Yes("pvc_not_bound"))
     \o Either("scheduling_rejected_before_nodes_weighed", m.unbound)
     \o Either("scheduling_message_cites_affinity", cited("affinity") # {})
     \o Either("scheduling_message_cites_taint", cited("taint") # {})
     \o Either("untolerated_noschedule_taint_on_all_candidate_nodes", cited("taint") = Nodes)

(* scheduling_kb: what the message cites; and what it does not, when its   *)
(* reasons account for every node.                                         *)
SchedulingKb(m) ==
  LET cited(r) == {n \in Nodes : r \in m.why[n]}
      count == Cardinality(cited("taint")) + Cardinality(cited("affinity"))
               + Cardinality(cited("cpu")) + Cardinality(cited("memory"))
      complete == count >= Cardinality(Nodes)
      told(f, v, r) == When(cited(r) # {} \/ complete, <<Line(f, v, cited(r) # {})>>)
  IN When(m.unbound, Yes("pvc_not_bound"))
     \o When(count = 0, Yes("scheduling_rejected_before_nodes_weighed"))
     \o When(complete, No("scheduling_rejected_before_nodes_weighed"))
     \o told("scheduling_message_cites_affinity", None, "affinity")
     \o told("scheduling_message_cites_taint", None, "taint")
     \o When(complete, Either("untolerated_noschedule_taint_on_all_candidate_nodes",
                              cited("taint") = Nodes))
     \o told("scheduling_message_cites_insufficient_resource", "cpu", "cpu")
     \o told("scheduling_message_cites_insufficient_resource", "memory", "memory")

(* Kinds that settle the rest: no provisioner runs. *)
Settling == {"claim_event_storage_class_not_found", "claim_event_no_volume_and_no_class"}

ClaimKinds == Settling \cup
  { "claim_event_provisioner_error", "claim_event_waiting_external_provisioner",
    "claim_event_waiting_for_first_consumer" }

(* claim_kb: the newest event's kind; the others are false when it settles *)
(* them, or when all of the claim's recent events name it.  Of the class   *)
(* no more than its name, and of an event's message no more than its kind. *)
ClaimKb(claim, newest, recent, complete) ==
  When(claim.why # "no_class", YesOf("claim_storage_class_requested", "sc"))
  \o When(newest # None,
       Yes(newest)
       \o When(newest \in Settling \/ (complete /\ recent = {newest}),
               EachOf(ClaimKinds \ {newest}, FALSE)))

Newest(claim) == IF claim.kinds = {} THEN {None} ELSE claim.kinds

(* _claim_lines: the claim with its newest event only. *)
ClaimLine(w, newest) ==
  When(Unbound(w), Yes("pvc_not_bound") \o ClaimKb(w.claim, newest, {newest}, FALSE))

(* placement_kb: k8stools counts the nodes that match, and of those the    *)
(* tainted ones if there are any.                                          *)
Placement(w) ==
  LET match == {n \in Nodes : w.nodes[n].match}
      tainted == {n \in match : w.nodes[n].taint}
  IN Either("node_selector_or_affinity_set", w.selects)
     \o Either("no_node_matches_node_selector_or_affinity", match = {})
     \o When(tainted # {}, Either("untolerated_noschedule_taint_on_all_candidate_nodes",
                                  tainted = match))

(* _rollout: the pods with no node, the claims they mount, the placement.  *)
Rollout(w, newest) ==
  When(~w.placed, Yes("pod_unscheduled") \o SchedulingKb(Message(w))
                  \o ClaimLine(w, newest) \o Placement(w))

Scheduled(w) ==
  When(~w.placed, Yes("failed_scheduling_event") \o SchedulingKb(Message(w)))

-----------------------------------------------------------------------------
(* Why a placed pod's container has not started.                           *)

NotFound == {"pull_message_names_manifest_not_found", "pull_message_names_image_not_found"}
PullKinds == NotFound \cup
  { "pull_message_names_unauthorized", "pull_message_names_forbidden",
    "pull_message_names_connection_failure" }

(* pull_kb: a refusal that names one kind of failure is not another; one   *)
(* that backs off names none.                                              *)
PullKb(refused, named) ==
  LET alike == IF named \cap NotFound # {} THEN NotFound ELSE {}
  IN Yes("image_pull_failure_event")
     \o When(refused,
          EachOf(named, TRUE)
          \o When(named # {} /\ (named \subseteq NotFound \/ Cardinality(named) = 1),
                  EachOf(PullKinds \ (named \cup alike), FALSE)))

MountKinds == { "mount_message_names_csi_error", "mount_message_names_permission_denied",
                "mount_message_names_missing_volume" }

(* volume_kb. *)
VolumeKb(mount) ==
  IF mount \in {"attach", "multi_attach"}
  THEN Yes("failed_attach_volume_event") \o When(mount = "multi_attach", Yes("multi_attach_error_event"))
  ELSE Yes("mount_failure_event")
       \o When(mount \in MountKinds,
               Yes(mount) \o EachOf(MountKinds \ {mount}, FALSE))

(* _never_started. *)
NeverStarted(w, reason) ==
  When(reason # None, YesOf("waiting_reason", reason) \o Yes("pod_scheduled_but_container_waiting"))

Reasons(w) == IF w.pull # {None} THEN {"ErrImagePull", "ImagePullBackOff"}
              ELSE IF w.mount # None THEN {"ContainerCreating"} ELSE {None}

Messages(w, refused) ==
  When(w.pull # {None}, PullKb(refused, w.pull)) \o When(w.mount # None, VolumeKb(w.mount))

-----------------------------------------------------------------------------
(* Why a container restarts.                                               *)

Restarts(w) == w.run.cause # "none"

(* _container_spec. *)
ContainerSpec(r) ==
  <<Line("limit_equals_request", "memory", r.equal)>> \o Either("liveness_probe_configured", r.probe)

Killed(r) == r.code = "137" \/ r.reason = "OOMKilled"

(* _instance: a kill, with back-off from where the event record starts.    *)
Instance(r) ==
  YesOf("last_exit_code", r.code) \o YesOf("last_termination_reason", r.reason)
  \o When(Killed(r) /\ r.since # "inside",
          Yes("killed_in_every_retained_life") \o No("onset_observed"))

(* change_onset_kb: the failing pods were created with the change, inside  *)
(* the event record.                                                       *)
ChangeOnset(r) ==
  When(r.change # "none" /\ r.since \in {"inside", "at_start"},
       Yes("onset_observed")
       \o <<Line("changed_before_onset", "image", r.change = "image"),
            Line("changed_before_onset", "resources", r.change = "resources"),
            Line("changed_before_onset", "spec", r.change = "spec")>>)

(* _usage and memory_report: a sample near the limit; lives that start     *)
(* near it, nearly all of them.                                            *)
Usage(r) == When(r.peak, Yes("memory_limit_plausibly_reached"))
MemoryReport(w) ==
  When(Restarts(w), Usage(w.run) \o When(w.run.flat, No("memory_grows_within_life")))

(* restart_report: out-of-memory kills without a quiet hour; a series that *)
(* was restarting already where the metrics begin.                         *)
RestartReport(w) ==
  When(Restarts(w),
    When(w.run.reason = "OOMKilled" /\ w.run.since \in {"before_events", "before_metrics"},
         Yes("killed_in_every_retained_life"))
    \o When(w.run.since = "before_metrics", No("onset_observed") \o No("healthy_period_before_kills")))

-----------------------------------------------------------------------------
(* The tools.                                                              *)

(* namespace_health. *)
NamespaceHealth(w, newest) == Rollout(w, newest)

(* events, pod_events. *)
Events(w, refused) == Scheduled(w) \o Messages(w, refused)

(* workload_report. *)
WorkloadReport(w, newest, reason) ==
  When(Restarts(w), ContainerSpec(w.run) \o Instance(w.run) \o Usage(w.run))
  \o Rollout(w, newest) \o Scheduled(w) \o Messages(w, TRUE) \o NeverStarted(w, reason)
  \o When(Restarts(w), ChangeOnset(w.run))

(* Fault: any pod of the workload speaks for the one without a node. *)
PodSpecOfAny(w, older, sizing) ==
  When(Restarts(w) /\ ~w.run.sized, No("runtime_sizing_flags_set"))
  \o Either("node_selector_or_affinity_set", w.selects /\ ~older)
  \o When(w.claim.why = "none" \/ older, No("pvc_not_bound"))

(* pod_spec: the sizing that env and args state, and nothing where it may  *)
(* come from a reference; the selector and the claims of a pod with no     *)
(* node.                                                                   *)
Sizings == {"stated", "indirect"}
PodSpec(w, older, sizing) ==
  When(Restarts(w) /\ sizing = "stated", Either("runtime_sizing_flags_set", w.run.sized))
  \o When(~w.placed /\ ~older,
       Either("node_selector_or_affinity_set", w.selects)
       \o When(w.claim.why = "none", No("pvc_not_bound")))

(* pvc_summaries: the claims that are not bound, with their recent events. *)
PvcSummaries(w, newest) ==
  When(Unbound(w), Yes("pvc_not_bound") \o ClaimKb(w.claim, newest, w.claim.kinds, TRUE))
=============================================================================
