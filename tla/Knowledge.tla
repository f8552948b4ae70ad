----------------------------- MODULE Knowledge ------------------------------
(***************************************************************************)
(* The knowledge an investigation is made with (docs/rca, kb/knowledge.py):*)
(* the claims that may explain a pod that is not ready or that restarts,   *)
(* with what speaks for each and what rules it out.  An alternative is     *)
(* here when this project's tools and agent can state its facts; one that  *)
(* is left out stays unknown, and moves nothing.                           *)
(***************************************************************************)
EXTENDS Naturals, Sequences

None == "no_value"   \* a fact without a value
Some == "any_value"  \* a variable

(* Conditions: a fact holds of the workload, it holds with a value, or     *)
(* with some value other than those of `lits`; or it is seen not to.       *)
Of(f, v) == [f |-> f, v |-> v, neg |-> FALSE, ne |-> {}]
Is(f) == Of(f, None)
But(f, lits) == [f |-> f, v |-> Some, neg |-> FALSE, ne |-> lits]
Not(c) == [f |-> c.f, v |-> c.v, neg |-> TRUE, ne |-> c.ne]

Weak == 1
Moderate == 2
Strong == 3

(* `for` and `against` are alternatives with a weight, `rulesOut` plain    *)
(* alternatives; an alternative is a sequence of conditions.               *)
Explanation(for, rulesOut, subs) ==
  [for |-> for, against |-> <<>>, rulesOut |-> rulesOut, subs |-> subs]
On(weight, when) == <<weight, when>>

Unscheduled == Is("pod_unscheduled")
CitesAffinity == Is("scheduling_message_cites_affinity")
CitesTaint == Is("scheduling_message_cites_taint")
Short == Of("scheduling_message_cites_insufficient_resource", Some)
NoMatch == Is("no_node_matches_node_selector_or_affinity")
AllTainted == Is("untolerated_noschedule_taint_on_all_candidate_nodes")
Rejected == Is("scheduling_rejected_before_nodes_weighed")
Event == Is("failed_scheduling_event")
NotBound == Is("pvc_not_bound")
Waits == Is("pod_scheduled_but_container_waiting")

PodNotScheduled == Explanation(
   << On(Strong, <<Unscheduled>>), On(Weak, <<Short>>) >>,
   << <<Not(Unscheduled)>>, <<Waits>> >>,
   << "insufficient_cluster_resources", "node_selector_or_affinity_matches_no_node",
      "untolerated_node_taint", "unbound_persistent_volume_claim" >>)
InsufficientClusterResources == Explanation(
   << On(Strong, <<Unscheduled, Event, Short>>) >>,
   << <<Not(Unscheduled)>>, <<Rejected>>, <<Event, Not(Short)>> >>, <<>>)
NodeSelectorOrAffinityMatchesNoNode == Explanation(
   << On(Strong, <<Unscheduled, Is("node_selector_or_affinity_set"), NoMatch>>),
      On(Strong, <<Event, CitesAffinity>>) >>,
   << <<Not(Is("node_selector_or_affinity_set"))>>, <<Not(NoMatch)>>, <<Rejected>>,
      <<Event, Not(CitesAffinity), Not(NoMatch)>> >>, <<>>)
UntoleratedNodeTaint == Explanation(
   << On(Strong, <<AllTainted>>), On(Weak, <<CitesTaint>>) >>,
   << <<Not(AllTainted), Not(CitesTaint)>>, <<NoMatch>>, <<Rejected>> >>, <<>>)
UnboundPersistentVolumeClaim == Explanation(
   << On(Strong, <<Unscheduled, NotBound>>), On(Weak, <<Event>>) >>,
   << <<Not(NotBound)>>, <<NotBound, Not(Unscheduled)>> >>,
   << "requested_storage_class_does_not_exist", "no_class_requested_and_no_default_class",
      "storage_class_provisioner_not_running", "volume_provisioning_failed",
      "waiting_for_first_consumer" >>)

(* What a claim's newest event says. *)
ClassNotFound == Is("claim_event_storage_class_not_found")
NoVolumeNoClass == Is("claim_event_no_volume_and_no_class")
ProvisionerFails == Is("claim_event_provisioner_error")
WaitsForProvisioner == Is("claim_event_waiting_external_provisioner")
WaitsForConsumer == Is("claim_event_waiting_for_first_consumer")

Supported(event) == << On(Strong, <<NotBound, event>>) >>
RequestedStorageClassDoesNotExist == Explanation(
   Supported(ClassNotFound),
   << <<NoVolumeNoClass>>, <<ProvisionerFails>>,
      <<WaitsForProvisioner>>, <<WaitsForConsumer>> >>,
   <<>>)
NoClassRequestedAndNoDefaultClass == Explanation(
   Supported(NoVolumeNoClass),
   << <<Of("claim_storage_class_requested", Some)>> >>, <<>>)
StorageClassProvisionerNotRunning == Explanation(
   << On(Weak, <<NotBound, WaitsForProvisioner>>) >>,
   << <<ClassNotFound>>, <<ProvisionerFails>>,
      <<WaitsForConsumer>> >>, <<>>)
VolumeProvisioningFailed == Explanation(
   Supported(ProvisionerFails),
   << <<ClassNotFound>>, <<WaitsForConsumer>>,
      <<NoVolumeNoClass>> >>, <<>>)
WaitingForFirstConsumer == Explanation(
   Supported(WaitsForConsumer),
   << <<ClassNotFound>>, <<ProvisionerFails>>,
      <<WaitsForProvisioner>> >>, <<>>)

Waiting(reason) == Of("waiting_reason", reason)
ImageNotFound == Is("pull_message_names_image_not_found")
ConnectionFails == Is("pull_message_names_connection_failure")
Unauthorized == Is("pull_message_names_unauthorized")
Forbidden == Is("pull_message_names_forbidden")
CsiError == Is("mount_message_names_csi_error")
PermissionDenied == Is("mount_message_names_permission_denied")
MissingVolume == Is("mount_message_names_missing_volume")
MountFailed == Is("mount_failure_event")

ImagePullFailure == Explanation(
   << On(Strong, <<Waiting("ErrImagePull")>>), On(Strong, <<Waiting("ImagePullBackOff")>>),
      On(Strong, <<Is("image_pull_failure_event")>>), On(Weak, <<Waits>>) >>,
   << <<Not(Is("image_pull_failure_event")), Not(Waiting("ErrImagePull")),
        Not(Waiting("ImagePullBackOff"))>> >>,
   << "image_not_found_in_registry", "registry_network_or_auth_problem" >>)
ImageNotFoundInRegistry == Explanation(
   << On(Strong, <<ImageNotFound>>), On(Weak, <<Is("image_pull_failure_event")>>) >>,
   << <<ConnectionFails>> >>, <<>>)
RegistryNetworkOrAuthProblem == Explanation(
   << On(Strong, <<ConnectionFails>>), On(Strong, <<Unauthorized>>),
      On(Weak, <<Is("image_pull_failure_event")>>), On(Weak, <<Waits>>) >>,
   << <<Not(ConnectionFails), Not(Unauthorized), Not(Forbidden)>> >>,
   <<>>)
ReadinessCheckFailing == Explanation(
   << On(Weak, <<Is("pod_phase_running_not_ready")>>) >>, << <<Unscheduled>>, <<Waits>> >>,
   <<>>)
VolumeNotAttachedOrMounted == Explanation(
   << On(Strong, <<Waits, MountFailed>>), On(Strong, <<Waits, Is("failed_attach_volume_event")>>),
      On(Strong, <<Is("multi_attach_error_event")>>), On(Weak, <<Waiting("ContainerCreating")>>) >>,
   << <<Unscheduled>>, <<Waiting("ImagePullBackOff")>>, <<Waiting("ErrImagePull")>> >>,
   << "volume_already_attached_to_another_node", "csi_mount_failure",
      "volume_permission_denied" >>)
VolumeAlreadyAttachedToAnotherNode == Explanation(
   << On(Strong, <<Is("multi_attach_error_event")>>) >>,
   << <<Not(Is("volume_access_mode_is_readwriteonce")),
        Not(Is("volume_access_mode_is_readwriteoncepod"))>> >>, <<>>)
CsiMountFailure == Explanation(
   << On(Strong, <<MountFailed, CsiError>>) >>,
   << <<MissingVolume>>, <<PermissionDenied>> >>, <<>>)
VolumePermissionDenied == Explanation(
   << On(Strong, <<MountFailed, PermissionDenied>>) >>,
   << <<CsiError, Not(PermissionDenied)>> >>, <<>>)

Code(n) == Of("last_exit_code", n)
Fatal == Is("process_logged_fatal_error")
Full == Is("memory_limit_plausibly_reached")
EveryLife == Is("killed_in_every_retained_life")
Completes == Is("completes_startup_in_retained_lives")
Healthy == Is("healthy_period_before_kills")
Grows == Is("memory_grows_within_life")
Probe == Is("liveness_probe_configured")
Failures == Is("probe_failures_before_restarts")
Onset == Is("onset_observed")
Changed(kind) == Of("changed_before_onset", kind)

ApplicationCrash == Explanation(
   << On(Strong, <<Fatal, But("last_exit_code", {"137", "143"})>>) >>,
   << <<Code("137"), Not(Fatal)>> >>, <<>>)
BadConfig == Explanation(
   << On(Strong, <<Is("logs_name_invalid_setting"), Onset, Changed("config")>>),
      On(Strong, <<Is("logs_name_invalid_setting"), Onset, Changed("spec")>>),
      On(Moderate, <<Is("logs_name_invalid_setting")>>) >>,
   << <<Is("healthy_on_same_config")>> >>, <<>>)
OomKill == [Explanation(
   << On(Moderate, <<Code("137"), Not(Fatal)>>), On(Strong, <<Code("137"), Not(Fatal), Full>>) >>,
   << <<But("last_exit_code", {"137"})>>, <<Fatal>> >>,
   << "memory_limit_too_low", "memory_leak", "workload_spike" >>)
     EXCEPT !.against = << On(Weak, <<But("last_termination_reason", {"OOMKilled"})>>) >>]
FailedLivenessProbe == Explanation(
   << On(Strong, <<Probe, Failures, Code("143")>>), On(Moderate, <<Probe, Failures>>) >>,
   << <<Not(Probe)>> >>, <<>>)
MemoryLimitTooLow == [Explanation(
   << On(Strong, <<EveryLife, Not(Completes)>>), On(Strong, <<EveryLife, Not(Healthy)>>),
      On(Moderate, <<Of("limit_equals_request", "memory"), Not(Is("runtime_sizing_flags_set"))>>) >>,
   << <<Healthy, Onset, Not(Changed("resources")), Not(Changed("image"))>> >>, <<>>)
     EXCEPT !.against = << On(Moderate, <<Healthy>>) >>]
MemoryLeak == Explanation(
   << On(Strong, <<Is("lifetime_steady_or_shortening"), Completes, Grows>>),
      On(Weak, <<Is("lifetime_steady_or_shortening"), Completes>>) >>,
   << <<Not(Completes)>>, <<Not(Grows)>> >>, <<>>)
WorkloadSpike == Explanation(
   << On(Strong, <<Is("load_rise_coincides_with_kills"), Completes>>) >>,
   << <<Not(Completes)>>, <<Not(Grows)>> >>, <<>>)

Claims ==
  [ pod_not_scheduled |-> PodNotScheduled,
    insufficient_cluster_resources |-> InsufficientClusterResources,
    node_selector_or_affinity_matches_no_node |-> NodeSelectorOrAffinityMatchesNoNode,
    untolerated_node_taint |-> UntoleratedNodeTaint,
    unbound_persistent_volume_claim |-> UnboundPersistentVolumeClaim,
    requested_storage_class_does_not_exist |-> RequestedStorageClassDoesNotExist,
    no_class_requested_and_no_default_class |-> NoClassRequestedAndNoDefaultClass,
    storage_class_provisioner_not_running |-> StorageClassProvisionerNotRunning,
    volume_provisioning_failed |-> VolumeProvisioningFailed,
    waiting_for_first_consumer |-> WaitingForFirstConsumer,
    image_pull_failure |-> ImagePullFailure,
    image_not_found_in_registry |-> ImageNotFoundInRegistry,
    registry_network_or_auth_problem |-> RegistryNetworkOrAuthProblem,
    readiness_check_failing |-> ReadinessCheckFailing,
    volume_not_attached_or_mounted |-> VolumeNotAttachedOrMounted,
    volume_already_attached_to_another_node |-> VolumeAlreadyAttachedToAnotherNode,
    csi_mount_failure |-> CsiMountFailure,
    volume_permission_denied |-> VolumePermissionDenied,
    application_crash |-> ApplicationCrash,
    bad_config |-> BadConfig,
    oom_kill |-> OomKill,
    failed_liveness_probe |-> FailedLivenessProbe,
    memory_limit_too_low |-> MemoryLimitTooLow,
    memory_leak |-> MemoryLeak,
    workload_spike |-> WorkloadSpike ]

(* A symptom's candidates, and the alerts and symptoms that lead to it.    *)
Symptoms ==
  [ pod_not_ready |-> << "pod_not_scheduled", "image_pull_failure", "readiness_check_failing",
                         "volume_not_attached_or_mounted" >>,
    pod_pending |-> PodNotScheduled.subs,
    pod_restarting |-> << "application_crash", "bad_config", "oom_kill",
                          "failed_liveness_probe" >>,
    container_oom_killed |-> OomKill.subs ]

(* One value per subject. *)
Functional == { "last_exit_code", "last_termination_reason", "waiting_reason",
                "claim_storage_class_requested" }

(* The facts that are stated with a value.                                 *)
Valued == Functional \cup
  {"scheduling_message_cites_insufficient_resource", "limit_equals_request", "changed_before_onset"}

(* The facts stated from the evidence record only: ONSET_FACT, CHANGE_FACT. *)
Reserved == { "onset_observed", "changed_before_onset" }

-----------------------------------------------------------------------------
(* What the build refuses: `check`.                                        *)

Elements(s) == {s[i] : i \in DOMAIN s}
Subs(c) == Elements(Claims[c].subs)
Alternatives(c) ==
  {a[2] : a \in Elements(Claims[c].for) \cup Elements(Claims[c].against)}
  \cup Elements(Claims[c].rulesOut)

(* Of the build's own checks, no cycles (_refinement_cycles), and none     *)
(* without the onset that asks what changed (_timing_problems).  Of this   *)
(* part of the knowledge besides: sub-causes are two levels deep at most,  *)
(* and no alternative has two conditions on a variable.                    *)
WellFormed ==
  /\ \A s \in DOMAIN Symptoms : Elements(Symptoms[s]) \subseteq DOMAIN Claims
  /\ \A c \in DOMAIN Claims :
       /\ Claims[c].for # <<>> /\ Claims[c].rulesOut # <<>>
       /\ Subs(c) \subseteq DOMAIN Claims
       /\ \A d \in Subs(c) : \A e \in Subs(d) : Subs(e) = {}
       /\ \A a \in Alternatives(c) :
            /\ (\E x \in Elements(a) : x.f = "changed_before_onset") => Onset \in Elements(a)
            /\ \A i, j \in DOMAIN a : a[i].v = Some /\ a[j].v = Some => i = j

ASSUME KnowledgeChecked == WellFormed
=============================================================================
