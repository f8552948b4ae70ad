------------------------------ MODULE Bringup -------------------------------
(***************************************************************************)
(* `k8srca up` and `k8srca down` (bringup.py, cluster.py): the docker      *)
(* network, the ssh forward on its gateway, the kubeconfig for containers  *)
(* and the k8stools container, which reads that file when it starts and    *)
(* never again.  The mode is the one in which the API server is reached    *)
(* through the forward.                                                    *)
(*                                                                         *)
(* External: the cluster, docker, ssh, and whoever runs the commands,      *)
(* reboots, renews certificates, applies the egress rules or edits the     *)
(* image that the compose file pins.                                       *)
(***************************************************************************)
EXTENDS Naturals, FiniteSets, FiniteSetsExt

CONSTANTS Names,      \* names of a certificate, the preferred one first
          MaxNets,    \* bound: networks made
          MaxGen,     \* bound: clusters
          MaxImage,   \* bound: images pinned
          MaxEvents,  \* bound: what happens outside
          MaxFaults   \* bound: failing steps and kills of an `up`

ASSUME NamesAssumption == Names \subseteq Nat \ {0} /\ Names # {}
ASSUME BringupBounds ==
  MaxNets \in Nat /\ MaxGen \in Nat \ {0} /\ MaxImage \in Nat \ {0}
    /\ MaxEvents \in Nat /\ MaxFaults \in Nat

NoFile == [gen |-> 0, gw |-> 0, name |-> 0]
NoBox == [st |-> "none", image |-> 0, mount |-> "none", loaded |-> NoFile]

VARIABLES
  net, nets,  \* the network (0: none), numbered; its number stands for its gateway
  rules,      \* networks whose bridge the egress rules name
  defaultPort,  \* whether the forward listens on the default port, 6443 (ssh.port)
  up, gen, names,   \* the cluster: whether it answers, which it is, its certificate's names
  source,     \* the cluster the host's kubeconfig is for
  tunnels,    \* gateways on which a forward listens
  file,       \* the container kubeconfig
  box,        \* the k8stools container
  pinned,     \* the image of compose.yaml
  pc,         \* the `up` that runs
  gw, changed, ok,  \* its network, kubeconfig_changed, and whether all its steps are ok
  report,     \* what the last `up` said
  quiet,      \* history: nothing happened outside since it began
  lost,       \* history: an `up` rewrote the file and ended before the container was made anew
  events, faults

cluster == <<up, gen, names, source>>
network == <<net, nets, rules, defaultPort>>
command == <<pc, gw, changed, ok, report>>
vars == <<cluster, network, tunnels, file, box, pinned, command, quiet, lost, events, faults>>

File == [gen : 0..MaxGen, gw : 0..MaxNets, name : {0} \cup Names]

TypeOK ==
  /\ nets \in 0..MaxNets /\ net \in 0..nets /\ rules \subseteq 1..nets /\ tunnels \subseteq 1..nets
  /\ defaultPort \in BOOLEAN
  /\ up \in BOOLEAN /\ gen \in 1..MaxGen /\ names \in SUBSET Names \ {{}}
  /\ source \in 1..MaxGen /\ file \in File /\ pinned \in 1..MaxImage
  /\ box \in [st : {"none", "stopped", "running"}, image : 0..MaxImage,
              mount : {"none", "host", "container"}, loaded : File]
  /\ pc \in {"idle", "network", "tunnel", "kubeconfig", "k8stools", "egress"}
  /\ gw \in 0..nets /\ changed \in BOOLEAN /\ ok \in BOOLEAN
  /\ report \in {"none", "ok", "failed"} /\ quiet \in BOOLEAN /\ lost \in BOOLEAN
  /\ events \in 0..MaxEvents /\ faults \in 0..MaxFaults

Init ==
  /\ net = 0 /\ nets = 0 /\ rules = {} /\ defaultPort \in BOOLEAN
  /\ up = TRUE /\ gen = 1 /\ source = 1 /\ names \in SUBSET Names \ {{}}
  /\ tunnels = {} /\ file = NoFile /\ box = NoBox /\ pinned = 1
  /\ pc = "idle" /\ gw = 0 /\ changed = FALSE /\ ok = TRUE
  /\ report = "none" /\ quiet = TRUE /\ lost = FALSE
  /\ events = 0 /\ faults = 0

-----------------------------------------------------------------------------
(* bring_up.                                                               *)

Start ==
  /\ pc = "idle" /\ pc' = "network"
  /\ changed' = FALSE /\ ok' = TRUE /\ gw' = 0 /\ report' = "none" /\ quiet' = TRUE
  /\ UNCHANGED <<cluster, network, tunnels, file, box, pinned, lost, events, faults>>

EnsureNetwork ==
  /\ pc = "network" /\ pc' = "tunnel"
  /\ IF net # 0 THEN UNCHANGED <<net, nets>>
     ELSE nets < MaxNets /\ nets' = nets + 1 /\ net' = nets + 1
  /\ gw' = net'
  /\ UNCHANGED <<rules, defaultPort, cluster, tunnels, file, box, pinned, changed, ok, report, quiet, lost,
                 events, faults>>

EnsureTunnel ==
  /\ pc = "tunnel" /\ pc' = "kubeconfig"
  /\ tunnels' = tunnels \cup {gw}
  /\ UNCHANGED <<cluster, network, file, box, pinned, gw, changed, ok, report, quiet, lost,
                 events, faults>>

(* certificate_names, asked through the forward, and the choice of one. *)
Presented == IF up /\ gw \in tunnels THEN names ELSE {}
Pick(S) == Min(S)

Ends(verdict) ==
  /\ pc' = "idle" /\ report' = verdict
  /\ gw' = 0 /\ changed' = FALSE /\ ok' = TRUE

WriteKubeconfig(name) ==
  /\ file' = [gen |-> source, gw |-> gw, name |-> name]
  /\ changed' = (file' # file)
  /\ pc' = "k8stools" /\ UNCHANGED <<gw, report>>

(* Fault: no certificate, no name. *)
DeriveOrNone ==
  /\ pc = "kubeconfig"
  /\ IF Presented # {} THEN WriteKubeconfig(Pick(Presented)) /\ UNCHANGED ok
     ELSE WriteKubeconfig(0) /\ ok' = FALSE
  /\ UNCHANGED <<cluster, network, tunnels, box, pinned, quiet, lost, events, faults>>

(* A cluster that does not answer leaves the name as it was, if there is   *)
(* one, and the step is not ok; otherwise the `up` ends.                   *)
DeriveKubeconfig ==
  /\ pc = "kubeconfig"
  /\ CASE Presented # {} -> WriteKubeconfig(Pick(Presented)) /\ UNCHANGED ok
       [] Presented = {} /\ file.name # 0 -> WriteKubeconfig(file.name) /\ ok' = FALSE
       [] OTHER -> Ends("failed") /\ UNCHANGED file
  /\ UNCHANGED <<cluster, network, tunnels, box, pinned, quiet, lost, events, faults>>

(* A container that starts reads what is mounted: the host's kubeconfig    *)
(* names an address that is its own loopback.                              *)
Read(mount) ==
  IF mount = "host" THEN [gen |-> source, gw |-> 0, name |-> Min(Names)] ELSE file
Started(mount) ==
  [st |-> "running", image |-> pinned, mount |-> mount, loaded |-> Read(mount)]

(* Fault: the mount is checked, and nothing else. *)
RightMount == box.mount = "container" /\ ~changed

Correct == RightMount /\ box.image = pinned

EnsureK8stools ==
  /\ pc = "k8stools" /\ pc' = "egress"
  /\ IF box.st = "running" /\ Correct THEN UNCHANGED <<box, lost>>
     ELSE box' = Started("container") /\ lost' = FALSE
  /\ changed' = FALSE
  /\ UNCHANGED <<cluster, network, tunnels, file, pinned, gw, ok, report, quiet, events, faults>>

(* egress_status: from inside the network, port 6443 of the gateway is     *)
(* tried, whatever port the forward is told to listen on.  Nothing there   *)
(* to connect to reads like a rule in the way.                             *)
Reached == defaultPort /\ gw \in tunnels /\ gw \notin rules

ProbeEgress ==
  /\ pc = "egress" /\ Ends(IF ok /\ ~Reached THEN "ok" ELSE "failed")
  /\ UNCHANGED <<cluster, network, tunnels, file, box, pinned, quiet, lost, events, faults>>

(* A step fails: docker or ssh does not do its part, or the kubeconfig of  *)
(* the host cannot be read; or the command is killed, as it writes even.   *)
UpFails ==
  /\ pc # "idle" /\ faults < MaxFaults /\ faults' = faults + 1
  /\ Ends("failed") /\ lost' = (lost \/ changed)
  /\ \/ UNCHANGED <<file, box>>
     \/ pc = "kubeconfig" /\ file' = NoFile /\ UNCHANGED box
     \/ /\ pc = "k8stools" /\ ~(box.st = "running" /\ Correct)
        /\ box' = NoBox /\ UNCHANGED file
  /\ UNCHANGED <<cluster, network, tunnels, pinned, quiet, events>>

-----------------------------------------------------------------------------
(* Outside.                                                                *)

Event == events < MaxEvents /\ events' = events + 1 /\ quiet' = FALSE

(* tear_down: the container is stopped, the forward on this network's      *)
(* gateway, and the network removed if that is asked for; what fails of it *)
(* does not keep the rest.                                                 *)
TearDown ==
  /\ pc = "idle" /\ Event
  /\ box' \in {box, IF box.st = "running" THEN [box EXCEPT !.st = "stopped"] ELSE box}
  /\ tunnels' = tunnels \ {net}
  /\ \/ UNCHANGED net
     \/ box'.st # "running" /\ net' = 0
  /\ UNCHANGED <<nets, rules, defaultPort, cluster, file, pinned, command, lost, faults>>

(* restart: unless-stopped *)
Reboot ==
  /\ Event
  /\ tunnels' = {} /\ rules' = {}
  /\ IF pc = "idle" THEN UNCHANGED command ELSE Ends("failed")
  /\ IF box.st = "running"
     THEN box' = [box EXCEPT !.loaded = Read(box.mount)] /\ lost' = FALSE
     ELSE UNCHANGED box /\ lost' = (lost \/ changed)
  /\ UNCHANGED <<net, nets, defaultPort, cluster, file, pinned, faults>>

ForwardDies ==
  /\ Event /\ \E t \in tunnels : tunnels' = tunnels \ {t}
  /\ UNCHANGED <<cluster, network, file, box, pinned, command, lost, faults>>

(* The cluster stops or comes back; its certificate is renewed; another    *)
(* takes its place; the host's kubeconfig is fetched anew.                 *)
ClusterChanges ==
  /\ Event
  /\ \/ up' = ~up /\ UNCHANGED <<gen, names, source>>
     \/ names' \in SUBSET Names \ {{}} /\ UNCHANGED <<up, gen, source>>
     \/ gen < MaxGen /\ gen' = gen + 1 /\ up' = TRUE
          /\ names' \in SUBSET Names \ {{}} /\ UNCHANGED source
     \/ source' = gen /\ UNCHANGED <<up, gen, names>>
  /\ UNCHANGED <<network, tunnels, file, box, pinned, command, lost, faults>>

Bump ==
  /\ Event /\ pinned < MaxImage /\ pinned' = pinned + 1
  /\ UNCHANGED <<cluster, network, tunnels, file, box, command, lost, faults>>

ApplyRules ==
  /\ Event /\ net # 0 /\ rules' = {net}
  /\ UNCHANGED <<net, nets, defaultPort, cluster, tunnels, file, box, pinned, command, lost, faults>>

(* compose is run by hand, without the variables. *)
StartByHand ==
  /\ Event /\ pc = "idle" /\ net # 0 /\ box' = Started("host") /\ lost' = FALSE
  /\ UNCHANGED <<cluster, network, tunnels, file, pinned, command, faults>>

Next ==
  \/ Start \/ EnsureNetwork \/ EnsureTunnel \/ DeriveKubeconfig \/ EnsureK8stools \/ ProbeEgress
  \/ UpFails
  \/ TearDown \/ Reboot \/ ForwardDies \/ ClusterChanges \/ Bump \/ ApplyRules \/ StartByHand

Spec == Init /\ [][Next]_vars

-----------------------------------------------------------------------------
(* Properties.                                                             *)

(* A tool's call gets from the container to an API server that answers.    *)
Path ==
  /\ box.st = "running" /\ box.loaded.gw = net /\ net \in tunnels
  /\ box.loaded.gen = gen /\ box.loaded.name \in names

(* bring_up: when every step is ok, and nothing happened meanwhile, the    *)
(* pinned image runs and reaches the cluster, if the host's own kubeconfig *)
(* does -- unless an earlier `up` rewrote the file and ended before it     *)
(* made the container anew: no later one knows of that.  The sandbox is    *)
(* confined, if the forward is on the port that is probed: with another    *)
(* one configured, every `up` calls it confined, and nothing is known.     *)
UpMeansServing ==
  report = "ok" /\ quiet /\ source = gen /\ ~lost =>
    Path /\ up /\ box.image = pinned /\ (defaultPort => net \in rules)

(* "Keep the name we last derived": no step of an `up` that goes through   *)
(* cuts a path that is whole, not while the cluster is down either.        *)
NeverWorse ==
  [][pc # "idle" /\ quiet' /\ faults' = faults /\ source = gen /\ ~lost /\ Path => Path']_vars
=============================================================================
