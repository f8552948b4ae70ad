--------------------------- MODULE BringupProofs ----------------------------
(***************************************************************************)
(* Proofs about Bringup: its state is well-typed, an `up` whose steps are  *)
(* all ok leaves a service that reaches the cluster, and no `up` cuts a    *)
(* path that is whole, for any names, clusters, networks and images.       *)
(***************************************************************************)
EXTENDS Bringup, TLAPS, WellFoundedInduction

Running == box.st = "running"
Confined == box.mount = "container"

(* What an `up` aims at is the network there is, and its forward listens.  *)
Aimed ==
  /\ pc \in {"tunnel", "kubeconfig", "k8stools", "egress"} => gw = net /\ net # 0
  /\ quiet /\ pc \in {"kubeconfig", "k8stools", "egress"} => net \in tunnels

Flags ==
  /\ changed => pc = "k8stools"
  /\ ~ok => pc \in {"k8stools", "egress"}
  /\ report = "ok" => pc = "idle"

(* The file was written for that network, and if the cluster answered with *)
(* a name it goes by.                                                      *)
Written ==
  pc \in {"k8stools", "egress"} =>
    /\ file.gw = gw
    /\ quiet => file.gen = source
    /\ quiet /\ ok => up /\ file.name \in names

(* A container that runs read the file as it is, or is known not to have;  *)
(* or it read the host's, and reaches nothing.                             *)
Loads ==
  /\ Running /\ Confined /\ ~lost /\ ~changed => box.loaded = file \/ file = NoFile
  /\ Running /\ ~Confined => box.mount = "host" /\ box.loaded.gw = 0

(* While the cluster does not answer, the name is the one that was read.   *)
Kept ==
  pc = "k8stools" /\ quiet /\ ~ok /\ Running /\ Confined /\ ~lost => file.name = box.loaded.name

Ready == pc = "egress" /\ quiet => Running /\ Confined /\ box.image = pinned

BringupInv == TypeOK /\ Aimed /\ Flags /\ Written /\ Loads /\ Kept /\ Ready /\ UpMeansServing

-----------------------------------------------------------------------------
(* The parts of the type invariant. *)
TypeNet ==
  /\ nets \in 0..MaxNets /\ net \in 0..nets /\ rules \subseteq 1..nets /\ tunnels \subseteq 1..nets
  /\ gw \in 0..nets /\ events \in 0..MaxEvents /\ faults \in 0..MaxFaults
TypeFlags ==
  /\ up \in BOOLEAN /\ changed \in BOOLEAN /\ ok \in BOOLEAN /\ quiet \in BOOLEAN
  /\ lost \in BOOLEAN /\ defaultPort \in BOOLEAN
Boxes == [st : {"none", "stopped", "running"}, image : 0..MaxImage,
          mount : {"none", "host", "container"}, loaded : File]
TypeBox ==
  /\ gen \in 1..MaxGen /\ names \in SUBSET Names \ {{}}
  /\ source \in 1..MaxGen /\ file \in File /\ pinned \in 1..MaxImage /\ box \in Boxes
Places == {"idle", "network", "tunnel", "kubeconfig", "k8stools", "egress"}

LEMMA TypeParts ==
  /\ TypeOK <=> /\ TypeNet /\ TypeFlags /\ TypeBox
                /\ pc \in Places /\ report \in {"none", "ok", "failed"}
  /\ TypeOK' <=> /\ TypeNet' /\ TypeFlags' /\ TypeBox'
                 /\ pc' \in Places /\ report' \in {"none", "ok", "failed"}
  BY Zenon DEF TypeOK, TypeNet, TypeFlags, TypeBox, Boxes, Places

(* The least of some numbers is one of them.                               *)
LEMMA MinIsOne ==
  ASSUME NEW S, S \subseteq Nat, S # {}
  PROVE  Min(S) \in S
<1>1. PICK x \in S : \A y \in S : ~ (<<y, x>> \in OpToRel(<, Nat))
  BY NatLessThanWellFounded, WFMin
<1>2. \A y \in S : ~ (y < x)
  BY <1>1 DEF OpToRel
<1>3. \A y \in S : x =< y
  BY <1>2
<1>4. QED
  BY <1>3 DEF Min

LEMMA PickIsName ==
  ASSUME TypeOK, Presented # {}
  PROVE  Pick(Presented) \in names /\ up /\ Pick(Presented) \in Names
<1>1. Presented = names /\ up /\ names \subseteq Nat /\ names \subseteq Names
  BY NamesAssumption DEF Presented, TypeOK
<1>2. QED
  BY <1>1, MinIsOne DEF Pick

LEMMA StartedReads ==
  ASSUME TypeOK
  PROVE  /\ Started("container") = [st |-> "running", image |-> pinned, mount |-> "container",
                                    loaded |-> file]
         /\ Started("host").st = "running" /\ Started("host").mount = "host"
         /\ Started("host").loaded.gw = 0
         /\ \A m \in {"host", "container"} :
              Started(m) \in [st : {"none", "stopped", "running"}, image : 0..MaxImage,
                              mount : {"none", "host", "container"}, loaded : File]
         /\ Read("container") = file /\ Read("host").gw = 0
         /\ Read("host") \in File /\ Read("none") = file
<1>1. Min(Names) \in Names
  BY MinIsOne, NamesAssumption
<1>2. Read("host") \in File /\ Read("host").gw = 0
  BY <1>1, BringupBounds DEF Read, File, TypeOK
<1>3. Read("container") = file /\ Read("none") = file /\ file \in File
  BY DEF Read, TypeOK
<1>4. pinned \in 0..MaxImage
  BY BringupBounds DEF TypeOK
<1>5. QED
  BY <1>2, <1>3, <1>4 DEF Started

LEMMA InitSatisfiesBringupInv ==
  ASSUME Init PROVE BringupInv
<1>a. TypeNet
  BY BringupBounds DEF Init, TypeNet
<1>b. TypeFlags
  BY Zenon DEF Init, TypeFlags
<1>c. TypeBox
  BY BringupBounds DEF Init, TypeBox, Boxes, File, NoFile, NoBox
<1>d. pc \in Places /\ report \in {"none", "ok", "failed"}
  BY DEF Init, Places
<1>1. TypeOK
  BY <1>a, <1>b, <1>c, <1>d, TypeParts
<1>2. QED
  BY <1>1 DEF Init, BringupInv, Aimed, Flags, Written, Loads, Kept, Ready, UpMeansServing,
              Running, Confined, NoBox

LEMMA BringupStep ==
  ASSUME BringupInv, [Next]_vars
  PROVE  BringupInv'
<1> USE BringupBounds, NamesAssumption
<1>0. TypeOK /\ Aimed /\ Flags /\ Written /\ Loads /\ Kept /\ Ready /\ UpMeansServing
  BY DEF BringupInv
<1>r. TypeOK
  BY <1>0
<1>t. TypeNet /\ TypeFlags /\ TypeBox /\ pc \in Places /\ report \in {"none", "ok", "failed"}
  BY <1>r, TypeParts
<1>1. CASE Start
  <2>a. TypeNet'
    BY <1>0, <1>t, <1>1 DEF TypeNet, Aimed, Start, cluster, network, command
  <2>b. TypeFlags'
    BY <1>t, <1>1, Zenon DEF TypeFlags, Start, cluster, network, command
  <2>c. TypeBox'
    BY <1>r, <1>t, <1>1 DEF TypeNet, TypeBox, Boxes, File, Start, cluster, network, command
  <2>d. pc' \in Places /\ report' \in {"none", "ok", "failed"}
    BY <1>t, <1>1 DEF Places, Start, cluster, network, command
  <2>1. TypeOK'
    BY <2>a, <2>b, <2>c, <2>d, TypeParts
  <2>2. (Aimed /\ Flags)'
    BY <1>0, <1>1 DEF TypeOK, Aimed, Flags, Start, cluster, network, command
  <2>3. Written'
    BY <1>0, <1>1 DEF TypeOK, Aimed, Flags, Written, Start, cluster, network, command
  <2>4. (Loads /\ Kept /\ Ready)'
    BY <1>0, <1>1 DEF TypeOK, Aimed, Flags, Written, Loads, Kept, Ready, Running, Confined,
      NoFile, File, Start, cluster, network, command
  <2>5. UpMeansServing'
    BY <1>0, <1>1 DEF UpMeansServing, Path, Aimed, Flags, Written, Loads, Ready, Running,
      Confined, TypeOK, NoFile, Start, cluster, network, command
  <2>6. QED
    BY <2>1, <2>2, <2>3, <2>4, <2>5 DEF BringupInv
<1>2. CASE EnsureNetwork
  <2>a. TypeNet'
    BY <1>0, <1>t, <1>2 DEF TypeNet, Aimed, EnsureNetwork, cluster, network, command
  <2>b. TypeFlags'
    BY <1>t, <1>2, Zenon DEF TypeFlags, EnsureNetwork, cluster, network, command
  <2>c. TypeBox'
    BY <1>r, <1>t, <1>2 DEF TypeNet, TypeBox, Boxes, File, EnsureNetwork, cluster, network,
      command
  <2>d. pc' \in Places /\ report' \in {"none", "ok", "failed"}
    BY <1>t, <1>2 DEF Places, EnsureNetwork, cluster, network, command
  <2>1. TypeOK'
    BY <2>a, <2>b, <2>c, <2>d, TypeParts
  <2>2. (Aimed /\ Flags)'
    BY <1>0, <1>2 DEF TypeOK, Aimed, Flags, EnsureNetwork, cluster, network, command
  <2>3. Written'
    BY <1>0, <1>2 DEF TypeOK, Aimed, Flags, Written, EnsureNetwork, cluster, network, command
  <2>4. (Loads /\ Kept /\ Ready)'
    BY <1>0, <1>2 DEF TypeOK, Aimed, Flags, Written, Loads, Kept, Ready, Running, Confined,
      NoFile, File, EnsureNetwork, cluster, network, command
  <2>5. UpMeansServing'
    BY <1>0, <1>2 DEF UpMeansServing, Path, Aimed, Flags, Written, Loads, Ready, Running,
      Confined, TypeOK, NoFile, EnsureNetwork, cluster, network, command
  <2>6. QED
    BY <2>1, <2>2, <2>3, <2>4, <2>5 DEF BringupInv
<1>3. CASE EnsureTunnel
  <2>a. TypeNet'
    BY <1>0, <1>t, <1>3 DEF TypeNet, Aimed, EnsureTunnel, cluster, network, command
  <2>b. TypeFlags'
    BY <1>t, <1>3, Zenon DEF TypeFlags, EnsureTunnel, cluster, network, command
  <2>c. TypeBox'
    BY <1>r, <1>t, <1>3 DEF TypeNet, TypeBox, Boxes, File, EnsureTunnel, cluster, network,
      command
  <2>d. pc' \in Places /\ report' \in {"none", "ok", "failed"}
    BY <1>t, <1>3 DEF Places, EnsureTunnel, cluster, network, command
  <2>1. TypeOK'
    BY <2>a, <2>b, <2>c, <2>d, TypeParts
  <2>2. (Aimed /\ Flags)'
    BY <1>0, <1>3 DEF TypeOK, Aimed, Flags, EnsureTunnel, cluster, network, command
  <2>3. Written'
    BY <1>0, <1>3 DEF TypeOK, Aimed, Flags, Written, EnsureTunnel, cluster, network, command
  <2>4. (Loads /\ Kept /\ Ready)'
    BY <1>0, <1>3 DEF TypeOK, Aimed, Flags, Written, Loads, Kept, Ready, Running, Confined,
      NoFile, File, EnsureTunnel, cluster, network, command
  <2>5. UpMeansServing'
    BY <1>0, <1>3 DEF UpMeansServing, Path, Aimed, Flags, Written, Loads, Ready, Running,
      Confined, TypeOK, NoFile, EnsureTunnel, cluster, network, command
  <2>6. QED
    BY <2>1, <2>2, <2>3, <2>4, <2>5 DEF BringupInv
<1>4. CASE DeriveKubeconfig
  <2>a. TypeNet'
    BY <1>0, <1>t, <1>4 DEF TypeNet, Aimed, Presented, WriteKubeconfig, Ends,
      DeriveKubeconfig, cluster, network, command
  <2>b. TypeFlags'
    BY <1>t, <1>4, Zenon DEF TypeFlags, Presented, WriteKubeconfig, Ends, DeriveKubeconfig,
      cluster, network, command
  <2>c. TypeBox'
    BY <1>r, <1>t, <1>4, PickIsName DEF TypeNet, TypeBox, Boxes, File, Presented,
      WriteKubeconfig, Ends, DeriveKubeconfig, cluster, network, command
  <2>d. pc' \in Places /\ report' \in {"none", "ok", "failed"}
    BY <1>t, <1>4 DEF Places, Presented, WriteKubeconfig, Ends, DeriveKubeconfig, cluster,
      network, command
  <2>1. TypeOK'
    BY <2>a, <2>b, <2>c, <2>d, TypeParts
  <2>2. (Aimed /\ Flags)'
    BY <1>0, <1>4 DEF TypeOK, Aimed, Flags, Presented, WriteKubeconfig, Ends,
      DeriveKubeconfig, cluster, network, command
  <2>3. Written'
    BY <1>0, <1>4, PickIsName DEF TypeOK, Aimed, Flags, Written, Presented,
      WriteKubeconfig, Ends, DeriveKubeconfig, cluster, network, command
  <2>4. (Loads /\ Kept /\ Ready)'
    BY <1>0, <1>4, PickIsName DEF TypeOK, Aimed, Flags, Written, Loads, Kept, Ready,
      Running, Confined,
      NoFile, File, Presented, WriteKubeconfig, Ends, DeriveKubeconfig, cluster, network,
      command
  <2>5. UpMeansServing'
    BY <1>0, <1>4 DEF UpMeansServing, Path, Aimed, Flags, Written, Loads, Ready, Running,
      Confined, TypeOK, NoFile, Presented, WriteKubeconfig, Ends, DeriveKubeconfig,
      cluster, network, command
  <2>6. QED
    BY <2>1, <2>2, <2>3, <2>4, <2>5 DEF BringupInv
<1>5. CASE EnsureK8stools
  <2>a. TypeNet'
    BY <1>0, <1>t, <1>5 DEF TypeNet, Aimed, Correct, RightMount, EnsureK8stools, cluster,
      network, command
  <2>b. TypeFlags'
    BY <1>t, <1>5, Zenon DEF TypeFlags, Correct, RightMount, EnsureK8stools, cluster,
      network, command
  <2>c. TypeBox'
    BY <1>r, <1>t, <1>5, StartedReads DEF TypeNet, TypeBox, Boxes, File, Correct,
      RightMount, EnsureK8stools, cluster, network, command
  <2>d. pc' \in Places /\ report' \in {"none", "ok", "failed"}
    BY <1>t, <1>5 DEF Places, Correct, RightMount, EnsureK8stools, cluster, network, command
  <2>1. TypeOK'
    BY <2>a, <2>b, <2>c, <2>d, TypeParts
  <2>2. (Aimed /\ Flags)'
    BY <1>0, <1>5 DEF TypeOK, Aimed, Flags, Correct, RightMount, EnsureK8stools, cluster,
      network, command
  <2>3. Written'
    BY <1>0, <1>5, StartedReads DEF TypeOK, Aimed, Flags, Written, Correct, RightMount,
      EnsureK8stools, cluster, network, command
  <2>4. (Loads /\ Kept /\ Ready)'
    BY <1>0, <1>5, StartedReads DEF TypeOK, Aimed, Flags, Written, Loads, Kept, Ready,
      Running, Confined,
      NoFile, File, Correct, RightMount, EnsureK8stools, cluster, network, command
  <2>5. UpMeansServing'
    BY <1>0, <1>5 DEF UpMeansServing, Path, Aimed, Flags, Written, Loads, Ready, Running,
      Confined, TypeOK, NoFile, Correct, RightMount, EnsureK8stools, cluster, network, command
  <2>6. QED
    BY <2>1, <2>2, <2>3, <2>4, <2>5 DEF BringupInv
<1>6. CASE ProbeEgress
  <2>a. TypeNet'
    BY <1>0, <1>t, <1>6 DEF TypeNet, Aimed, Ends, ProbeEgress, Reached, cluster, network, command
  <2>b. TypeFlags'
    BY <1>t, <1>6, Zenon DEF TypeFlags, Ends, ProbeEgress, Reached, cluster, network, command
  <2>c. TypeBox'
    BY <1>r, <1>t, <1>6 DEF TypeNet, TypeBox, Boxes, File, Ends, ProbeEgress, Reached, cluster,
      network, command
  <2>d. pc' \in Places /\ report' \in {"none", "ok", "failed"}
    BY <1>t, <1>6 DEF Places, Ends, ProbeEgress, Reached, cluster, network, command
  <2>1. TypeOK'
    BY <2>a, <2>b, <2>c, <2>d, TypeParts
  <2>2. (Aimed /\ Flags)'
    BY <1>0, <1>6 DEF TypeOK, Aimed, Flags, Ends, ProbeEgress, Reached, cluster, network, command
  <2>3. Written'
    BY <1>0, <1>6 DEF TypeOK, Aimed, Flags, Written, Ends, ProbeEgress, Reached, cluster, network,
      command
  <2>4. (Loads /\ Kept /\ Ready)'
    BY <1>0, <1>6 DEF TypeOK, Aimed, Flags, Written, Loads, Kept, Ready, Running, Confined,
      NoFile, File, Ends, ProbeEgress, Reached, cluster, network, command
  <2>5. UpMeansServing'
    BY <1>0, <1>6 DEF UpMeansServing, Path, Aimed, Flags, Written, Loads, Ready, Running,
      Confined, TypeOK, NoFile, Ends, ProbeEgress, Reached, cluster, network, command
  <2>6. QED
    BY <2>1, <2>2, <2>3, <2>4, <2>5 DEF BringupInv
<1>7. CASE UpFails
  <2>a. TypeNet'
    BY <1>0, <1>t, <1>7 DEF TypeNet, Aimed, Correct, RightMount, Ends, NoBox, NoFile,
      UpFails, cluster, network, command
  <2>b. TypeFlags'
    BY <1>t, <1>7, Zenon DEF TypeFlags, Correct, RightMount, Ends, NoBox, NoFile, UpFails,
      cluster, network, command
  <2>c. TypeBox'
    BY <1>r, <1>t, <1>7 DEF TypeNet, TypeBox, Boxes, File, Correct, RightMount, Ends,
      NoBox, NoFile, UpFails, cluster, network, command
  <2>d. pc' \in Places /\ report' \in {"none", "ok", "failed"}
    BY <1>t, <1>7 DEF Places, Correct, RightMount, Ends, NoBox, NoFile, UpFails, cluster,
      network, command
  <2>1. TypeOK'
    BY <2>a, <2>b, <2>c, <2>d, TypeParts
  <2>2. (Aimed /\ Flags)'
    BY <1>0, <1>7 DEF TypeOK, Aimed, Flags, Correct, RightMount, Ends, NoBox, NoFile,
      UpFails, cluster, network, command
  <2>3. Written'
    BY <1>0, <1>7 DEF TypeOK, Aimed, Flags, Written, Correct, RightMount, Ends, NoBox,
      NoFile, UpFails, cluster, network, command
  <2>4. (Loads /\ Kept /\ Ready)'
    BY <1>0, <1>7 DEF TypeOK, Aimed, Flags, Written, Loads, Kept, Ready, Running, Confined,
      NoFile, File, Correct, RightMount, Ends, NoBox, NoFile, UpFails, cluster, network,
      command
  <2>5. UpMeansServing'
    BY <1>0, <1>7 DEF UpMeansServing, Path, Aimed, Flags, Written, Loads, Ready, Running,
      Confined, TypeOK, NoFile, Correct, RightMount, Ends, NoBox, NoFile, UpFails, cluster,
      network, command
  <2>6. QED
    BY <2>1, <2>2, <2>3, <2>4, <2>5 DEF BringupInv
<1>8. CASE TearDown
  <2>a. TypeNet'
    BY <1>0, <1>t, <1>8 DEF TypeNet, Aimed, Event, TearDown, cluster, network, command
  <2>b. TypeFlags'
    BY <1>t, <1>8, Zenon DEF TypeFlags, Event, TearDown, cluster, network, command
  <2>c. TypeBox'
    BY <1>r, <1>t, <1>8 DEF TypeNet, TypeBox, Boxes, File, Event, TearDown, cluster,
      network, command
  <2>d. pc' \in Places /\ report' \in {"none", "ok", "failed"}
    BY <1>t, <1>8 DEF Places, Event, TearDown, cluster, network, command
  <2>1. TypeOK'
    BY <2>a, <2>b, <2>c, <2>d, TypeParts
  <2>2. (Aimed /\ Flags)'
    BY <1>0, <1>8 DEF TypeOK, Aimed, Flags, Event, TearDown, cluster, network, command
  <2>3. Written'
    BY <1>0, <1>8 DEF TypeOK, Aimed, Flags, Written, Event, TearDown, cluster, network, command
  <2>4. (Loads /\ Kept /\ Ready)'
    BY <1>0, <1>8 DEF TypeOK, Aimed, Flags, Written, Loads, Kept, Ready, Running, Confined,
      NoFile, File, Event, TearDown, cluster, network, command
  <2>5. UpMeansServing'
    BY <1>0, <1>8 DEF UpMeansServing, Path, Aimed, Flags, Written, Loads, Ready, Running,
      Confined, TypeOK, NoFile, Event, TearDown, cluster, network, command
  <2>6. QED
    BY <2>1, <2>2, <2>3, <2>4, <2>5 DEF BringupInv
<1>9. CASE Reboot
  <2>a. TypeNet'
    BY <1>0, <1>t, <1>9 DEF TypeNet, Aimed, Event, Ends, Reboot, cluster, network, command
  <2>b. TypeFlags'
    BY <1>t, <1>9, Zenon DEF TypeFlags, Event, Ends, Reboot, cluster, network, command
  <2>c. TypeBox'
    BY <1>r, <1>t, <1>9, StartedReads DEF TypeNet, TypeBox, Boxes, File, Event, Ends,
      Reboot, cluster, network, command
  <2>d. pc' \in Places /\ report' \in {"none", "ok", "failed"}
    BY <1>t, <1>9 DEF Places, Event, Ends, Reboot, cluster, network, command
  <2>1. TypeOK'
    BY <2>a, <2>b, <2>c, <2>d, TypeParts
  <2>2. (Aimed /\ Flags)'
    BY <1>0, <1>9 DEF TypeOK, Aimed, Flags, Event, Ends, Reboot, cluster, network, command
  <2>3. Written'
    BY <1>0, <1>9, StartedReads DEF TypeOK, Aimed, Flags, Written, Event, Ends, Reboot,
      cluster, network, command
  <2>4. (Loads /\ Kept /\ Ready)'
    BY <1>0, <1>9, StartedReads DEF TypeOK, Aimed, Flags, Written, Loads, Kept, Ready,
      Running, Confined,
      NoFile, File, Event, Ends, Reboot, cluster, network, command
  <2>5. UpMeansServing'
    BY <1>0, <1>9 DEF UpMeansServing, Path, Aimed, Flags, Written, Loads, Ready, Running,
      Confined, TypeOK, NoFile, Event, Ends, Reboot, cluster, network, command
  <2>6. QED
    BY <2>1, <2>2, <2>3, <2>4, <2>5 DEF BringupInv
<1>10. CASE ForwardDies
  <2>a. TypeNet'
    BY <1>0, <1>t, <1>10 DEF TypeNet, Aimed, Event, ForwardDies, cluster, network, command
  <2>b. TypeFlags'
    BY <1>t, <1>10, Zenon DEF TypeFlags, Event, ForwardDies, cluster, network, command
  <2>c. TypeBox'
    BY <1>r, <1>t, <1>10 DEF TypeNet, TypeBox, Boxes, File, Event, ForwardDies, cluster,
      network, command
  <2>d. pc' \in Places /\ report' \in {"none", "ok", "failed"}
    BY <1>t, <1>10 DEF Places, Event, ForwardDies, cluster, network, command
  <2>1. TypeOK'
    BY <2>a, <2>b, <2>c, <2>d, TypeParts
  <2>2. (Aimed /\ Flags)'
    BY <1>0, <1>10 DEF TypeOK, Aimed, Flags, Event, ForwardDies, cluster, network, command
  <2>3. Written'
    BY <1>0, <1>10 DEF TypeOK, Aimed, Flags, Written, Event, ForwardDies, cluster, network,
      command
  <2>4. (Loads /\ Kept /\ Ready)'
    BY <1>0, <1>10 DEF TypeOK, Aimed, Flags, Written, Loads, Kept, Ready, Running, Confined,
      NoFile, File, Event, ForwardDies, cluster, network, command
  <2>5. UpMeansServing'
    BY <1>0, <1>10 DEF UpMeansServing, Path, Aimed, Flags, Written, Loads, Ready, Running,
      Confined, TypeOK, NoFile, Event, ForwardDies, cluster, network, command
  <2>6. QED
    BY <2>1, <2>2, <2>3, <2>4, <2>5 DEF BringupInv
<1>11. CASE ClusterChanges
  <2>a. TypeNet'
    BY <1>0, <1>t, <1>11 DEF TypeNet, Aimed, Event, ClusterChanges, cluster, network, command
  <2>b. TypeFlags'
    BY <1>t, <1>11, Zenon DEF TypeFlags, Event, ClusterChanges, cluster, network, command
  <2>e. UNCHANGED <<file, box, pinned>>
    BY <1>11 DEF ClusterChanges
  <2>f. gen' \in 1..MaxGen
    BY <1>t, <1>11 DEF TypeBox, ClusterChanges
  <2>g. source' \in 1..MaxGen
    BY <1>t, <1>11 DEF TypeBox, ClusterChanges
  <2>h. names' \in SUBSET Names \ {{}}
    BY <1>t, <1>11 DEF TypeBox, ClusterChanges
  <2>c. TypeBox'
    BY <1>t, <2>e, <2>f, <2>g, <2>h DEF TypeBox
  <2>d. pc' \in Places /\ report' \in {"none", "ok", "failed"}
    BY <1>t, <1>11 DEF Places, Event, ClusterChanges, cluster, network, command
  <2>1. TypeOK'
    BY <2>a, <2>b, <2>c, <2>d, TypeParts
  <2>2. (Aimed /\ Flags)'
    BY <1>0, <1>11 DEF TypeOK, Aimed, Flags, Event, ClusterChanges, cluster, network, command
  <2>3. Written'
    BY <1>0, <1>11 DEF TypeOK, Aimed, Flags, Written, Event, ClusterChanges, cluster,
      network, command
  <2>4. (Loads /\ Kept /\ Ready)'
    BY <1>0, <1>11 DEF TypeOK, Aimed, Flags, Written, Loads, Kept, Ready, Running, Confined,
      NoFile, File, Event, ClusterChanges, cluster, network, command
  <2>5. UpMeansServing'
    BY <1>0, <1>11 DEF UpMeansServing, Path, Aimed, Flags, Written, Loads, Ready, Running,
      Confined, TypeOK, NoFile, Event, ClusterChanges, cluster, network, command
  <2>6. QED
    BY <2>1, <2>2, <2>3, <2>4, <2>5 DEF BringupInv
<1>12. CASE Bump
  <2>a. TypeNet'
    BY <1>0, <1>t, <1>12 DEF TypeNet, Aimed, Event, Bump, cluster, network, command
  <2>b. TypeFlags'
    BY <1>t, <1>12, Zenon DEF TypeFlags, Event, Bump, cluster, network, command
  <2>c. TypeBox'
    BY <1>r, <1>t, <1>12 DEF TypeNet, TypeBox, Boxes, File, Event, Bump, cluster, network,
      command
  <2>d. pc' \in Places /\ report' \in {"none", "ok", "failed"}
    BY <1>t, <1>12 DEF Places, Event, Bump, cluster, network, command
  <2>1. TypeOK'
    BY <2>a, <2>b, <2>c, <2>d, TypeParts
  <2>2. (Aimed /\ Flags)'
    BY <1>0, <1>12 DEF TypeOK, Aimed, Flags, Event, Bump, cluster, network, command
  <2>3. Written'
    BY <1>0, <1>12 DEF TypeOK, Aimed, Flags, Written, Event, Bump, cluster, network, command
  <2>4. (Loads /\ Kept /\ Ready)'
    BY <1>0, <1>12 DEF TypeOK, Aimed, Flags, Written, Loads, Kept, Ready, Running, Confined,
      NoFile, File, Event, Bump, cluster, network, command
  <2>5. UpMeansServing'
    BY <1>0, <1>12 DEF UpMeansServing, Path, Aimed, Flags, Written, Loads, Ready, Running,
      Confined, TypeOK, NoFile, Event, Bump, cluster, network, command
  <2>6. QED
    BY <2>1, <2>2, <2>3, <2>4, <2>5 DEF BringupInv
<1>13. CASE ApplyRules
  <2>a. TypeNet'
    BY <1>0, <1>t, <1>13 DEF TypeNet, Aimed, Event, ApplyRules, cluster, network, command
  <2>b. TypeFlags'
    BY <1>t, <1>13, Zenon DEF TypeFlags, Event, ApplyRules, cluster, network, command
  <2>c. TypeBox'
    BY <1>r, <1>t, <1>13 DEF TypeNet, TypeBox, Boxes, File, Event, ApplyRules, cluster,
      network, command
  <2>d. pc' \in Places /\ report' \in {"none", "ok", "failed"}
    BY <1>t, <1>13 DEF Places, Event, ApplyRules, cluster, network, command
  <2>1. TypeOK'
    BY <2>a, <2>b, <2>c, <2>d, TypeParts
  <2>2. (Aimed /\ Flags)'
    BY <1>0, <1>13 DEF TypeOK, Aimed, Flags, Event, ApplyRules, cluster, network, command
  <2>3. Written'
    BY <1>0, <1>13 DEF TypeOK, Aimed, Flags, Written, Event, ApplyRules, cluster, network,
      command
  <2>4. (Loads /\ Kept /\ Ready)'
    BY <1>0, <1>13 DEF TypeOK, Aimed, Flags, Written, Loads, Kept, Ready, Running, Confined,
      NoFile, File, Event, ApplyRules, cluster, network, command
  <2>5. UpMeansServing'
    BY <1>0, <1>13 DEF UpMeansServing, Path, Aimed, Flags, Written, Loads, Ready, Running,
      Confined, TypeOK, NoFile, Event, ApplyRules, cluster, network, command
  <2>6. QED
    BY <2>1, <2>2, <2>3, <2>4, <2>5 DEF BringupInv
<1>14. CASE StartByHand
  <2>a. TypeNet'
    BY <1>0, <1>t, <1>14 DEF TypeNet, Aimed, Event, StartByHand, cluster, network, command
  <2>b. TypeFlags'
    BY <1>t, <1>14, Zenon DEF TypeFlags, Event, StartByHand, cluster, network, command
  <2>c. TypeBox'
    BY <1>r, <1>t, <1>14, StartedReads DEF TypeNet, TypeBox, Boxes, File, Event,
      StartByHand, cluster, network, command
  <2>d. pc' \in Places /\ report' \in {"none", "ok", "failed"}
    BY <1>t, <1>14 DEF Places, Event, StartByHand, cluster, network, command
  <2>1. TypeOK'
    BY <2>a, <2>b, <2>c, <2>d, TypeParts
  <2>2. (Aimed /\ Flags)'
    BY <1>0, <1>14 DEF TypeOK, Aimed, Flags, Event, StartByHand, cluster, network, command
  <2>3. Written'
    BY <1>0, <1>14, StartedReads DEF TypeOK, Aimed, Flags, Written, Event, StartByHand,
      cluster, network, command
  <2>4. (Loads /\ Kept /\ Ready)'
    BY <1>0, <1>14, StartedReads DEF TypeOK, Aimed, Flags, Written, Loads, Kept, Ready,
      Running, Confined,
      NoFile, File, Event, StartByHand, cluster, network, command
  <2>5. UpMeansServing'
    BY <1>0, <1>14 DEF UpMeansServing, Path, Aimed, Flags, Written, Loads, Ready, Running,
      Confined, TypeOK, NoFile, Event, StartByHand, cluster, network, command
  <2>6. QED
    BY <2>1, <2>2, <2>3, <2>4, <2>5 DEF BringupInv
<1>15. CASE UNCHANGED vars
  <2>1. TypeOK'
    BY <1>r, <1>15 DEF TypeOK, vars, cluster, network, command
  <2>2. (Aimed /\ Flags /\ Written /\ Loads /\ Kept /\ Ready /\ UpMeansServing)'
    BY <1>0, <1>15 DEF Aimed, Flags, Written, Loads, Kept, Ready, UpMeansServing, Path,
      Running,
      Confined, vars, cluster, network, command
  <2>3. QED
    BY <2>1, <2>2 DEF BringupInv
<1>16. QED
  BY <1>1, <1>2, <1>3, <1>4, <1>5, <1>6, <1>7, <1>8, <1>9, <1>10, <1>11, <1>12, <1>13,
      <1>14, <1>15 DEF Next

-----------------------------------------------------------------------------
(* A step of an `up` that goes through keeps a path that is whole: only    *)
(* the container's own step changes the container, and what it starts      *)
(* reads the file just written, with the name the running one goes by.     *)
LEMMA PathKept ==
  ASSUME BringupInv, [Next]_vars, pc # "idle", quiet', faults' = faults, source = gen,
      ~lost, Path
  PROVE  Path'
<1>1. TypeOK /\ Aimed /\ Flags /\ Written /\ Loads /\ Kept /\ Ready
  BY DEF BringupInv
<1>2. net # 0 /\ box.st = "running"
  BY <1>1 DEF Path, TypeOK
<1>3. CASE \/ TearDown \/ Reboot \/ ForwardDies \/ ClusterChanges \/ Bump \/ ApplyRules
           \/ StartByHand
  BY <1>3 DEF Event, TearDown, Reboot, ForwardDies, ClusterChanges, Bump, ApplyRules,
      StartByHand
<1>4. CASE UpFails
  BY <1>1, <1>4 DEF UpFails, TypeOK
<1>5. CASE Start \/ EnsureNetwork \/ EnsureTunnel
  BY <1>2, <1>5 DEF Start, EnsureNetwork, EnsureTunnel, Path, cluster, network
<1>6. CASE DeriveKubeconfig \/ ProbeEgress
  BY <1>6 DEF DeriveKubeconfig, ProbeEgress, Path, cluster, network
<1>7. CASE EnsureK8stools
  <2>1. UNCHANGED <<net, tunnels, gen, names>> /\ quiet
    BY <1>7 DEF EnsureK8stools, cluster, network
  <2>2. CASE UNCHANGED box
    BY <2>1, <2>2 DEF Path
  <2>3. CASE box' = Started("container")
    <3>1. box'.st = "running" /\ box'.loaded = file
      BY <1>1, <2>3, StartedReads
    <3>2. Confined
      BY <1>1, <1>2 DEF Loads, Path, Running, Confined
    <3>3. file.gw = net /\ file.gen = gen
      BY <1>1, <1>7, <2>1 DEF Aimed, Written, EnsureK8stools
    <3>4. file.name \in names
      BY <1>1, <1>2, <1>7, <2>1, <3>2 DEF Written, Kept, Path, Running, EnsureK8stools
    <3>5. QED
      BY <2>1, <3>1, <3>3, <3>4 DEF Path
  <2>4. QED
    BY <1>7, <2>2, <2>3 DEF EnsureK8stools
<1>8. CASE UNCHANGED vars
  BY <1>8 DEF Path, vars, cluster, network
<1>9. QED
  BY <1>3, <1>4, <1>5, <1>6, <1>7, <1>8 DEF Next

-----------------------------------------------------------------------------
(* The state the bring-up keeps, of the host and of its own, satisfies the *)
(* invariant at every step.                                                *)
THEOREM BringupInvHolds == Spec => []BringupInv
<1>1. Init => BringupInv
  BY InitSatisfiesBringupInv
<1>2. BringupInv /\ [Next]_vars => BringupInv'
  BY BringupStep
<1>3. QED
  BY <1>1, <1>2, PTL DEF Spec

(* bringup.py's state is well-typed: the network in use is one that was    *)
(* made, and forwards listen on gateways of such networks only.            *)
THEOREM TypeCorrect == Spec => []TypeOK
<1>1. BringupInv => TypeOK
  BY DEF BringupInv
<1>2. QED
  BY <1>1, BringupInvHolds, PTL

(* bring_up: an `up` whose every step is ok leaves the pinned image        *)
(* running and reaching the cluster, and the sandbox confined if the       *)
(* forward listens on the port that egress_status probes.                  *)
THEOREM UpServes == Spec => []UpMeansServing
<1>1. BringupInv => UpMeansServing
  BY DEF BringupInv
<1>2. QED
  BY <1>1, BringupInvHolds, PTL

(* derive_kubeconfig keeps the name it last derived, so that no step of an *)
(* `up` that goes through cuts a path that is whole.                       *)
THEOREM UpNeverCuts == Spec => NeverWorse
<1>1. BringupInv /\ [Next]_vars
  => [pc # "idle" /\ quiet' /\ faults' = faults /\ source = gen /\ ~lost /\ Path => Path']_vars
  BY PathKept
<1>2. QED
  BY <1>1, BringupInvHolds, PTL DEF Spec, NeverWorse
=============================================================================
