------------------------- MODULE ScenarioDataProofs -------------------------
(***************************************************************************)
(* Proofs about World and Scores, for any number of recordings, commands   *)
(* and runs, and any number of attempts, versions and edits.               *)
(***************************************************************************)
EXTENDS World, Scores, Grading, TLAPS, FiniteSetTheorems

(* The parts of the type invariant. *)
Moment == 1..Moments
Kinds == {"capture", "skill", "metrics"}
Names == Capture \cup Moment \cup {Torn}

PinSet == [digest : Capture \cup {None, Torn}, at : Moment \cup {None},
           wiki : Capture \cup {None}, block : Moment \cup {None}]
SealSet == [truth : PinSet, list : Nat]
DiskSet == [cap : Capture \cup {None, Torn}, wiki : Capture \cup {None, Torn},
            block : Moment \cup {None}, manifest : Moment \cup {None},
            ref : Moment \cup {None}, results : Capture \cup {None}, cache : SUBSET Moment]
FileSet == [kind : Kinds, name : Names, holds : Names \cup {None, Cut}, staged : BOOLEAN,
            kept : BOOLEAN]
Recording == {"stream", "metrics", "block", "cache", "snapshot"}
Publishing == {"write", "pin", "skill", "blocks", "commit", "staged"}
HandSet == [kind : Kinds, name : Names, next : {"pin", "blocks", "commit"}]
CmdSet == [pc : Recording \cup Publishing \cup {"idle", "published", "copy", "fill", "report", "results"},
           at : Capture \cup Moment \cup {None},
           file : {None} \cup HandSet,
           added : SUBSET (Kinds \X Names)]
Parts == {"cap", "wiki", "block", "manifest", "ref", "results", "cache", "list"}
RunSet == [pc : {"idle", "loaded", "checked", "graded"} \cup Reading,
           truth : PinSet, seal : SealSet \cup {None}, cap : Capture \cup {None},
           block : Moment \cup {None}, manifest : Moment \cup {None},
           wiki : Capture \cup {None, Torn}, stamp : Capture \cup {None, Torn},
           against : Capture \cup {None}, list : Nat,
           late : SUBSET Parts]

WorldTypes ==
  /\ own \in BOOLEAN /\ home \in BOOLEAN /\ live \in 0..Moments /\ list \in Nat
  /\ used \in [commands : Nat, runs : Nat]
  /\ disk \in DiskSet /\ pins \in PinSet /\ repo \subseteq FileSet /\ seals \in Seq(SealSet)
  /\ cmd \in CmdSet /\ run \in RunSet

(* What the author's command holds at each of its steps. *)
Authoring ==
  /\ cmd.pc \in Recording \cup Publishing \cup {"copy", "fill"} => home
  /\ cmd.pc \in {"stream", "fill"} => disk.cap = Torn
  /\ cmd.pc \in Recording => cmd.at = live /\ live \in Moment
  /\ cmd.pc = "metrics" => disk.cap \in Capture /\ disk.cap.at = live
  /\ cmd.pc = "block" => disk.manifest = cmd.at
  /\ cmd.pc = "fill" => cmd.at \in 1..live
  /\ cmd.pc = "copy" => cmd.at \in Capture
  /\ cmd.pc = "report" => cmd.at \in Moment
  /\ cmd.pc = "results" => cmd.at \in Capture
  /\ cmd.pc = "write" => cmd.file \in HandSet

(* The moment of the newest capture that was begun. *)
Latest ==
  IF cmd.pc = "fill" THEN cmd.at ELSE IF disk.cap \in Capture THEN disk.cap.at ELSE live

(* At home recordings only get newer, the block follows the manifest, and the manifest the capture. *)
AtHome ==
  home =>
    /\ disk.cap = None => repo = {}
    /\ cmd.pc \in Publishing => disk.cap # None
    /\ Latest =< live
    /\ disk.manifest # None => disk.manifest =< Latest
    /\ \A b \in {disk.block, pins.block, run.truth.block} :
         b # None => disk.manifest # None /\ b =< disk.manifest

(* Elsewhere there is the published capture or none, and the pins do not move. *)
Away ==
  ~home =>
    /\ disk.cap \in {None, pins.digest}
    /\ run.pc # "idle" => run.truth = pins
    /\ run.pc \in Reading \cup {"graded"} => run.cap = pins.digest

(* Where a run has a capture, and where its data was checked twice.        *)
Past == Reading \cup {"graded"}
Synced == Trusting \cup {"graded"}

(* What the first check admitted: it was not written after the newest capture. *)
Admitted ==
  run.pc \in Past \cup {"checked"} =>
    /\ disk.cap # None
    /\ run.truth.wiki # None /\ run.truth.at # None
    /\ run.truth.block # None => run.truth.block = run.truth.at
    /\ run.pc # "graded" => run.truth.at =< Latest

(* The capture a run replays is at the truth's moment or after it, and not after  *)
(* the newest: the second check, which finds the newest at the truth's moment,    *)
(* leaves only one.                                                               *)
Replayed ==
  /\ run.pc \in Past => run.cap # None /\ run.cap.at >= run.truth.at
  /\ run.pc \in {"replaying", "measured"} =>
       /\ run.cap.at =< Latest
       /\ "cap" \notin run.late => disk.cap = run.cap \/ run.cap.at < Latest
  /\ run.pc \in Reading /\ cmd.pc = "fill" => "cap" \in run.late
  /\ run.pc \in Synced => run.cap.at = run.truth.at
  /\ run.pc \in Trusting /\ "cap" \notin run.late => disk.cap = run.cap
  /\ run.pc = "graded" /\ "cap" \notin run.late => run.against = run.cap

(* Recording only goes forward, so a manifest read between the block's moment and *)
(* the newest capture's is the block's when the two moments are one.              *)
Measured ==
  /\ run.pc \in {"loaded", "checked", "replaying"} => run.block = None
  /\ run.pc \in Synced \cup {"measured"} => run.block = run.truth.block
  /\ run.pc = "measured" /\ home /\ run.block # None =>
       run.manifest # None /\ run.block =< run.manifest /\ run.manifest =< Latest
  /\ run.pc \in Synced /\ home /\ run.block # None => run.manifest = run.block

Skilled ==
  "wiki" \notin run.late =>
    /\ run.pc \in Trusting => disk.wiki = run.truth.wiki
    /\ run.pc \in {"uploaded", "stamped", "graded"} => run.wiki = run.truth.wiki
    /\ run.pc \in {"stamped", "graded"} => run.stamp = run.wiki

Admissible ==
  /\ run.pc = "idle" => run.seal = None
  /\ run.seal # None =>
       /\ run.truth = run.seal.truth
       /\ "list" \notin run.late =>
            IF run.pc = "graded" THEN run.list = run.seal.list ELSE list = run.seal.list

(* A file not yet sound is the one in hand or one no command will commit, and a   *)
(* copy in hand is of what was compared, unless a run has replaced the block.     *)
Sound(f) == f.holds = f.name \/ (f.kind = "metrics" /\ f.name \in swapped)
InHand(f) == cmd.pc = "write" /\ f.kind = cmd.file.kind /\ f.name = cmd.file.name
Written ==
  /\ \A f \in repo : /\ f.kept \/ f.staged => Sound(f)
                     /\ <<f.kind, f.name>> \in cmd.added => Sound(f) \/ InHand(f)
  /\ cmd.pc = "write" =>
       \/ cmd.file.name = disk[Part[cmd.file.kind]]
       \/ cmd.file.kind = "metrics" /\ cmd.file.name \in swapped

WorldInv ==
  /\ WorldTypes /\ Authoring /\ AtHome /\ Away /\ Admitted
  /\ Replayed /\ Measured /\ Skilled /\ Admissible /\ Written
-----------------------------------------------------------------------------
(* What is not there, torn or cut is told from captures and moments.       *)
LEMMA Marks ==
  /\ None # Torn /\ None # Cut /\ Torn # Cut
  /\ {None, Torn, Cut} \cap (Nat \cup Capture) = {}
  /\ Moments \in Nat
  BY WorldAssumption

(* What a command that writes a part of the disk leaves of a run: all of   *)
(* it, and what it wrote is remembered where no check will notice it.      *)
Beside(part) ==
  /\ run' \in RunSet
  /\ run'.pc = run.pc /\ run'.truth = run.truth /\ run'.seal = run.seal /\ run'.cap = run.cap
  /\ run'.block = run.block /\ run'.manifest = run.manifest /\ run'.wiki = run.wiki
  /\ run'.stamp = run.stamp /\ run'.against = run.against /\ run'.list = run.list
  /\ run.late \subseteq run'.late /\ run'.late \subseteq run.late \cup {part}
  /\ run.pc \in Trusting => part \in run'.late

(* What is fetched has the name it was fetched by, and nothing that is     *)
(* here is replaced by it; without a checkout at home there is nothing.    *)
LEMMA EnsuredIsChecked ==
  ASSUME NEW kind, NEW here, NEW pin, NEW got \in Ensured(kind, here, pin)
  PROVE  got = here \/ (here = None /\ pin # None /\ got = pin /\ repo # {})
<1>1. CASE here # None \/ pin = None
  BY <1>1 DEF Ensured
<1>2. CASE here = None /\ pin # None
  <2>1. got \in Got(kind, pin)
    BY <1>2 DEF Ensured
  <2>2. got = pin /\ repo # {}
    BY <2>1 DEF Got, Checked, File
  <2>3. QED
    BY <1>2, <2>2
<1>3. QED
  BY <1>1, <1>2

LEMMA DataIsChecked ==
  ASSUME disk \in DiskSet, NEW p \in PinSet, NEW d \in WithData(p)
  PROVE  /\ d \in DiskSet
         /\ d.block = disk.block /\ d.manifest = disk.manifest
         /\ d.ref = disk.ref /\ d.results = disk.results /\ d.cache = disk.cache
         /\ d.cap = disk.cap \/ (disk.cap = None /\ p.digest # None /\ d.cap = p.digest /\ repo # {})
         /\ disk.wiki # None => d.wiki = disk.wiki
<1>1. PICK got \in [cap : Ensured("capture", disk.cap, p.digest), wiki : Ensured("skill", disk.wiki, p.wiki)] :
        d = [disk EXCEPT !.cap = got.cap, !.wiki = got.wiki]
  BY Zenon DEF WithData
<1>2. /\ got.cap = disk.cap \/ (disk.cap = None /\ p.digest # None /\ got.cap = p.digest /\ repo # {})
      /\ got.wiki = disk.wiki \/ (disk.wiki = None /\ got.wiki = p.wiki)
  BY EnsuredIsChecked
<1>3. got.cap \in Capture \cup {None, Torn} /\ got.wiki \in Capture \cup {None, Torn}
  BY <1>2 DEF DiskSet, PinSet
<1>4. QED
  BY <1>1, <1>2, <1>3 DEF DiskSet

LEMMA MetricsAreChecked ==
  ASSUME disk \in DiskSet, NEW pin \in Moment, NEW d \in WithMetrics(pin)
  PROVE  /\ d \in DiskSet
         /\ d.cap = disk.cap /\ d.wiki = disk.wiki /\ d.manifest = disk.manifest
         /\ d.ref = disk.ref /\ d.results = disk.results
         /\ d.block = disk.block \/ d.block = pin
         /\ pin \notin disk.cache => d.block = pin
<1>1. CASE pin \in disk.cache
  BY <1>1 DEF WithMetrics
<1>2. CASE pin \notin disk.cache
  <2>1. PICK b \in (IF disk.block = pin THEN {pin} ELSE Got("metrics", pin)) :
          d = [disk EXCEPT !.block = b, !.cache = @ \cup {pin}]
    BY <1>2 DEF WithMetrics
  <2>2. b = pin
    BY <2>1 DEF Got, Checked
  <2>3. QED
    BY <1>2, <2>1, <2>2 DEF DiskSet
<1>3. QED
  BY <1>1, <1>2

LEMMA NoRunFields ==
  /\ NoRun \in RunSet /\ NoRun.pc = "idle" /\ NoRun.truth = NoPins /\ NoPins \in PinSet
  /\ NoPins.block = None /\ NoRun.seal = None
  BY DEF NoRun, NoPins, RunSet, PinSet

(* A fetch leaves what a publish is about to copy.                         *)
LEMMA FetchKeepsWritten ==
  ASSUME WorldInv, NEW p \in PinSet, disk' \in WithData(p), UNCHANGED <<home, repo, cmd, swapped>>
  PROVE  Written'
<1>1. /\ disk'.block = disk.block
      /\ disk.cap # None => disk'.cap = disk.cap
      /\ disk.wiki # None => disk'.wiki = disk.wiki
  BY DataIsChecked DEF WorldInv, WorldTypes
<1>2. CASE cmd.pc = "write"
  <2>1. disk.cap # None /\ cmd.file.kind \in Kinds /\ cmd.file.name # None
    BY <1>2, Marks DEF WorldInv, AtHome, Authoring, Publishing, HandSet, Names, Moment
  <2>2. disk[Part[cmd.file.kind]] # None => disk'[Part[cmd.file.kind]] = disk[Part[cmd.file.kind]]
    BY <1>1, <2>1 DEF Part, Kinds
  <2>3. QED
    BY <1>2, <2>1, <2>2 DEF WorldInv, Written, Sound, InHand
<1>3. CASE cmd.pc # "write"
  BY <1>3 DEF WorldInv, Written, Sound, InHand
<1>4. QED
  BY <1>2, <1>3

(* A step after which the newest capture is the one it was.                *)
LEMMA AtHomeKept ==
  ASSUME WorldInv, home' = home,
         home => /\ disk'.cap = disk.cap /\ live' = live /\ Latest' = Latest
                 /\ disk'.manifest = disk.manifest
                 /\ repo' = repo \/ disk.cap # None
                 /\ cmd'.pc \in Publishing => cmd.pc \in Publishing \/ disk.cap # None
                 /\ \A b \in {disk'.block, pins'.block, run'.truth.block} :
                      b \in {disk.block, pins.block, run.truth.block, None}
  PROVE  AtHome'
<1>1. SUFFICES ASSUME home PROVE AtHome'
  BY DEF AtHome
<1>2. \A b \in {disk.block, pins.block, run.truth.block, None} :
        b # None => disk.manifest # None /\ b =< disk.manifest
  BY <1>1 DEF WorldInv, AtHome
<1>3. \A b \in {disk'.block, pins'.block, run'.truth.block} :
        b # None => disk'.manifest # None /\ b =< disk'.manifest
  BY <1>1, <1>2
<1>4. QED
  BY <1>1, <1>3 DEF WorldInv, AtHome

LEMMA AdmittedKept ==
  ASSUME WorldInv, disk'.cap = disk.cap, Latest' = Latest,
         run'.pc \in Past \cup {"checked"} =>
           /\ run.pc \in Past \cup {"checked"} /\ run'.truth = run.truth
           /\ run.pc = "graded" => run'.pc = "graded"
  PROVE  Admitted'
BY DEF WorldInv, Admitted

LEMMA ReplayedKept ==
  ASSUME WorldInv, disk'.cap = disk.cap, Latest' = Latest, cmd'.pc = "fill" => cmd.pc = "fill",
         run'.pc \in Past =>
           /\ \/ run'.pc = run.pc
              \/ run.pc = "replaying" /\ run'.pc = "measured"
              \/ run.pc \in Trusting /\ run'.pc \in Trusting
           /\ run'.truth = run.truth /\ run'.cap = run.cap
           /\ run'.pc = "graded" => run'.against = run.against
           /\ run.late \subseteq run'.late
  PROVE  Replayed'
<1>1. CASE run'.pc \notin Past
  BY <1>1 DEF Replayed, Past, Synced, Reading, Trusting
<1>2. CASE run'.pc \in Past
  <2>1. /\ run.pc \in Past /\ run'.truth = run.truth /\ run'.cap = run.cap
        /\ "cap" \notin run'.late => "cap" \notin run.late
        /\ run'.pc \in {"replaying", "measured"} <=> run.pc \in {"replaying", "measured"}
        /\ run'.pc \in Trusting <=> run.pc \in Trusting
        /\ run'.pc = "graded" <=> run.pc = "graded"
        /\ run'.pc = "graded" => run'.against = run.against
    BY <1>2 DEF Past, Reading, Trusting
  <2>2. QED
    BY <2>1 DEF WorldInv, Replayed, Past, Synced, Reading, Trusting
<1>3. QED
  BY <1>1, <1>2

-----------------------------------------------------------------------------
(* The steps of World, one by one.                                         *)
LEMMA RecordStartKeeps ==
  ASSUME WorldInv, RecordStart PROVE WorldInv'
<1>a. /\ home /\ home' /\ live < Moments /\ live' = live + 1 /\ cmd.pc \in {"idle", "published"}
      /\ UNCHANGED <<own, pins, list, repo, seals, swapped>>
      /\ used' = [used EXCEPT !.commands = @ + 1]
      /\ disk' = [disk EXCEPT !.cap = Torn]
  BY DEF RecordStart, Idle, Spend, Put
<1>c. cmd' = [pc |-> "stream", at |-> live + 1, file |-> None, added |-> {}]
  BY DEF RecordStart, Quiet
<1>d. /\ run' = run \/ run' = [run EXCEPT !.late = @ \cup {"cap"}]
      /\ run.pc \in Trusting => run' = [run EXCEPT !.late = @ \cup {"cap"}]
  BY DEF RecordStart, Put
<1>e. run \in RunSet /\ disk \in DiskSet /\ cmd \in CmdSet /\ live \in 0..Moments
  BY DEF WorldInv, WorldTypes
<1>f. Beside("cap")
  BY <1>d, <1>e DEF Beside, RunSet, Parts
<1>b. disk' \in DiskSet /\ cmd' \in CmdSet
  BY <1>a, <1>c, <1>e, Marks DEF DiskSet, CmdSet, Recording, Moment
<1>1. /\ home /\ home' /\ live < Moments /\ live' = live + 1 /\ live \in Nat
      /\ UNCHANGED <<own, pins, list, repo, seals, swapped>> /\ cmd.pc \in {"idle", "published"}
      /\ cmd'.pc = "stream" /\ cmd'.at = live + 1 /\ cmd'.added = {}
      /\ disk'.cap = Torn /\ disk'.wiki = disk.wiki /\ disk'.block = disk.block
      /\ disk'.manifest = disk.manifest
      /\ Beside("cap")
  BY <1>a, <1>c, <1>e, <1>f, Marks DEF DiskSet
<1>2. WorldTypes'
  <2>1. live' \in 0..Moments /\ used' \in [commands : Nat, runs : Nat]
    BY <1>1, <1>a, <1>e, Marks DEF WorldInv, WorldTypes
  <2>2. QED
    BY <1>1, <1>b, <2>1 DEF WorldInv, WorldTypes, Beside
<1>3. Authoring'
  BY <1>1, Marks DEF WorldInv, Authoring, Recording, Publishing, Moment
<1>4. AtHome'
  BY <1>1, Marks DEF WorldInv, WorldTypes, AtHome, Authoring, Latest, Publishing, Capture,
     DiskSet, PinSet, RunSet, Moment, Beside
<1>5. Away'
  BY <1>1, Marks DEF WorldInv, Away, Reading, Trusting, Beside
<1>6. Admitted'
  BY <1>1, Marks DEF WorldInv, WorldTypes, Admitted, Authoring, AtHome, Latest, Past, Reading,
     Trusting, Capture, PinSet, RunSet, Moment, Beside
<1>7. Replayed'
  <2>1. /\ run'.pc = run.pc /\ run'.truth = run.truth /\ run'.cap = run.cap
        /\ run'.against = run.against /\ run.late \subseteq run'.late
        /\ run.pc \in Trusting => "cap" \in run'.late
    BY <1>1 DEF Beside
  <2>2. Latest =< live /\ Latest' = live + 1
    BY <1>1, Marks DEF WorldInv, AtHome, Latest, Capture
  <2>3. run.pc \in {"replaying", "measured"} => run.cap.at \in Nat /\ run.cap.at =< Latest
    BY <1>e DEF WorldInv, Replayed, Past, Reading, RunSet, Capture
  <2>4. Latest \in Nat
    BY <1>1, <1>e, Marks DEF Latest, Capture, DiskSet
  <2>5. run.pc \in {"replaying", "measured"} => run.cap.at =< Latest' /\ run.cap.at < Latest'
    BY <1>1, <2>2, <2>3, <2>4
  <2>6. QED
    BY <1>1, <2>1, <2>5 DEF WorldInv, Replayed, Past, Synced
<1>8. Measured'
  BY <1>1, Marks DEF WorldInv, WorldTypes, Measured, Admitted, Authoring, AtHome, Latest,
     Synced, Trusting, Capture, RunSet, Moment, Beside
<1>9. Skilled'
  BY <1>1, Marks DEF WorldInv, Skilled, Trusting, Beside
<1>10. Admissible'
  BY <1>1, Marks DEF WorldInv, Admissible, Beside
<1>11. Written'
  BY <1>1, Marks DEF WorldInv, Written, Sound, InHand
<1>12. QED
  BY <1>2, <1>3, <1>4, <1>5, <1>6, <1>7, <1>8, <1>9, <1>10, <1>11 DEF WorldInv

LEMMA RecordEndKeeps ==
  ASSUME WorldInv, RecordEnd PROVE WorldInv'
<1>a. PICK full \in BOOLEAN : Put("cap", [at |-> cmd.at, full |-> full], FALSE)
  BY DEF RecordEnd
<1>b. /\ UNCHANGED <<own, home, live, used, pins, list, repo, seals, swapped>> /\ cmd.pc = "stream"
      /\ disk' = [disk EXCEPT !.cap = [at |-> cmd.at, full |-> full]]
      /\ cmd' = [cmd EXCEPT !.pc = IF own THEN "metrics" ELSE "idle"]
  BY <1>a DEF RecordEnd, Put, Go
<1>d. /\ run' = run \/ run' = [run EXCEPT !.late = @ \cup {"cap"}]
      /\ run.pc \in Trusting => run' = [run EXCEPT !.late = @ \cup {"cap"}]
  BY <1>a DEF Put
<1>e. run \in RunSet /\ disk \in DiskSet /\ cmd \in CmdSet /\ live \in 0..Moments
  BY DEF WorldInv, WorldTypes
<1>f. Beside("cap")
  BY <1>d, <1>e DEF Beside, RunSet, Parts
<1>g. home /\ disk.cap = Torn /\ cmd.at = live /\ live \in Moment
  BY <1>b DEF WorldInv, Authoring, Recording
<1>h. [at |-> cmd.at, full |-> full] \in Capture
  BY <1>g, <1>a DEF Capture, Moment
<1>i. disk' \in DiskSet /\ cmd' \in CmdSet
  BY <1>b, <1>e, <1>h DEF DiskSet, CmdSet, Recording
<1>1. /\ home /\ live \in Nat /\ cmd.pc = "stream" /\ disk.cap = Torn /\ cmd.at = live /\ live \in Moment
      /\ UNCHANGED <<own, home, live, used, pins, list, repo, seals, swapped>>
      /\ cmd'.pc \in {"metrics", "idle"} /\ cmd'.at = cmd.at /\ cmd'.added = cmd.added
      /\ disk'.cap \in Capture /\ disk'.cap.at = live /\ disk'.wiki = disk.wiki
      /\ disk'.block = disk.block /\ disk'.manifest = disk.manifest
      /\ Beside("cap")
  BY <1>b, <1>e, <1>f, <1>g, <1>h DEF DiskSet, CmdSet
<1>2. WorldTypes'
  BY <1>1, <1>i, Marks DEF WorldInv, WorldTypes, Beside
<1>3. Authoring' /\ Away' /\ Skilled' /\ Admissible' /\ Written'
    BY <1>1, Marks DEF WorldInv, Authoring, Recording, Publishing, Moment, Away, Reading,
     Trusting, Beside, Skilled, Admissible, Written, Sound, InHand
<1>4. AtHome'
  BY <1>1, Marks DEF WorldInv, WorldTypes, AtHome, Authoring, Latest, Publishing, Capture,
     DiskSet, PinSet, RunSet, Moment, Beside
<1>5. Admitted'
  BY <1>1, Marks DEF WorldInv, WorldTypes, Admitted, Authoring, AtHome, Latest, Past, Reading,
     Trusting, Capture, PinSet, RunSet, Moment, Beside
<1>6. Replayed'
  BY <1>1, Marks DEF WorldInv, WorldTypes, Replayed, Admitted, Authoring, AtHome, Latest, Past,
     Reading, Trusting, Synced, Capture, PinSet, RunSet, Moment, Beside
<1>7. Measured'
  BY <1>1, Marks DEF WorldInv, WorldTypes, Measured, Admitted, Authoring, AtHome, Latest,
     Synced, Trusting, Capture, RunSet, Moment, Beside
<1>8. QED
  BY <1>2, <1>3, <1>4, <1>5, <1>6, <1>7 DEF WorldInv

LEMMA RecordManifestKeeps ==
  ASSUME WorldInv, RecordManifest PROVE WorldInv'
<1>a. /\ UNCHANGED <<own, home, live, used, pins, list, repo, seals, swapped>> /\ cmd.pc = "metrics"
      /\ \/ cmd' = [cmd EXCEPT !.pc = "snapshot"] /\ disk' = disk
         \/ cmd' = [cmd EXCEPT !.pc = "block"] /\ disk' = [disk EXCEPT !.manifest = cmd.at]
  BY DEF RecordManifest, Put, Go
<1>e. run \in RunSet /\ disk \in DiskSet /\ cmd \in CmdSet /\ live \in 0..Moments
  BY DEF WorldInv, WorldTypes
<1>f. run' = run \/ Beside("manifest")
  BY <1>e DEF RecordManifest, Put, Beside, RunSet, Parts
<1>g. home /\ disk.cap \in Capture /\ disk.cap.at = live /\ cmd.at = live /\ live \in Moment
  BY <1>a DEF WorldInv, Authoring, Recording
<1>i. disk' \in DiskSet /\ cmd' \in CmdSet
  BY <1>a, <1>e, <1>g DEF DiskSet, CmdSet, Recording
<1>1. /\ home /\ live \in Nat /\ cmd.pc = "metrics" /\ cmd.at = live /\ live \in Moment
      /\ UNCHANGED <<own, home, live, used, pins, list, repo, seals, swapped>>
      /\ disk.cap \in Capture /\ disk.cap.at = live
      /\ cmd'.pc \in {"snapshot", "block"} /\ cmd'.at = live /\ cmd'.added = cmd.added
      /\ disk'.cap = disk.cap /\ disk'.wiki = disk.wiki /\ disk'.block = disk.block
      /\ disk'.manifest \in {disk.manifest, live} /\ (cmd'.pc = "block" => disk'.manifest = live)
      /\ run' = run \/ Beside("manifest")
  BY <1>a, <1>e, <1>f, <1>g DEF DiskSet, CmdSet
<1>2. WorldTypes'
  BY <1>1, <1>i, Marks DEF WorldInv, WorldTypes, Beside
<1>3. Authoring' /\ Away' /\ Skilled' /\ Admissible' /\ Written'
    BY <1>1, Marks DEF WorldInv, Authoring, Recording, Publishing, Moment, Away, Reading,
     Trusting, Beside, Skilled, Admissible, Written, Sound, InHand
<1>4. AtHome'
  <2>1. run'.truth = run.truth /\ run.truth \in PinSet
    BY <1>1, <1>e DEF Beside, RunSet
  <2>2. disk.manifest # None => disk.manifest =< live
    BY <1>1, Marks DEF WorldInv, AtHome, Latest
  <2>3. \A b \in {disk.block, pins.block, run.truth.block} :
          b # None => b \in Moment /\ b =< live /\ disk'.manifest # None /\ b =< disk'.manifest
    <3>1. /\ {disk.manifest, disk.block, pins.block, run.truth.block} \subseteq Moment \cup {None}
          /\ Moment \subseteq Nat /\ None \notin Nat
      BY <1>e, Marks DEF WorldInv, WorldTypes, DiskSet, PinSet, RunSet, Moment
    <3>2. \A b \in {disk.block, pins.block, run.truth.block} :
            b # None => disk.manifest # None /\ b =< disk.manifest
      BY <1>1 DEF WorldInv, AtHome
    <3>3. live \in Moment /\ (disk'.manifest = disk.manifest \/ disk'.manifest = live)
      BY <1>1
    <3>4. SUFFICES ASSUME NEW b \in {disk.block, pins.block, run.truth.block}, b # None
                   PROVE  b \in Moment /\ b =< live /\ disk'.manifest # None /\ b =< disk'.manifest
      OBVIOUS
    <3>5. b \in Moment /\ disk.manifest \in Moment /\ disk.manifest # None /\ b =< disk.manifest
      BY <3>1, <3>2, <3>4
    <3>6. b \in Nat /\ disk.manifest \in Nat /\ live \in Nat /\ live # None
      BY <3>1, <3>3, <3>5
    <3>7. QED
      BY <2>2, <3>3, <3>5, <3>6
  <2>4. QED
    BY <1>1, <2>1, <2>2, <2>3, Marks DEF WorldInv, AtHome, Latest, Publishing
<1>5. Admitted'
  BY <1>1, AdmittedKept DEF Latest, Past, Reading, Trusting, Beside
<1>6. Replayed'
  BY <1>1, ReplayedKept DEF Latest, Past, Reading, Trusting, Beside
<1>7. Measured'
  BY <1>1, Marks DEF WorldInv, WorldTypes, Measured, Admitted, Authoring, AtHome, Latest,
     Synced, Trusting, Capture, RunSet, Moment, Beside
<1>8. QED
  BY <1>2, <1>3, <1>4, <1>5, <1>6, <1>7 DEF WorldInv

LEMMA RecordBlockKeeps ==
  ASSUME WorldInv, RecordBlock PROVE WorldInv'
<1>a. /\ UNCHANGED <<own, home, live, used, pins, list, repo, seals, swapped>> /\ cmd.pc = "block"
      /\ cmd' = [cmd EXCEPT !.pc = "cache"] /\ disk' = [disk EXCEPT !.block = cmd.at]
  BY DEF RecordBlock, Put, Go
<1>d. /\ run' = run \/ run' = [run EXCEPT !.late = @ \cup {"block"}]
      /\ run.pc \in Trusting => run' = [run EXCEPT !.late = @ \cup {"block"}]
  BY DEF RecordBlock, Put
<1>e. run \in RunSet /\ disk \in DiskSet /\ cmd \in CmdSet /\ live \in 0..Moments
  BY DEF WorldInv, WorldTypes
<1>f. Beside("block")
  BY <1>d, <1>e DEF Beside, RunSet, Parts
<1>g. home /\ cmd.at = live /\ live \in Moment /\ disk.manifest = cmd.at
  BY <1>a DEF WorldInv, Authoring, Recording
<1>i. disk' \in DiskSet /\ cmd' \in CmdSet
  BY <1>a, <1>e, <1>g DEF DiskSet, CmdSet, Recording
<1>1. /\ home /\ live \in Nat /\ cmd.pc = "block" /\ cmd.at = live /\ live \in Moment
      /\ UNCHANGED <<own, home, live, used, pins, list, repo, seals, swapped>>
      /\ cmd'.pc = "cache" /\ cmd'.at = live /\ cmd'.added = cmd.added
      /\ disk'.cap = disk.cap /\ disk'.wiki = disk.wiki /\ disk'.block = live
      /\ disk.manifest = live /\ disk'.manifest = live
      /\ Beside("block")
  BY <1>a, <1>e, <1>f, <1>g DEF DiskSet, CmdSet
<1>2. WorldTypes'
  BY <1>1, <1>i, Marks DEF WorldInv, WorldTypes, Beside
<1>3. Authoring' /\ Away' /\ Skilled' /\ Admissible' /\ Written'
    BY <1>1, Marks DEF WorldInv, Authoring, Recording, Publishing, Moment, Away, Reading,
     Trusting, Beside, Skilled, Admissible, Written, Sound, InHand
<1>4. AtHome'
  BY <1>1, Marks DEF WorldInv, WorldTypes, AtHome, Authoring, Latest, Publishing, Capture,
     DiskSet, PinSet, RunSet, Moment, Beside
<1>5. Admitted'
  BY <1>1, AdmittedKept DEF Latest, Past, Reading, Trusting, Beside
<1>6. Replayed'
  BY <1>1, ReplayedKept DEF Latest, Past, Reading, Trusting, Beside
<1>7. Measured'
  BY <1>1, Marks DEF WorldInv, WorldTypes, Measured, Admitted, Authoring, AtHome, Latest,
     Synced, Trusting, Capture, RunSet, Moment, Beside
<1>8. QED
  BY <1>2, <1>3, <1>4, <1>5, <1>6, <1>7 DEF WorldInv

LEMMA RecordCacheKeeps ==
  ASSUME WorldInv, RecordCache PROVE WorldInv'
<1>a. /\ UNCHANGED <<own, home, live, used, pins, list, repo, seals, swapped>> /\ cmd.pc = "cache"
      /\ cmd' = [cmd EXCEPT !.pc = "snapshot"] /\ disk' = [disk EXCEPT !.cache = disk.cache \cup {cmd.at}]
  BY DEF RecordCache, Put, Go
<1>d. /\ run' = run \/ run' = [run EXCEPT !.late = @ \cup {"cache"}]
      /\ run.pc \in Trusting => run' = [run EXCEPT !.late = @ \cup {"cache"}]
  BY DEF RecordCache, Put
<1>e. run \in RunSet /\ disk \in DiskSet /\ cmd \in CmdSet /\ live \in 0..Moments
  BY DEF WorldInv, WorldTypes
<1>f. Beside("cache")
  BY <1>d, <1>e DEF Beside, RunSet, Parts
<1>g. home /\ cmd.at = live /\ live \in Moment
  BY <1>a DEF WorldInv, Authoring, Recording
<1>i. disk' \in DiskSet /\ cmd' \in CmdSet
  BY <1>a, <1>e, <1>g DEF DiskSet, CmdSet, Recording
<1>1. /\ home /\ live \in Nat /\ cmd.pc = "cache" /\ cmd.at = live /\ live \in Moment
      /\ UNCHANGED <<own, home, live, used, pins, list, repo, seals, swapped>>
      /\ cmd'.pc = "snapshot" /\ cmd'.at = live /\ cmd'.added = cmd.added
      /\ disk'.cap = disk.cap /\ disk'.wiki = disk.wiki /\ disk'.block = disk.block
      /\ disk'.manifest = disk.manifest
      /\ Beside("cache")
  BY <1>a, <1>e, <1>f, <1>g DEF DiskSet, CmdSet
<1>2. WorldTypes'
  BY <1>1, <1>i, Marks DEF WorldInv, WorldTypes, Beside
<1>3. Authoring' /\ Away' /\ Skilled' /\ Admissible' /\ Written'
    BY <1>1, Marks DEF WorldInv, Authoring, Recording, Publishing, Moment, Away, Reading,
     Trusting, Beside, Skilled, Admissible, Written, Sound, InHand
<1>4. AtHome'
  BY <1>1, AtHomeKept DEF Latest, Publishing, Beside
<1>5. Admitted'
  BY <1>1, AdmittedKept DEF Latest, Past, Reading, Trusting, Beside
<1>6. Replayed'
  BY <1>1, ReplayedKept DEF Latest, Past, Reading, Trusting, Beside
<1>7. Measured'
  BY <1>1, Marks DEF WorldInv, WorldTypes, Measured, Admitted, Authoring, AtHome, Latest,
     Synced, Trusting, Capture, RunSet, Moment, Beside
<1>8. QED
  BY <1>2, <1>3, <1>4, <1>5, <1>6, <1>7 DEF WorldInv

LEMMA SkillStartKeeps ==
  ASSUME WorldInv, SkillStart PROVE WorldInv'
<1>a. /\ UNCHANGED <<own, home, live, used, pins, list, repo, seals, swapped>> /\ cmd.pc = "snapshot"
      /\ disk' \in {[disk EXCEPT !.wiki = w] : w \in {None, Torn}}
  BY DEF SkillStart, Put
<1>b. PICK m \in 1..cmd.at : cmd' = [cmd EXCEPT !.pc = "copy", !.at = [at |-> m, full |-> TRUE]]
  BY DEF SkillStart
<1>d. /\ run' = run \/ run' = [run EXCEPT !.late = @ \cup {"wiki"}]
      /\ run.pc \in Trusting => run' = [run EXCEPT !.late = @ \cup {"wiki"}]
  BY DEF SkillStart, Put
<1>e. run \in RunSet /\ disk \in DiskSet /\ cmd \in CmdSet /\ live \in 0..Moments
  BY DEF WorldInv, WorldTypes
<1>f. Beside("wiki")
  BY <1>d, <1>e DEF Beside, RunSet, Parts
<1>g. home /\ cmd.at = live /\ live \in Moment
  BY <1>a DEF WorldInv, Authoring, Recording
<1>h. [at |-> m, full |-> TRUE] \in Capture
  BY <1>g, Marks DEF Capture, Moment
<1>i. disk' \in DiskSet /\ cmd' \in CmdSet
  BY <1>a, <1>b, <1>e, <1>h DEF DiskSet, CmdSet
<1>1. /\ home /\ live \in Nat /\ cmd.pc = "snapshot"
      /\ UNCHANGED <<own, home, live, used, pins, list, repo, seals, swapped>>
      /\ cmd'.pc = "copy" /\ cmd'.at \in Capture /\ cmd'.added = cmd.added
      /\ disk'.cap = disk.cap /\ disk'.wiki \in {None, Torn} /\ disk'.block = disk.block
      /\ disk'.manifest = disk.manifest
      /\ Beside("wiki")
  BY <1>a, <1>b, <1>e, <1>f, <1>g, <1>h DEF DiskSet, CmdSet
<1>2. WorldTypes'
  BY <1>1, <1>i, Marks DEF WorldInv, WorldTypes, Beside
<1>3. Authoring' /\ Away' /\ Skilled' /\ Admissible' /\ Written'
    BY <1>1, Marks DEF WorldInv, Authoring, Recording, Publishing, Moment, Away, Reading,
     Trusting, Beside, Skilled, Admissible, Written, Sound, InHand
<1>4. AtHome'
  BY <1>1, AtHomeKept DEF Latest, Publishing, Beside
<1>5. Admitted'
  BY <1>1, AdmittedKept DEF Latest, Past, Reading, Trusting, Beside
<1>6. Replayed'
  BY <1>1, ReplayedKept DEF Latest, Past, Reading, Trusting, Beside
<1>7. Measured'
  BY <1>1, Marks DEF WorldInv, WorldTypes, Measured, Admitted, Authoring, AtHome, Latest,
     Synced, Trusting, Capture, RunSet, Moment, Beside
<1>8. QED
  BY <1>2, <1>3, <1>4, <1>5, <1>6, <1>7 DEF WorldInv

LEMMA BuildWikiKeeps ==
  ASSUME WorldInv, BuildWiki PROVE WorldInv'
<1>a. /\ UNCHANGED <<own, home, live, pins, list, repo, seals, swapped>> /\ home
      /\ cmd.pc \in {"idle", "published"} /\ disk.cap \in Capture
      /\ used' = [used EXCEPT !.commands = @ + 1]
      /\ disk' \in {[disk EXCEPT !.wiki = w] : w \in {None, Torn}}
  BY DEF BuildWiki, Put, Idle, Spend, Whole
<1>b. cmd' = [pc |-> "copy", at |-> disk.cap, file |-> None, added |-> {}]
  BY DEF BuildWiki, Quiet
<1>d. /\ run' = run \/ run' = [run EXCEPT !.late = @ \cup {"wiki"}]
      /\ run.pc \in Trusting => run' = [run EXCEPT !.late = @ \cup {"wiki"}]
  BY DEF BuildWiki, Put
<1>e. run \in RunSet /\ disk \in DiskSet /\ cmd \in CmdSet /\ live \in 0..Moments
  BY DEF WorldInv, WorldTypes
<1>f. Beside("wiki")
  BY <1>d, <1>e DEF Beside, RunSet, Parts
<1>i. disk' \in DiskSet /\ cmd' \in CmdSet
  BY <1>a, <1>b, <1>e DEF DiskSet, CmdSet
<1>1. /\ home /\ live \in Nat /\ cmd.pc \in {"idle", "published"} /\ disk.cap \in Capture
      /\ UNCHANGED <<own, home, live, pins, list, repo, seals, swapped>>
      /\ cmd'.pc = "copy" /\ cmd'.at \in Capture /\ cmd'.added = {}
      /\ disk'.cap = disk.cap /\ disk'.wiki \in {None, Torn} /\ disk'.block = disk.block
      /\ disk'.manifest = disk.manifest
      /\ Beside("wiki")
  BY <1>a, <1>b, <1>e, <1>f DEF DiskSet
<1>2. WorldTypes'
  BY <1>1, <1>a, <1>i, Marks DEF WorldInv, WorldTypes, Beside
<1>3. Authoring' /\ Away' /\ Skilled' /\ Admissible' /\ Written'
  <2>1. Authoring'
    BY <1>1, Marks DEF WorldInv, Authoring, Recording, Publishing, Moment
  <2>2. Away' /\ Skilled'
    BY <1>1, Marks DEF WorldInv, Away, Skilled, Reading, Trusting, Beside
  <2>3. Admissible' /\ Written'
    BY <1>1, Marks DEF WorldInv, Admissible, Written, Sound, InHand, Beside
  <2>4. QED
    BY <2>1, <2>2, <2>3
<1>4. AtHome'
  BY <1>1, AtHomeKept DEF Latest, Publishing, Beside
<1>5. Admitted'
  BY <1>1, AdmittedKept DEF Latest, Past, Reading, Trusting, Beside
<1>6. Replayed'
  BY <1>1, ReplayedKept DEF Latest, Past, Reading, Trusting, Beside
<1>7. Measured'
  BY <1>1, Marks DEF WorldInv, WorldTypes, Measured, Admitted, Authoring, AtHome, Latest,
     Synced, Trusting, Capture, RunSet, Moment, Beside
<1>8. QED
  BY <1>2, <1>3, <1>4, <1>5, <1>6, <1>7 DEF WorldInv

LEMMA SkillEndKeeps ==
  ASSUME WorldInv, SkillEnd PROVE WorldInv'
<1>a. /\ UNCHANGED <<own, home, live, used, pins, list, repo, seals, swapped>> /\ cmd.pc = "copy"
      /\ disk' = [disk EXCEPT !.wiki = cmd.at]
  BY DEF SkillEnd, Put
<1>b. cmd' = [pc |-> "idle", at |-> None, file |-> None, added |-> {}]
  BY DEF SkillEnd, Quiet
<1>d. /\ run' = run \/ run' = [run EXCEPT !.late = @ \cup {"wiki"}]
      /\ run.pc \in Trusting => run' = [run EXCEPT !.late = @ \cup {"wiki"}]
  BY DEF SkillEnd, Put
<1>e. run \in RunSet /\ disk \in DiskSet /\ cmd \in CmdSet /\ live \in 0..Moments
  BY DEF WorldInv, WorldTypes
<1>f. Beside("wiki")
  BY <1>d, <1>e DEF Beside, RunSet, Parts
<1>g. home /\ cmd.at \in Capture
  BY <1>a DEF WorldInv, Authoring
<1>i. disk' \in DiskSet /\ cmd' \in CmdSet
  BY <1>a, <1>b, <1>e, <1>g DEF DiskSet, CmdSet
<1>1. /\ home /\ live \in Nat /\ cmd.pc = "copy"
      /\ UNCHANGED <<own, home, live, used, pins, list, repo, seals, swapped>>
      /\ cmd'.pc = "idle" /\ cmd'.added = {}
      /\ disk'.cap = disk.cap /\ disk'.wiki \in Capture /\ disk'.block = disk.block
      /\ disk'.manifest = disk.manifest
      /\ Beside("wiki")
  BY <1>a, <1>b, <1>e, <1>f, <1>g DEF DiskSet
<1>2. WorldTypes'
  BY <1>1, <1>i, Marks DEF WorldInv, WorldTypes, Beside
<1>3. Authoring' /\ Away' /\ Skilled' /\ Admissible' /\ Written'
    BY <1>1, Marks DEF WorldInv, Authoring, Recording, Publishing, Moment, Away, Reading,
     Trusting, Beside, Skilled, Admissible, Written, Sound, InHand
<1>4. AtHome'
  BY <1>1, AtHomeKept DEF Latest, Publishing, Beside
<1>5. Admitted'
  BY <1>1, AdmittedKept DEF Latest, Past, Reading, Trusting, Beside
<1>6. Replayed'
  BY <1>1, ReplayedKept DEF Latest, Past, Reading, Trusting, Beside
<1>7. Measured'
  BY <1>1, Marks DEF WorldInv, WorldTypes, Measured, Admitted, Authoring, AtHome, Latest,
     Synced, Trusting, Capture, RunSet, Moment, Beside
<1>8. QED
  BY <1>2, <1>3, <1>4, <1>5, <1>6, <1>7 DEF WorldInv

LEMMA BackfillStartKeeps ==
  ASSUME WorldInv, BackfillStart PROVE WorldInv'
<1>a. /\ UNCHANGED <<own, home, live, pins, list, repo, seals, swapped>> /\ home
      /\ cmd.pc \in {"idle", "published"} /\ disk.cap \in Capture
      /\ used' = [used EXCEPT !.commands = @ + 1]
      /\ disk' = [disk EXCEPT !.cap = Torn]
  BY DEF BackfillStart, Put, Idle, Spend, Whole
<1>b. cmd' = [pc |-> "fill", at |-> disk.cap.at, file |-> None, added |-> {}]
  BY DEF BackfillStart, Quiet
<1>d. /\ run' = run \/ run' = [run EXCEPT !.late = @ \cup {"cap"}]
      /\ run.pc \in Reading => run' = [run EXCEPT !.late = @ \cup {"cap"}]
  BY DEF BackfillStart, Put
<1>e. run \in RunSet /\ disk \in DiskSet /\ cmd \in CmdSet /\ live \in 0..Moments
  BY DEF WorldInv, WorldTypes
<1>f. Beside("cap") /\ (run.pc \in Reading => "cap" \in run'.late)
  BY <1>d, <1>e DEF Beside, RunSet, Parts, Reading
<1>g. disk.cap.at \in 1..live
  BY <1>a, <1>e, Marks DEF WorldInv, AtHome, Latest, Capture
<1>i. disk' \in DiskSet /\ cmd' \in CmdSet
  BY <1>a, <1>b, <1>e, <1>g, Marks DEF DiskSet, CmdSet, Moment
<1>1. /\ home /\ live \in Nat /\ cmd.pc \in {"idle", "published"} /\ disk.cap \in Capture
      /\ UNCHANGED <<own, home, live, pins, list, repo, seals, swapped>>
      /\ cmd'.pc = "fill" /\ cmd'.at = disk.cap.at /\ disk.cap.at \in 1..live /\ cmd'.added = {}
      /\ disk'.cap = Torn /\ disk'.wiki = disk.wiki /\ disk'.block = disk.block
      /\ disk'.manifest = disk.manifest
      /\ Beside("cap") /\ (run.pc \in Reading => "cap" \in run'.late)
  BY <1>a, <1>b, <1>e, <1>f, <1>g DEF DiskSet
<1>2. WorldTypes'
  BY <1>1, <1>a, <1>i, Marks DEF WorldInv, WorldTypes, Beside
<1>3. Authoring' /\ Away' /\ Skilled' /\ Admissible' /\ Written'
  <2>1. Authoring'
    BY <1>1, Marks DEF WorldInv, Authoring, Recording, Publishing, Moment
  <2>2. Away' /\ Skilled'
    BY <1>1, Marks DEF WorldInv, Away, Skilled, Reading, Trusting, Beside
  <2>3. Admissible' /\ Written'
    BY <1>1, Marks DEF WorldInv, Admissible, Written, Sound, InHand, Beside
  <2>4. QED
    BY <2>1, <2>2, <2>3
<1>4. AtHome'
  BY <1>1, Marks DEF WorldInv, WorldTypes, AtHome, Authoring, Latest, Publishing, Capture,
     DiskSet, PinSet, RunSet, Moment, Beside
<1>5. Admitted'
  BY <1>1, Marks DEF WorldInv, WorldTypes, Admitted, Authoring, AtHome, Latest, Past, Reading,
     Trusting, Capture, PinSet, RunSet, Moment, Beside
<1>6. Replayed'
  BY <1>1, Marks DEF WorldInv, WorldTypes, Replayed, Admitted, Authoring, AtHome, Latest, Past,
     Reading, Trusting, Synced, Capture, PinSet, RunSet, Moment, Beside
<1>7. Measured'
  BY <1>1, Marks DEF WorldInv, WorldTypes, Measured, Admitted, Authoring, AtHome, Latest,
     Synced, Trusting, Capture, RunSet, Moment, Beside
<1>8. QED
  BY <1>2, <1>3, <1>4, <1>5, <1>6, <1>7 DEF WorldInv

LEMMA BackfillEndKeeps ==
  ASSUME WorldInv, BackfillEnd PROVE WorldInv'
<1>a. /\ UNCHANGED <<own, home, live, used, pins, list, repo, seals, swapped>> /\ cmd.pc = "fill"
      /\ disk' = [disk EXCEPT !.cap = [at |-> cmd.at, full |-> TRUE]]
  BY DEF BackfillEnd, Put
<1>b. cmd' = [pc |-> "idle", at |-> None, file |-> None, added |-> {}]
  BY DEF BackfillEnd, Quiet
<1>d. /\ run' = run \/ run' = [run EXCEPT !.late = @ \cup {"cap"}]
      /\ run.pc \in Reading => run' = [run EXCEPT !.late = @ \cup {"cap"}]
  BY DEF BackfillEnd, Put
<1>e. run \in RunSet /\ disk \in DiskSet /\ cmd \in CmdSet /\ live \in 0..Moments
  BY DEF WorldInv, WorldTypes
<1>f. Beside("cap") /\ (run.pc \in Reading => "cap" \in run'.late)
  BY <1>d, <1>e DEF Beside, RunSet, Parts, Reading
<1>g. home /\ disk.cap = Torn /\ cmd.at \in 1..live
  BY <1>a DEF WorldInv, Authoring
<1>h. [at |-> cmd.at, full |-> TRUE] \in Capture
  BY <1>e, <1>g, Marks DEF Capture
<1>i. disk' \in DiskSet /\ cmd' \in CmdSet
  BY <1>a, <1>b, <1>e, <1>h DEF DiskSet, CmdSet
<1>1. /\ home /\ live \in Nat /\ cmd.pc = "fill" /\ cmd.at \in 1..live
      /\ UNCHANGED <<own, home, live, used, pins, list, repo, seals, swapped>>
      /\ cmd'.pc = "idle" /\ cmd'.added = {}
      /\ disk.cap = Torn /\ disk'.cap \in Capture /\ disk'.cap.at = cmd.at
      /\ disk'.wiki = disk.wiki /\ disk'.block = disk.block /\ disk'.manifest = disk.manifest
      /\ Beside("cap") /\ (run.pc \in Reading => "cap" \in run'.late)
  BY <1>a, <1>b, <1>e, <1>f, <1>g, <1>h DEF DiskSet
<1>2. WorldTypes'
  BY <1>1, <1>i, Marks DEF WorldInv, WorldTypes, Beside
<1>3. Authoring' /\ Away' /\ Skilled' /\ Admissible' /\ Written'
  <2>1. Authoring'
    BY <1>1, Marks DEF WorldInv, Authoring, Recording, Publishing, Moment
  <2>2. Away' /\ Skilled'
    BY <1>1, Marks DEF WorldInv, Away, Skilled, Reading, Trusting, Beside
  <2>3. Admissible' /\ Written'
    BY <1>1, Marks DEF WorldInv, Admissible, Written, Sound, InHand, Beside
  <2>4. QED
    BY <2>1, <2>2, <2>3
<1>4. AtHome'
  BY <1>1, Marks DEF WorldInv, WorldTypes, AtHome, Authoring, Latest, Publishing, Capture,
     DiskSet, PinSet, RunSet, Moment, Beside
<1>5. Admitted'
  BY <1>1, Marks DEF WorldInv, WorldTypes, Admitted, Authoring, AtHome, Latest, Past, Reading,
     Trusting, Capture, PinSet, RunSet, Moment, Beside
<1>6. Replayed'
  BY <1>1, Marks DEF WorldInv, WorldTypes, Replayed, Admitted, Authoring, AtHome, Latest, Past,
     Reading, Trusting, Synced, Capture, PinSet, RunSet, Moment, Beside
<1>7. Measured'
  BY <1>1, Marks DEF WorldInv, WorldTypes, Measured, Admitted, Authoring, AtHome, Latest,
     Synced, Trusting, Capture, RunSet, Moment, Beside
<1>8. QED
  BY <1>2, <1>3, <1>4, <1>5, <1>6, <1>7 DEF WorldInv

LEMMA StopKeeps ==
  ASSUME WorldInv, Stop PROVE WorldInv'
<1>a. /\ UNCHANGED <<own, home, live, used, disk, pins, list, repo, seals, run, swapped>>
      /\ cmd.pc \notin {"idle", "published"}
  BY DEF Stop, Idle
<1>b. cmd' = [pc |-> "idle", at |-> None, file |-> None, added |-> {}]
  BY DEF Stop, Quiet
<1>e. run \in RunSet /\ disk \in DiskSet /\ cmd \in CmdSet /\ live \in 0..Moments
  BY DEF WorldInv, WorldTypes
<1>i. cmd' \in CmdSet
  BY <1>b DEF CmdSet
<1>1. /\ UNCHANGED <<own, home, live, used, disk, pins, list, repo, seals, run, swapped>>
      /\ live \in Nat /\ cmd'.pc = "idle" /\ cmd'.added = {}
  BY <1>a, <1>b, <1>e
<1>2. WorldTypes'
  BY <1>1, <1>i, Marks DEF WorldInv, WorldTypes, Beside
<1>3. Authoring' /\ Away' /\ Skilled' /\ Admissible' /\ Written'
    BY <1>1, Marks DEF WorldInv, Authoring, Recording, Publishing, Moment, Away, Reading,
     Trusting, Skilled, Admissible, Written, Sound, InHand
<1>4. AtHome'
  BY <1>1, Marks DEF WorldInv, WorldTypes, AtHome, Authoring, Latest, Publishing, Capture,
     DiskSet, PinSet, RunSet, Moment
<1>5. Admitted' /\ Replayed'
  <2>1. CASE cmd.pc = "fill"
    <3>1. disk.cap = Torn /\ cmd.at \in 1..live /\ Latest = cmd.at /\ Latest' = live
      BY <1>1, <2>1, Marks DEF WorldInv, Authoring, Latest
    <3>2. run.pc \in Past \cup {"checked"} /\ run.pc # "graded" => run.truth.at \in Nat /\ run.truth.at =< live
      BY <1>1, <1>e, <3>1, Marks DEF WorldInv, Admitted, RunSet, PinSet, Moment
    <3>3. run.pc \in {"replaying", "measured"} => run.cap.at =< live
      <4>1. run.pc \in {"replaying", "measured"} => run.cap.at \in Nat /\ run.cap.at =< cmd.at
        BY <1>e, <3>1 DEF WorldInv, Replayed, Past, Reading, RunSet, Capture
      <4>2. QED
        BY <1>1, <3>1, <4>1
    <3>4. Admitted'
      BY <1>1, <3>1, <3>2 DEF WorldInv, Admitted
    <3>5. Replayed'
      BY <1>1, <2>1, <3>1, <3>3 DEF WorldInv, Replayed, Reading
    <3>6. QED
      BY <3>4, <3>5
  <2>2. CASE cmd.pc # "fill"
    BY <1>1, <2>2, AdmittedKept, ReplayedKept DEF Latest, Past, Reading, Trusting
  <2>3. QED
    BY <2>1, <2>2
<1>6. Measured'
  BY <1>1, Marks DEF WorldInv, WorldTypes, Measured, Admitted, Authoring, AtHome, Latest,
     Synced, Trusting, Capture, RunSet, Moment
<1>7. QED
  BY <1>2, <1>3, <1>4, <1>5, <1>6 DEF WorldInv

LEMMA ReviewKeeps ==
  ASSUME WorldInv, Review PROVE WorldInv'
<1>a. /\ UNCHANGED <<own, home, live, disk, list, repo, seals, cmd, run, swapped>> /\ home
      /\ cmd.pc \in {"idle", "published"} /\ used' = [used EXCEPT !.commands = @ + 1]
  BY DEF Review, Idle, Spend
<1>b. PICK at \in {pins.at} \cup {c.at : c \in {disk.cap} \cap Capture},
           wiki \in {pins.wiki} \cup ({disk.wiki} \cap Capture),
           block \in {pins.block} \cup ({disk.block} \ {None}) :
         pins' = [pins EXCEPT !.at = at, !.wiki = wiki, !.block = block]
  BY DEF Review
<1>e. run \in RunSet /\ disk \in DiskSet /\ cmd \in CmdSet /\ live \in 0..Moments
  BY DEF WorldInv, WorldTypes
<1>g. pins \in PinSet
  BY DEF WorldInv, WorldTypes
<1>h. at \in Moment \cup {None} /\ wiki \in Capture \cup {None} /\ block \in Moment \cup {None}
  BY <1>e, <1>g DEF PinSet, DiskSet, Capture, Moment
<1>i. pins' \in PinSet
  BY <1>b, <1>g, <1>h DEF PinSet
<1>1. /\ UNCHANGED <<own, home, live, disk, list, repo, seals, cmd, run, swapped>> /\ home
      /\ cmd.pc \in {"idle", "published"} /\ live \in Nat
      /\ pins'.digest = pins.digest /\ pins'.block \in {pins.block, disk.block}
  BY <1>a, <1>b, <1>e, <1>g DEF PinSet
<1>2. WorldTypes'
  BY <1>1, <1>a, <1>i, Marks DEF WorldInv, WorldTypes
<1>3. Authoring' /\ Away' /\ Skilled' /\ Admissible' /\ Written'
    BY <1>1, Marks DEF WorldInv, Authoring, Recording, Publishing, Moment, Away, Reading,
     Trusting, Skilled, Admissible, Written, Sound, InHand
<1>4. AtHome'
  BY <1>1, AtHomeKept DEF Latest, Publishing
<1>5. Admitted'
  BY <1>1, AdmittedKept DEF Latest, Past, Reading, Trusting
<1>6. Replayed'
  BY <1>1, ReplayedKept DEF Latest, Past, Reading, Trusting
<1>7. Measured'
  BY <1>1, Marks DEF WorldInv, WorldTypes, Measured, Admitted, Authoring, AtHome, Latest,
     Synced, Trusting, Capture, RunSet, Moment
<1>8. QED
  BY <1>2, <1>3, <1>4, <1>5, <1>6, <1>7 DEF WorldInv

LEMMA EditListKeeps ==
  ASSUME WorldInv, EditList PROVE WorldInv'
<1>a. /\ UNCHANGED <<own, home, live, disk, pins, repo, seals, cmd, swapped>> /\ home
      /\ cmd.pc \in {"idle", "published"} /\ used' = [used EXCEPT !.commands = @ + 1]
      /\ list' = list + 1
      /\ run' = run \/ run' = [run EXCEPT !.late = @ \cup {"list"}]
      /\ run.pc \notin {"idle", "graded"} => run' = [run EXCEPT !.late = @ \cup {"list"}]
  BY DEF EditList, Idle, Spend
<1>e. run \in RunSet /\ disk \in DiskSet /\ cmd \in CmdSet /\ live \in 0..Moments
  BY DEF WorldInv, WorldTypes
<1>f. /\ run' \in RunSet
      /\ run'.pc = run.pc /\ run'.truth = run.truth /\ run'.seal = run.seal /\ run'.cap = run.cap
      /\ run'.block = run.block /\ run'.manifest = run.manifest /\ run'.wiki = run.wiki
      /\ run'.stamp = run.stamp /\ run'.against = run.against /\ run'.list = run.list
      /\ run'.late = run.late \/ run'.late = run.late \cup {"list"}
      /\ run.pc \notin {"idle", "graded"} => run'.late = run.late \cup {"list"}
  BY <1>a, <1>e DEF RunSet, Parts
<1>1. /\ UNCHANGED <<own, home, live, disk, pins, repo, seals, cmd, swapped>> /\ home
      /\ cmd.pc \in {"idle", "published"} /\ live \in Nat
  BY <1>a, <1>e
<1>2. WorldTypes'
  BY <1>1, <1>a, <1>f, Marks DEF WorldInv, WorldTypes
<1>3. Authoring' /\ Away' /\ Skilled' /\ Admissible' /\ Written'
    BY <1>1, <1>f, Marks DEF WorldInv, Authoring, Recording, Publishing, Moment, Away, Reading,
     Trusting, Skilled, Admissible, Written, Sound, InHand
<1>4. AtHome'
  BY <1>1, <1>f, AtHomeKept DEF Latest, Publishing
<1>5. Admitted'
  BY <1>1, <1>f, AdmittedKept DEF Latest, Past, Reading, Trusting
<1>6. Replayed'
  BY <1>1, <1>f, ReplayedKept DEF Latest, Past, Reading, Trusting
<1>7. Measured'
  BY <1>1, <1>f, Marks DEF WorldInv, WorldTypes, Measured, Admitted, Authoring, AtHome, Latest,
     Synced, Trusting, Capture, RunSet, Moment
<1>8. QED
  BY <1>2, <1>3, <1>4, <1>5, <1>6, <1>7 DEF WorldInv

LEMMA PublishCaptureKeeps ==
  ASSUME WorldInv, PublishCapture PROVE WorldInv'
<1>a. /\ UNCHANGED <<own, home, live, disk, pins, list, seals, run, swapped>> /\ home
      /\ cmd.pc \in {"idle", "published"} /\ used' = [used EXCEPT !.commands = @ + 1]
      /\ disk.cap # None
  BY DEF PublishCapture, Idle, Spend
<1>b. \/ /\ cmd' = [pc |-> "pin", at |-> None, file |-> None, added |-> {}] /\ repo' = repo
      \/ /\ repo' = repo \cup {[kind |-> "capture", name |-> disk.cap, holds |-> Cut, staged |-> FALSE, kept |-> FALSE]}
         /\ cmd' = [pc |-> "write", at |-> None, added |-> {},
                     file |-> [kind |-> "capture", name |-> disk.cap, next |-> "pin"]]
  BY DEF PublishCapture, Quiet
<1>e. run \in RunSet /\ disk \in DiskSet /\ cmd \in CmdSet /\ live \in 0..Moments
  BY DEF WorldInv, WorldTypes
<1>g. disk.cap \in Names /\ repo \subseteq FileSet
  BY <1>a, <1>e DEF DiskSet, Names, WorldInv, WorldTypes
<1>h. /\ [kind |-> "capture", name |-> disk.cap, next |-> "pin"] \in HandSet
      /\ [kind |-> "capture", name |-> disk.cap, holds |-> Cut, staged |-> FALSE, kept |-> FALSE] \in FileSet
  BY <1>g DEF FileSet, HandSet, Kinds
<1>i. repo' \subseteq FileSet /\ cmd' \in CmdSet
  <2>1. repo' \subseteq FileSet
    BY <1>b, <1>g, <1>h
  <2>2. cmd' \in CmdSet
    BY <1>b, <1>h DEF CmdSet, Publishing
  <2>3. QED
    BY <2>1, <2>2
<1>j. Part["capture"] = "cap"
  BY DEF Part
<1>1. /\ UNCHANGED <<own, home, live, disk, pins, list, seals, run, swapped>> /\ home
      /\ cmd.pc \in {"idle", "published"} /\ live \in Nat /\ disk.cap # None
      /\ cmd'.pc \in {"pin", "write"} /\ cmd'.added = {}
      /\ cmd'.pc = "write" => /\ cmd'.file.kind = "capture" /\ cmd'.file.name = disk.cap
                              /\ cmd'.file \in HandSet
      /\ \A f \in repo' : f \in repo \/ (~f.kept /\ ~f.staged)
  BY <1>a, <1>b, <1>e, <1>h
<1>2. WorldTypes'
  BY <1>1, <1>a, <1>i, Marks DEF WorldInv, WorldTypes
<1>3. Authoring' /\ Away' /\ Skilled' /\ Admissible' /\ Written'
    BY <1>1, Marks, <1>j DEF WorldInv, Authoring, Recording, Publishing, Away, Reading, Trusting,
     Skilled, Admissible, Written, Sound
<1>4. AtHome'
  BY <1>1, AtHomeKept DEF Latest, Publishing
<1>5. Admitted'
  BY <1>1, AdmittedKept DEF Latest, Past, Reading, Trusting
<1>6. Replayed'
  BY <1>1, ReplayedKept DEF Latest, Past, Reading, Trusting
<1>7. Measured'
  BY <1>1, Marks DEF WorldInv, WorldTypes, Measured, Admitted, Authoring, AtHome, Latest,
     Synced, Trusting, Capture, RunSet, Moment
<1>8. QED
  BY <1>2, <1>3, <1>4, <1>5, <1>6, <1>7 DEF WorldInv

LEMMA WriteFileKeeps ==
  ASSUME WorldInv, WriteFile PROVE WorldInv'
<1>a. /\ UNCHANGED <<own, home, live, used, disk, pins, list, seals, run, swapped>> /\ cmd.pc = "write"
      /\ repo' = {IF f.kind = cmd.file.kind /\ f.name = cmd.file.name
                    THEN [f EXCEPT !.holds = disk[Part[f.kind]]] ELSE f : f \in repo}
      /\ cmd' = [cmd EXCEPT !.pc = cmd.file.next, !.file = None,
                            !.added = @ \cup {<<cmd.file.kind, cmd.file.name>>}]
  BY DEF WriteFile
<1>e. run \in RunSet /\ disk \in DiskSet /\ cmd \in CmdSet /\ live \in 0..Moments
  BY DEF WorldInv, WorldTypes
<1>g. /\ cmd.file \in HandSet
      /\ repo \subseteq FileSet /\ home
  BY <1>a DEF WorldInv, WorldTypes, Authoring, Publishing
<1>k. /\ cmd.file.kind \in Kinds /\ cmd.file.name \in Names
      /\ cmd.file.next \in {"pin", "blocks", "commit"}
  BY <1>g DEF HandSet
<1>h. \A k \in Kinds : disk[Part[k]] \in Names \cup {None, Cut}
  BY <1>e DEF Part, Kinds, DiskSet, Names
<1>j. \A g \in repo' : \E f \in repo :
        /\ g.kind = f.kind /\ g.name = f.name /\ g.kept = f.kept /\ g.staged = f.staged
        /\ g \in FileSet
        /\ IF f.kind = cmd.file.kind /\ f.name = cmd.file.name
             THEN g.holds = disk[Part[f.kind]] ELSE g = f
  BY <1>a, <1>g, <1>h DEF FileSet
<1>i. repo' \subseteq FileSet /\ cmd' \in CmdSet
  <2>1. repo' \subseteq FileSet
    BY <1>j
  <2>2. cmd.added \cup {<<cmd.file.kind, cmd.file.name>>} \in SUBSET (Kinds \X Names)
    BY <1>e, <1>k DEF CmdSet
  <2>3. cmd' \in CmdSet
    BY <1>a, <1>e, <1>k, <2>2 DEF CmdSet, Publishing
  <2>4. QED
    BY <2>1, <2>3
<1>1. /\ UNCHANGED <<own, home, live, used, disk, pins, list, seals, run, swapped>> /\ home
      /\ cmd.pc = "write" /\ live \in Nat
      /\ cmd'.pc \in {"pin", "blocks", "commit"}
      /\ cmd'.added = cmd.added \cup {<<cmd.file.kind, cmd.file.name>>}
  BY <1>a, <1>e, <1>g, <1>k DEF CmdSet
<1>2. WorldTypes'
  BY <1>1, <1>i, Marks DEF WorldInv, WorldTypes
<1>3. Authoring' /\ Away' /\ Skilled' /\ Admissible' /\ Written'
    BY <1>1, Marks, <1>j DEF WorldInv, Authoring, Recording, Publishing, Moment, Away, Reading,
     Trusting, Skilled, Admissible, Written, Sound, InHand
<1>4. AtHome'
  <2>1. repo = {} => repo' = {}
    BY <1>a
  <2>2. QED
    BY <1>1, <2>1, Marks DEF WorldInv, AtHome, Latest, Publishing
<1>5. Admitted'
  BY <1>1, AdmittedKept DEF Latest, Past, Reading, Trusting
<1>6. Replayed'
  BY <1>1, ReplayedKept DEF Latest, Past, Reading, Trusting
<1>7. Measured'
  BY <1>1, Marks DEF WorldInv, WorldTypes, Measured, Admitted, Authoring, AtHome, Latest,
     Synced, Trusting, Capture, RunSet, Moment
<1>8. QED
  BY <1>2, <1>3, <1>4, <1>5, <1>6, <1>7 DEF WorldInv

LEMMA PinCaptureKeeps ==
  ASSUME WorldInv, PinCapture PROVE WorldInv'
<1>a. /\ UNCHANGED <<own, home, live, used, disk, list, repo, seals, run, swapped>> /\ cmd.pc = "pin"
      /\ cmd' = [cmd EXCEPT !.pc = "skill"] /\ pins' = [pins EXCEPT !.digest = disk.cap]
  BY DEF PinCapture, Go
<1>e. run \in RunSet /\ disk \in DiskSet /\ cmd \in CmdSet /\ live \in 0..Moments
  BY DEF WorldInv, WorldTypes
<1>g. pins \in PinSet /\ home
  BY <1>a DEF WorldInv, WorldTypes, Authoring, Publishing
<1>i. pins' \in PinSet /\ cmd' \in CmdSet
  BY <1>a, <1>e, <1>g DEF PinSet, DiskSet, CmdSet, Publishing
<1>1. /\ UNCHANGED <<own, home, live, used, disk, list, repo, seals, run, swapped>> /\ home
      /\ cmd.pc = "pin" /\ live \in Nat
      /\ cmd'.pc = "skill" /\ cmd'.added = cmd.added /\ pins'.block = pins.block
  BY <1>a, <1>e, <1>g DEF PinSet, CmdSet
<1>2. WorldTypes'
  BY <1>1, <1>i, Marks DEF WorldInv, WorldTypes
<1>3. Authoring' /\ Away' /\ Skilled' /\ Admissible' /\ Written'
    BY <1>1, Marks DEF WorldInv, Authoring, Recording, Publishing, Moment, Away, Reading,
     Trusting, Skilled, Admissible, Written, Sound, InHand
<1>4. AtHome'
  BY <1>1, AtHomeKept DEF Latest, Publishing
<1>5. Admitted'
  BY <1>1, AdmittedKept DEF Latest, Past, Reading, Trusting
<1>6. Replayed'
  BY <1>1, ReplayedKept DEF Latest, Past, Reading, Trusting
<1>7. Measured'
  BY <1>1, Marks DEF WorldInv, WorldTypes, Measured, Admitted, Authoring, AtHome, Latest,
     Synced, Trusting, Capture, RunSet, Moment
<1>8. QED
  BY <1>2, <1>3, <1>4, <1>5, <1>6, <1>7 DEF WorldInv

LEMMA PublishSkillKeeps ==
  ASSUME WorldInv, PublishSkill PROVE WorldInv'
<1>a. /\ UNCHANGED <<own, home, live, used, disk, pins, list, seals, run, swapped>> /\ cmd.pc = "skill"
  BY DEF PublishSkill
<1>b. \/ repo' = repo /\ cmd' = [cmd EXCEPT !.pc = "blocks"]
      \/ repo' = repo /\ cmd' = [pc |-> "idle", at |-> None, file |-> None, added |-> {}]
      \/ /\ pins.wiki # None /\ pins.wiki = disk.wiki
         /\ repo' = repo \cup {[kind |-> "skill", name |-> pins.wiki, holds |-> Cut, staged |-> FALSE, kept |-> FALSE]}
         /\ cmd' = [cmd EXCEPT !.pc = "write",
                                !.file = [kind |-> "skill", name |-> pins.wiki, next |-> "blocks"]]
  BY DEF PublishSkill, PutFile, Go, Quiet
<1>e. run \in RunSet /\ disk \in DiskSet /\ cmd \in CmdSet /\ live \in 0..Moments
  BY DEF WorldInv, WorldTypes
<1>g. pins \in PinSet /\ home /\ repo \subseteq FileSet
  BY <1>a DEF WorldInv, WorldTypes, Authoring, Publishing
<1>h. pins.wiki # None =>
        /\ [kind |-> "skill", name |-> pins.wiki, holds |-> Cut, staged |-> FALSE, kept |-> FALSE] \in FileSet
        /\ [kind |-> "skill", name |-> pins.wiki, next |-> "blocks"] \in HandSet
  BY <1>g DEF PinSet, Names, FileSet, HandSet, Kinds
<1>i. repo' \subseteq FileSet /\ cmd' \in CmdSet
  <2>1. repo' \subseteq FileSet
    BY <1>b, <1>g, <1>h
  <2>2. \A hand \in HandSet : [cmd EXCEPT !.pc = "write", !.file = hand] \in CmdSet
    BY <1>e DEF CmdSet, Publishing
  <2>3. /\ [cmd EXCEPT !.pc = "blocks"] \in CmdSet
        /\ [pc |-> "idle", at |-> None, file |-> None, added |-> {}] \in CmdSet
    BY <1>e DEF CmdSet, Publishing
  <2>4. QED
    BY <1>b, <1>h, <2>1, <2>2, <2>3
<1>j. Part["skill"] = "wiki"
  BY DEF Part
<1>k. \/ repo' = repo /\ cmd'.pc = "blocks" /\ cmd'.added = cmd.added
      \/ repo' = repo /\ cmd'.pc = "idle" /\ cmd'.added = {}
      \/ /\ cmd'.pc = "write" /\ cmd'.added = cmd.added /\ cmd'.file \in HandSet
         /\ cmd'.file.kind = "skill" /\ cmd'.file.name = disk.wiki
         /\ \A f \in repo' : f \in repo \/ (f.kind = "skill" /\ f.name = disk.wiki /\ ~f.kept /\ ~f.staged)
  <2>1. CASE repo' = repo /\ cmd' = [cmd EXCEPT !.pc = "blocks"]
    BY <2>1, <1>e DEF CmdSet
  <2>2. CASE repo' = repo /\ cmd' = [pc |-> "idle", at |-> None, file |-> None, added |-> {}]
    BY <2>2
  <2>3. CASE /\ pins.wiki # None /\ pins.wiki = disk.wiki
             /\ repo' = repo \cup {[kind |-> "skill", name |-> pins.wiki, holds |-> Cut, staged |-> FALSE, kept |-> FALSE]}
             /\ cmd' = [cmd EXCEPT !.pc = "write",
                                    !.file = [kind |-> "skill", name |-> pins.wiki, next |-> "blocks"]]
    <3>1. \A f \in repo' : f \in repo \/ (f.kind = "skill" /\ f.name = disk.wiki /\ ~f.kept /\ ~f.staged)
      BY <2>3
    <3>2. /\ cmd'.pc = "write" /\ cmd'.added = cmd.added
          /\ cmd'.file = [kind |-> "skill", name |-> pins.wiki, next |-> "blocks"]
      BY <2>3, <1>e DEF CmdSet
    <3>3. QED
      BY <3>1, <3>2, <2>3, <1>h
  <2>4. QED
    BY <1>b, <2>1, <2>2, <2>3
<1>1. /\ UNCHANGED <<own, home, live, used, disk, pins, list, seals, run, swapped>> /\ home
      /\ cmd.pc = "skill" /\ live \in Nat
      /\ cmd'.pc \in {"idle", "write", "blocks"}
  BY <1>a, <1>e, <1>g, <1>k
<1>2. WorldTypes'
  BY <1>1, <1>i, Marks DEF WorldInv, WorldTypes
<1>3. Authoring' /\ Away' /\ Skilled' /\ Admissible' /\ Written'
    BY <1>1, <1>k, Marks, <1>j DEF WorldInv, Authoring, Recording, Publishing, Away, Reading,
     Trusting, Skilled, Admissible, Written, Sound, InHand
<1>4. AtHome'
  <2>1. disk.cap # None
    BY <1>1 DEF WorldInv, AtHome, Publishing
  <2>2. QED
    BY <1>1, <2>1, AtHomeKept DEF Latest, Publishing
<1>5. Admitted'
  BY <1>1, AdmittedKept DEF Latest, Past, Reading, Trusting
<1>6. Replayed'
  BY <1>1, ReplayedKept DEF Latest, Past, Reading, Trusting
<1>7. Measured'
  BY <1>1, Marks DEF WorldInv, WorldTypes, Measured, Admitted, Authoring, AtHome, Latest,
     Synced, Trusting, Capture, RunSet, Moment
<1>8. QED
  BY <1>2, <1>3, <1>4, <1>5, <1>6, <1>7 DEF WorldInv

LEMMA PublishBlockKeeps ==
  ASSUME WorldInv, PublishBlock PROVE WorldInv'
<1>a. /\ UNCHANGED <<own, home, live, used, disk, pins, list, seals, run, swapped>> /\ cmd.pc = "blocks"
  BY DEF PublishBlock
<1>b. \/ repo' = repo /\ cmd' = [cmd EXCEPT !.pc = "commit"]
      \/ repo' = repo /\ cmd' = [pc |-> "idle", at |-> None, file |-> None, added |-> {}]
      \/ /\ pins.block # None /\ pins.block = disk.block
         /\ repo' = repo \cup {[kind |-> "metrics", name |-> pins.block, holds |-> Cut, staged |-> FALSE, kept |-> FALSE]}
         /\ cmd' = [cmd EXCEPT !.pc = "write",
                                !.file = [kind |-> "metrics", name |-> pins.block, next |-> "commit"]]
  BY DEF PublishBlock, PutFile, Go, Quiet
<1>e. run \in RunSet /\ disk \in DiskSet /\ cmd \in CmdSet /\ live \in 0..Moments
  BY DEF WorldInv, WorldTypes
<1>g. pins \in PinSet /\ home /\ repo \subseteq FileSet
  BY <1>a DEF WorldInv, WorldTypes, Authoring, Publishing
<1>h. pins.block # None =>
        /\ [kind |-> "metrics", name |-> pins.block, holds |-> Cut, staged |-> FALSE, kept |-> FALSE] \in FileSet
        /\ [kind |-> "metrics", name |-> pins.block, next |-> "commit"] \in HandSet
  BY <1>g DEF PinSet, Names, FileSet, HandSet, Kinds
<1>i. repo' \subseteq FileSet /\ cmd' \in CmdSet
  <2>1. repo' \subseteq FileSet
    BY <1>b, <1>g, <1>h
  <2>2. \A hand \in HandSet : [cmd EXCEPT !.pc = "write", !.file = hand] \in CmdSet
    BY <1>e DEF CmdSet, Publishing
  <2>3. /\ [cmd EXCEPT !.pc = "commit"] \in CmdSet
        /\ [pc |-> "idle", at |-> None, file |-> None, added |-> {}] \in CmdSet
    BY <1>e DEF CmdSet, Publishing
  <2>4. QED
    BY <1>b, <1>h, <2>1, <2>2, <2>3
<1>j. Part["metrics"] = "block"
  BY DEF Part
<1>k. \/ repo' = repo /\ cmd'.pc = "commit" /\ cmd'.added = cmd.added
      \/ repo' = repo /\ cmd'.pc = "idle" /\ cmd'.added = {}
      \/ /\ cmd'.pc = "write" /\ cmd'.added = cmd.added /\ cmd'.file \in HandSet
         /\ cmd'.file.kind = "metrics" /\ cmd'.file.name = disk.block
         /\ \A f \in repo' : f \in repo \/ (f.kind = "metrics" /\ f.name = disk.block /\ ~f.kept /\ ~f.staged)
  <2>1. CASE repo' = repo /\ cmd' = [cmd EXCEPT !.pc = "commit"]
    BY <2>1, <1>e DEF CmdSet
  <2>2. CASE repo' = repo /\ cmd' = [pc |-> "idle", at |-> None, file |-> None, added |-> {}]
    BY <2>2
  <2>3. CASE /\ pins.block # None /\ pins.block = disk.block
             /\ repo' = repo \cup {[kind |-> "metrics", name |-> pins.block, holds |-> Cut, staged |-> FALSE, kept |-> FALSE]}
             /\ cmd' = [cmd EXCEPT !.pc = "write",
                                    !.file = [kind |-> "metrics", name |-> pins.block, next |-> "commit"]]
    <3>1. \A f \in repo' : f \in repo \/ (f.kind = "metrics" /\ f.name = disk.block /\ ~f.kept /\ ~f.staged)
      BY <2>3
    <3>2. /\ cmd'.pc = "write" /\ cmd'.added = cmd.added
          /\ cmd'.file = [kind |-> "metrics", name |-> pins.block, next |-> "commit"]
      BY <2>3, <1>e DEF CmdSet
    <3>3. QED
      BY <3>1, <3>2, <2>3, <1>h
  <2>4. QED
    BY <1>b, <2>1, <2>2, <2>3
<1>1. /\ UNCHANGED <<own, home, live, used, disk, pins, list, seals, run, swapped>> /\ home
      /\ cmd.pc = "blocks" /\ live \in Nat
      /\ cmd'.pc \in {"idle", "write", "commit"}
  BY <1>a, <1>e, <1>g, <1>k
<1>2. WorldTypes'
  BY <1>1, <1>i, Marks DEF WorldInv, WorldTypes
<1>3. Authoring' /\ Away' /\ Skilled' /\ Admissible' /\ Written'
    BY <1>1, <1>k, Marks, <1>j DEF WorldInv, Authoring, Recording, Publishing, Away, Reading,
     Trusting, Skilled, Admissible, Written, Sound, InHand
<1>4. AtHome'
  <2>1. disk.cap # None
    BY <1>1 DEF WorldInv, AtHome, Publishing
  <2>2. QED
    BY <1>1, <2>1, AtHomeKept DEF Latest, Publishing
<1>5. Admitted'
  BY <1>1, AdmittedKept DEF Latest, Past, Reading, Trusting
<1>6. Replayed'
  BY <1>1, ReplayedKept DEF Latest, Past, Reading, Trusting
<1>7. Measured'
  BY <1>1, Marks DEF WorldInv, WorldTypes, Measured, Admitted, Authoring, AtHome, Latest,
     Synced, Trusting, Capture, RunSet, Moment
<1>8. QED
  BY <1>2, <1>3, <1>4, <1>5, <1>6, <1>7 DEF WorldInv

LEMMA StageKeeps ==
  ASSUME WorldInv, Stage PROVE WorldInv'
<1>a. /\ UNCHANGED <<own, home, live, used, disk, pins, list, seals, run, swapped>> /\ cmd.pc = "commit"
      /\ \/ repo' = repo
         \/ repo' = {[f EXCEPT !.staged = @ \/ f \in {e \in repo : <<e.kind, e.name>> \in cmd.added}] : f \in repo}
  BY DEF Stage, StageFiles
<1>b. \/ cmd' = [pc |-> "published", at |-> None, file |-> None, added |-> {}]
      \/ cmd' = [cmd EXCEPT !.pc = "staged"]
  BY DEF Stage, StageFiles, Quiet, Go
<1>e. run \in RunSet /\ disk \in DiskSet /\ cmd \in CmdSet /\ live \in 0..Moments
  BY DEF WorldInv, WorldTypes
<1>g. home /\ repo \subseteq FileSet
  BY <1>a DEF WorldInv, WorldTypes, Authoring, Publishing
<1>j. \A g \in repo' : \E f \in repo :
        /\ g \in FileSet /\ g.kind = f.kind /\ g.name = f.name /\ g.holds = f.holds
        /\ g.kept = f.kept
        /\ g.staged => f.staged \/ <<f.kind, f.name>> \in cmd.added
  <2>1. CASE repo' = repo
    BY <1>g, <2>1 DEF FileSet
  <2>2. CASE repo' = {[f EXCEPT !.staged = @ \/ f \in {e \in repo : <<e.kind, e.name>> \in cmd.added}] : f \in repo}
    <3>1. \A g \in repo' : \E f \in repo :
            /\ g \in FileSet /\ g.kind = f.kind /\ g.name = f.name /\ g.holds = f.holds
            /\ g.kept = f.kept
            /\ g.staged <=> f.staged \/ <<f.kind, f.name>> \in cmd.added
      BY <1>g, <2>2 DEF FileSet
    <3>2. QED
      BY <3>1
  <2>3. QED
    BY <1>a, <2>1, <2>2
<1>i. repo' \subseteq FileSet /\ cmd' \in CmdSet
  <2>1. repo' \subseteq FileSet
    BY <1>j
  <2>2. [pc |-> "published", at |-> None, file |-> None, added |-> {}] \in CmdSet
    BY DEF CmdSet
  <2>3. [cmd EXCEPT !.pc = "staged"] \in CmdSet
    BY <1>e DEF CmdSet, Publishing
  <2>4. QED
    BY <1>b, <2>1, <2>2, <2>3
<1>1. /\ UNCHANGED <<own, home, live, used, disk, pins, list, seals, run, swapped>> /\ home
      /\ cmd.pc = "commit" /\ live \in Nat /\ cmd'.pc \in {"published", "staged"}
      /\ cmd'.added \subseteq cmd.added
  BY <1>a, <1>b, <1>e, <1>g DEF CmdSet
<1>2. WorldTypes'
  BY <1>1, <1>i, Marks DEF WorldInv, WorldTypes
<1>3. Authoring' /\ Away' /\ Skilled' /\ Admissible'
    BY <1>1, Marks DEF WorldInv, Authoring, Recording, Publishing, Moment, Away, Reading,
     Trusting, Skilled, Admissible
<1>4. AtHome'
  <2>1. repo = {} => repo' = {}
    BY <1>a
  <2>2. QED
    BY <1>1, <2>1, Marks DEF WorldInv, AtHome, Latest, Publishing
<1>5. Admitted'
  BY <1>1, AdmittedKept DEF Latest, Past, Reading, Trusting
<1>6. Replayed'
  BY <1>1, ReplayedKept DEF Latest, Past, Reading, Trusting
<1>7. Measured'
  BY <1>1, Marks DEF WorldInv, WorldTypes, Measured, Admitted, Authoring, AtHome, Latest,
     Synced, Trusting, Capture, RunSet, Moment
<1>8. Written'
  <2>1. SUFFICES ASSUME NEW g \in repo'
                 PROVE  /\ g.kept \/ g.staged => Sound(g)'
                        /\ <<g.kind, g.name>> \in cmd'.added => Sound(g)'
    BY <1>1 DEF Written
  <2>2. PICK f \in repo : /\ g.kind = f.kind /\ g.name = f.name /\ g.holds = f.holds
                          /\ g.kept = f.kept
                          /\ g.staged => f.staged \/ <<f.kind, f.name>> \in cmd.added
    BY <1>j
  <2>3. f.kept \/ f.staged \/ <<f.kind, f.name>> \in cmd.added => Sound(f)
    BY <1>1 DEF WorldInv, Written, InHand
  <2>4. QED
    BY <1>1, <2>2, <2>3 DEF Sound
<1>9. QED
  BY <1>2, <1>3, <1>4, <1>5, <1>6, <1>7, <1>8 DEF WorldInv

LEMMA CommitKeeps ==
  ASSUME WorldInv, Commit PROVE WorldInv'
<1>a. /\ UNCHANGED <<own, home, live, used, disk, pins, list, seals, run, swapped>> /\ cmd.pc = "staged"
      /\ repo' = {[f EXCEPT !.kept = @ \/ f.staged] : f \in repo}
  BY DEF Commit
<1>b. cmd' = [pc |-> "published", at |-> None, file |-> None, added |-> {}]
  BY DEF Commit, Quiet
<1>e. run \in RunSet /\ disk \in DiskSet /\ cmd \in CmdSet /\ live \in 0..Moments
  BY DEF WorldInv, WorldTypes
<1>g. home /\ repo \subseteq FileSet
  BY <1>a DEF WorldInv, WorldTypes, Authoring, Publishing
<1>j. \A g \in repo' : \E f \in repo :
        /\ g \in FileSet /\ g.kind = f.kind /\ g.name = f.name /\ g.holds = f.holds
        /\ g.staged = f.staged /\ (g.kept \/ g.staged <=> f.kept \/ f.staged)
  BY <1>a, <1>g DEF FileSet
<1>i. repo' \subseteq FileSet /\ cmd' \in CmdSet
  BY <1>b, <1>j DEF CmdSet
<1>1. /\ UNCHANGED <<own, home, live, used, disk, pins, list, seals, run, swapped>> /\ home
      /\ cmd.pc = "staged" /\ live \in Nat /\ cmd'.pc = "published" /\ cmd'.added = {}
  BY <1>a, <1>b, <1>e, <1>g
<1>2. WorldTypes'
  BY <1>1, <1>i, Marks DEF WorldInv, WorldTypes
<1>3. Authoring' /\ Away' /\ Skilled' /\ Admissible'
    BY <1>1, Marks DEF WorldInv, Authoring, Recording, Publishing, Moment, Away, Reading,
     Trusting, Skilled, Admissible
<1>4. AtHome'
  <2>1. repo = {} => repo' = {}
    BY <1>a
  <2>2. QED
    BY <1>1, <2>1, Marks DEF WorldInv, AtHome, Latest, Publishing
<1>5. Admitted'
  BY <1>1, AdmittedKept DEF Latest, Past, Reading, Trusting
<1>6. Replayed'
  BY <1>1, ReplayedKept DEF Latest, Past, Reading, Trusting
<1>7. Measured'
  BY <1>1, Marks DEF WorldInv, WorldTypes, Measured, Admitted, Authoring, AtHome, Latest,
     Synced, Trusting, Capture, RunSet, Moment
<1>8. Written'
  <2>1. SUFFICES ASSUME NEW g \in repo', g.kept \/ g.staged PROVE Sound(g)'
    BY <1>1 DEF Written
  <2>2. PICK f \in repo : /\ g.kind = f.kind /\ g.name = f.name /\ g.holds = f.holds
                          /\ f.kept \/ f.staged
    BY <1>j, <2>1
  <2>3. Sound(f)
    BY <1>1, <2>2 DEF WorldInv, Written, InHand
  <2>4. QED
    BY <1>1, <2>2, <2>3 DEF Sound
<1>9. QED
  BY <1>2, <1>3, <1>4, <1>5, <1>6, <1>7, <1>8 DEF WorldInv

LEMMA FetchAllKeeps ==
  ASSUME WorldInv, FetchAll PROVE WorldInv'
<1>a. /\ UNCHANGED <<own, home, live, used, pins, list, repo, seals, cmd, run, swapped>>
      /\ cmd.pc \in {"idle", "published"}
  BY DEF FetchAll, Idle
<1>e. run \in RunSet /\ disk \in DiskSet /\ cmd \in CmdSet /\ live \in 0..Moments
  BY DEF WorldInv, WorldTypes
<1>g. pins \in PinSet
  BY DEF WorldInv, WorldTypes
<1>b. PICK d \in WithData(pins) :
        \E b \in Ensured("metrics", d.block, pins.block) : disk' = [d EXCEPT !.block = b]
  BY DEF FetchAll
<1>c. PICK b \in Ensured("metrics", d.block, pins.block) : disk' = [d EXCEPT !.block = b]
  BY <1>b
<1>d. b = d.block \/ b = pins.block
  BY EnsuredIsChecked
<1>h. /\ d \in DiskSet /\ d.block = disk.block /\ d.manifest = disk.manifest
      /\ d.cap = disk.cap \/ (disk.cap = None /\ pins.digest # None /\ d.cap = pins.digest /\ repo # {})
      /\ disk.wiki # None => d.wiki = disk.wiki
  BY <1>e, <1>g, DataIsChecked
<1>i. disk' \in DiskSet
  BY <1>c, <1>d, <1>g, <1>h DEF DiskSet, PinSet
<1>1. /\ UNCHANGED <<own, home, live, used, pins, list, repo, seals, cmd, run, swapped>>
      /\ cmd.pc \in {"idle", "published"} /\ live \in Nat
      /\ disk'.cap = disk.cap \/ (disk.cap = None /\ disk'.cap = pins.digest /\ repo # {})
      /\ disk.wiki # None => disk'.wiki = disk.wiki
      /\ disk'.manifest = disk.manifest /\ disk'.block \in {disk.block, pins.block}
  BY <1>a, <1>c, <1>d, <1>e, <1>h DEF DiskSet
<1>2. WorldTypes'
  BY <1>1, <1>i, Marks DEF WorldInv, WorldTypes
<1>3. Authoring' /\ Away' /\ Skilled' /\ Admissible' /\ Written'
    BY <1>1, Marks DEF WorldInv, Authoring, Recording, Publishing, Moment, Away, Reading,
     Trusting, Skilled, Admitted, Past, Admissible, Written, Sound, InHand
<1>4. AtHome'
  <2>1. home => disk'.cap = disk.cap
    BY <1>1 DEF WorldInv, AtHome
  <2>2. QED
    BY <1>1, <2>1, AtHomeKept DEF Latest, Publishing
<1>5. Admitted'
  BY <1>1, Marks DEF WorldInv, WorldTypes, Admitted, Authoring, AtHome, Latest, Past, Reading,
     Trusting, Capture, PinSet, RunSet, Moment
<1>6. Replayed'
  BY <1>1, Marks DEF WorldInv, WorldTypes, Replayed, Admitted, Authoring, AtHome, Latest, Past,
     Reading, Trusting, Synced, Capture, PinSet, RunSet, Moment
<1>7. Measured'
  BY <1>1, Marks DEF WorldInv, WorldTypes, Measured, Admitted, Authoring, AtHome, Latest,
     Synced, Trusting, Capture, RunSet, Moment
<1>8. QED
  BY <1>2, <1>3, <1>4, <1>5, <1>6, <1>7 DEF WorldInv

LEMMA ReferenceStartKeeps ==
  ASSUME WorldInv, ReferenceStart PROVE WorldInv'
<1>a. /\ UNCHANGED <<own, home, live, pins, list, repo, seals, run, swapped>>
      /\ cmd.pc \in {"idle", "published"} /\ used' = [used EXCEPT !.commands = @ + 1]
      /\ pins.block # None /\ disk' \in WithMetrics(pins.block)
  BY DEF ReferenceStart, Idle, Spend
<1>b. cmd' = [pc |-> "report", at |-> pins.block, file |-> None, added |-> {}]
  BY DEF ReferenceStart, Quiet
<1>e. run \in RunSet /\ disk \in DiskSet /\ cmd \in CmdSet /\ live \in 0..Moments
  BY DEF WorldInv, WorldTypes
<1>g. pins.block \in Moment
  BY <1>a DEF WorldInv, WorldTypes, PinSet
<1>h. /\ disk' \in DiskSet /\ disk'.cap = disk.cap /\ disk'.wiki = disk.wiki
      /\ disk'.manifest = disk.manifest /\ disk'.block \in {disk.block, pins.block}
  BY <1>a, <1>e, <1>g, MetricsAreChecked
<1>i. disk' \in DiskSet /\ cmd' \in CmdSet
  BY <1>b, <1>g, <1>h DEF CmdSet
<1>1. /\ UNCHANGED <<own, home, live, pins, list, repo, seals, run, swapped>>
      /\ cmd.pc \in {"idle", "published"} /\ live \in Nat
      /\ cmd'.pc = "report" /\ cmd'.at \in Moment /\ cmd'.added = {}
      /\ disk'.cap = disk.cap /\ disk'.wiki = disk.wiki
      /\ disk'.manifest = disk.manifest /\ disk'.block \in {disk.block, pins.block}
  BY <1>a, <1>b, <1>e, <1>g, <1>h
<1>2. WorldTypes'
  BY <1>1, <1>a, <1>i, Marks DEF WorldInv, WorldTypes
<1>3. Authoring' /\ Away' /\ Skilled' /\ Admissible' /\ Written'
    BY <1>1, Marks DEF WorldInv, Authoring, Recording, Publishing, Moment, Away, Reading,
     Trusting, Skilled, Admissible, Written, Sound, InHand
<1>4. AtHome'
  BY <1>1, AtHomeKept DEF Latest, Publishing
<1>5. Admitted'
  BY <1>1, AdmittedKept DEF Latest, Past, Reading, Trusting
<1>6. Replayed'
  BY <1>1, ReplayedKept DEF Latest, Past, Reading, Trusting
<1>7. Measured'
  BY <1>1, Marks DEF WorldInv, WorldTypes, Measured, Admitted, Authoring, AtHome, Latest,
     Synced, Trusting, Capture, RunSet, Moment
<1>8. QED
  BY <1>2, <1>3, <1>4, <1>5, <1>6, <1>7 DEF WorldInv

LEMMA ReferenceEndKeeps ==
  ASSUME WorldInv, ReferenceEnd PROVE WorldInv'
<1>a. /\ UNCHANGED <<own, home, live, used, pins, list, repo, seals, swapped>> /\ cmd.pc = "report"
      /\ disk' = [disk EXCEPT !.ref = cmd.at]
  BY DEF ReferenceEnd, Put
<1>b. cmd' = [pc |-> "idle", at |-> None, file |-> None, added |-> {}]
  BY DEF ReferenceEnd, Quiet
<1>d. /\ run' = run \/ run' = [run EXCEPT !.late = @ \cup {"ref"}]
      /\ run.pc \in Trusting => run' = [run EXCEPT !.late = @ \cup {"ref"}]
  BY DEF ReferenceEnd, Put
<1>e. run \in RunSet /\ disk \in DiskSet /\ cmd \in CmdSet /\ live \in 0..Moments
  BY DEF WorldInv, WorldTypes
<1>f. Beside("ref")
  BY <1>d, <1>e DEF Beside, RunSet, Parts
<1>g. cmd.at \in Moment
  BY <1>a DEF WorldInv, Authoring
<1>i. disk' \in DiskSet /\ cmd' \in CmdSet
  BY <1>a, <1>b, <1>e, <1>g DEF DiskSet, CmdSet
<1>1. /\ live \in Nat /\ cmd.pc = "report"
      /\ UNCHANGED <<own, home, live, used, pins, list, repo, seals, swapped>>
      /\ cmd'.pc = "idle" /\ cmd'.added = {}
      /\ disk'.cap = disk.cap /\ disk'.wiki = disk.wiki /\ disk'.block = disk.block
      /\ disk'.manifest = disk.manifest
      /\ Beside("ref")
  BY <1>a, <1>b, <1>e, <1>f DEF DiskSet
<1>2. WorldTypes'
  BY <1>1, <1>i, Marks DEF WorldInv, WorldTypes, Beside
<1>3. Authoring' /\ Away' /\ Skilled' /\ Admissible' /\ Written'
  <2>1. Authoring'
    BY <1>1, Marks DEF WorldInv, Authoring, Recording, Publishing, Moment
  <2>2. Away' /\ Skilled'
    BY <1>1, Marks DEF WorldInv, Away, Skilled, Reading, Trusting, Beside
  <2>3. Admissible' /\ Written'
    BY <1>1, Marks DEF WorldInv, Admissible, Written, Sound, InHand, Beside
  <2>4. QED
    BY <2>1, <2>2, <2>3
<1>4. AtHome'
  BY <1>1, AtHomeKept DEF Latest, Publishing, Beside
<1>5. Admitted'
  BY <1>1, AdmittedKept DEF Latest, Past, Reading, Trusting, Beside
<1>6. Replayed'
  BY <1>1, ReplayedKept DEF Latest, Past, Reading, Trusting, Beside
<1>7. Measured'
  BY <1>1, Marks DEF WorldInv, WorldTypes, Measured, Admitted, Authoring, AtHome, Latest,
     Synced, Trusting, Capture, RunSet, Moment, Beside
<1>8. QED
  BY <1>2, <1>3, <1>4, <1>5, <1>6, <1>7 DEF WorldInv

LEMMA ResultsEndKeeps ==
  ASSUME WorldInv, ResultsEnd PROVE WorldInv'
<1>a. /\ UNCHANGED <<own, home, live, used, pins, list, repo, seals, swapped>> /\ cmd.pc = "results"
      /\ disk' = [disk EXCEPT !.results = cmd.at]
  BY DEF ResultsEnd, Put
<1>b. cmd' = [pc |-> "idle", at |-> None, file |-> None, added |-> {}]
  BY DEF ResultsEnd, Quiet
<1>d. /\ run' = run \/ run' = [run EXCEPT !.late = @ \cup {"results"}]
      /\ run.pc \in Trusting => run' = [run EXCEPT !.late = @ \cup {"results"}]
  BY DEF ResultsEnd, Put
<1>e. run \in RunSet /\ disk \in DiskSet /\ cmd \in CmdSet /\ live \in 0..Moments
  BY DEF WorldInv, WorldTypes
<1>f. Beside("results")
  BY <1>d, <1>e DEF Beside, RunSet, Parts
<1>g. cmd.at \in Capture
  BY <1>a DEF WorldInv, Authoring
<1>i. disk' \in DiskSet /\ cmd' \in CmdSet
  BY <1>a, <1>b, <1>e, <1>g DEF DiskSet, CmdSet
<1>1. /\ live \in Nat /\ cmd.pc = "results"
      /\ UNCHANGED <<own, home, live, used, pins, list, repo, seals, swapped>>
      /\ cmd'.pc = "idle" /\ cmd'.added = {}
      /\ disk'.cap = disk.cap /\ disk'.wiki = disk.wiki /\ disk'.block = disk.block
      /\ disk'.manifest = disk.manifest
      /\ Beside("results")
  BY <1>a, <1>b, <1>e, <1>f DEF DiskSet
<1>2. WorldTypes'
  BY <1>1, <1>i, Marks DEF WorldInv, WorldTypes, Beside
<1>3. Authoring' /\ Away' /\ Skilled' /\ Admissible' /\ Written'
  <2>1. Authoring'
    BY <1>1, Marks DEF WorldInv, Authoring, Recording, Publishing, Moment
  <2>2. Away' /\ Skilled'
    BY <1>1, Marks DEF WorldInv, Away, Skilled, Reading, Trusting, Beside
  <2>3. Admissible' /\ Written'
    BY <1>1, Marks DEF WorldInv, Admissible, Written, Sound, InHand, Beside
  <2>4. QED
    BY <2>1, <2>2, <2>3
<1>4. AtHome'
  BY <1>1, AtHomeKept DEF Latest, Publishing, Beside
<1>5. Admitted'
  BY <1>1, AdmittedKept DEF Latest, Past, Reading, Trusting, Beside
<1>6. Replayed'
  BY <1>1, ReplayedKept DEF Latest, Past, Reading, Trusting, Beside
<1>7. Measured'
  BY <1>1, Marks DEF WorldInv, WorldTypes, Measured, Admitted, Authoring, AtHome, Latest,
     Synced, Trusting, Capture, RunSet, Moment, Beside
<1>8. QED
  BY <1>2, <1>3, <1>4, <1>5, <1>6, <1>7 DEF WorldInv

LEMMA ResultsStartKeeps ==
  ASSUME WorldInv, ResultsStart PROVE WorldInv'
<1>a. /\ UNCHANGED <<own, home, live, pins, list, repo, seals, run, swapped>>
      /\ cmd.pc \in {"idle", "published"} /\ used' = [used EXCEPT !.commands = @ + 1]
  BY DEF ResultsStart, Idle, Spend
<1>b. cmd' = [pc |-> "results", at |-> disk'.cap, file |-> None, added |-> {}]
  BY DEF ResultsStart, Quiet
<1>e. run \in RunSet /\ disk \in DiskSet /\ cmd \in CmdSet /\ live \in 0..Moments
  BY DEF WorldInv, WorldTypes
<1>g. pins \in PinSet
  BY DEF WorldInv, WorldTypes
<1>c. PICK d \in WithData(pins) :
        /\ d.cap \in Capture
        /\ disk' \in IF pins.block = None THEN {[d EXCEPT !.results = None]}
                     ELSE {[d EXCEPT !.results = None, !.block = m.block, !.cache = m.cache] :
                              m \in WithMetrics(pins.block)}
  BY DEF ResultsStart, Whole
<1>d. /\ d \in DiskSet /\ d.block = disk.block /\ d.manifest = disk.manifest
      /\ d.cap = disk.cap \/ (disk.cap = None /\ pins.digest # None /\ d.cap = pins.digest /\ repo # {})
      /\ disk.wiki # None => d.wiki = disk.wiki
  BY <1>e, <1>g, DataIsChecked
<1>h. /\ disk' \in DiskSet /\ disk'.cap = d.cap /\ disk'.wiki = d.wiki
      /\ disk'.manifest = d.manifest /\ disk'.block \in {disk.block, pins.block}
  <2>1. CASE pins.block = None
    BY <1>c, <1>d, <2>1 DEF DiskSet
  <2>2. CASE pins.block # None
    <3>1. PICK m \in WithMetrics(pins.block) :
            disk' = [d EXCEPT !.results = None, !.block = m.block, !.cache = m.cache]
      BY <1>c, <2>2
    <3>2. m \in DiskSet /\ m.block \in {disk.block, pins.block}
      BY <1>e, <1>g, <2>2, MetricsAreChecked DEF PinSet
    <3>3. QED
      BY <1>d, <3>1, <3>2 DEF DiskSet
  <2>3. QED
    BY <2>1, <2>2
<1>i. disk' \in DiskSet /\ cmd' \in CmdSet
  BY <1>b, <1>c, <1>h DEF CmdSet
<1>1. /\ UNCHANGED <<own, home, live, pins, list, repo, seals, run, swapped>>
      /\ cmd.pc \in {"idle", "published"} /\ live \in Nat
      /\ cmd'.pc = "results" /\ cmd'.at \in Capture /\ cmd'.added = {}
      /\ disk'.cap = disk.cap \/ (disk.cap = None /\ disk'.cap = pins.digest /\ repo # {})
      /\ disk.wiki # None => disk'.wiki = disk.wiki
      /\ disk'.manifest = disk.manifest /\ disk'.block \in {disk.block, pins.block}
  <2>1. disk'.cap = disk.cap \/ (disk.cap = None /\ disk'.cap = pins.digest /\ repo # {})
    BY <1>d, <1>h
  <2>2. cmd'.pc = "results" /\ cmd'.at \in Capture /\ cmd'.added = {}
    BY <1>b, <1>c, <1>h
  <2>3. QED
    BY <1>a, <1>d, <1>e, <1>h, <2>1, <2>2
<1>2. WorldTypes'
  BY <1>1, <1>a, <1>i, Marks DEF WorldInv, WorldTypes
<1>3. Authoring' /\ Away' /\ Skilled' /\ Admissible' /\ Written'
    BY <1>1, Marks DEF WorldInv, Authoring, Recording, Publishing, Moment, Away, Reading,
     Trusting, Skilled, Admitted, Past, Admissible, Written, Sound, InHand
<1>4. AtHome'
  <2>1. home => disk'.cap = disk.cap
    BY <1>1 DEF WorldInv, AtHome
  <2>2. QED
    BY <1>1, <2>1, AtHomeKept DEF Latest, Publishing
<1>5. Admitted'
  BY <1>1, Marks DEF WorldInv, WorldTypes, Admitted, Authoring, AtHome, Latest, Past, Reading,
     Trusting, Capture, PinSet, RunSet, Moment
<1>6. Replayed'
  <2>1. CASE run.pc \in Past
    <3>1. disk'.cap = disk.cap
      BY <1>1, <2>1 DEF WorldInv, Admitted
    <3>2. QED
      BY <1>1, <3>1, ReplayedKept DEF Latest, Past, Reading, Trusting
  <2>2. CASE run.pc \notin Past
    BY <1>1, <2>2 DEF Replayed, Past, Synced, Reading, Trusting
  <2>3. QED
    BY <2>1, <2>2
<1>7. Measured'
  BY <1>1, Marks DEF WorldInv, WorldTypes, Measured, Admitted, Authoring, AtHome, Latest,
     Synced, Trusting, Capture, RunSet, Moment
<1>8. QED
  BY <1>2, <1>3, <1>4, <1>5, <1>6, <1>7 DEF WorldInv

LEMMA ElsewhereKeeps ==
  ASSUME WorldInv, Elsewhere PROVE WorldInv'
<1>a. /\ UNCHANGED <<own, live, used, pins, list, repo, seals, swapped>> /\ home' = FALSE
      /\ run' = NoRun
  BY DEF Elsewhere
<1>b. cmd' = [pc |-> "idle", at |-> None, file |-> None, added |-> {}]
  BY DEF Elsewhere, Quiet
<1>c. disk' = [cap |-> None, wiki |-> None, block |-> None, manifest |-> disk.manifest,
               ref |-> disk.ref, results |-> disk.results, cache |-> {}]
  BY DEF Elsewhere, NoDisk
<1>e. run \in RunSet /\ disk \in DiskSet /\ cmd \in CmdSet /\ live \in 0..Moments
  BY DEF WorldInv, WorldTypes
<1>i. disk' \in DiskSet /\ cmd' \in CmdSet /\ run' \in RunSet
  BY <1>a, <1>b, <1>c, <1>e, NoRunFields DEF DiskSet, CmdSet
<1>1. /\ UNCHANGED <<own, live, used, pins, list, repo, seals, swapped>> /\ home' = FALSE
      /\ live \in Nat /\ cmd'.pc = "idle" /\ cmd'.added = {}
      /\ disk'.cap = None /\ run'.pc = "idle" /\ run'.seal = None
  BY <1>a, <1>b, <1>c, <1>e, NoRunFields
<1>2. WorldTypes'
  BY <1>1, <1>i, Marks DEF WorldInv, WorldTypes
<1>3. Authoring' /\ Away' /\ Skilled' /\ Admissible' /\ Written'
    BY <1>1, Marks DEF WorldInv, Authoring, Recording, Publishing, Moment, Away, Reading,
     Trusting, Skilled, Admissible, Written, Sound, InHand
<1>4. AtHome'
  BY <1>1, Marks DEF WorldInv, WorldTypes, AtHome, Authoring, Latest, Publishing, Capture,
     DiskSet, PinSet, RunSet, Moment
<1>5. Admitted'
  BY <1>1, Marks DEF WorldInv, WorldTypes, Admitted, Authoring, AtHome, Latest, Past, Reading,
     Trusting, Capture, PinSet, RunSet, Moment
<1>6. Replayed'
  BY <1>1, Marks DEF WorldInv, WorldTypes, Replayed, Admitted, Authoring, AtHome, Latest, Past,
     Reading, Trusting, Synced, Capture, PinSet, RunSet, Moment
<1>7. Measured'
  BY <1>1, Marks DEF WorldInv, WorldTypes, Measured, Admitted, Authoring, AtHome, Latest,
     Synced, Trusting, Capture, RunSet, Moment
<1>8. QED
  BY <1>2, <1>3, <1>4, <1>5, <1>6, <1>7 DEF WorldInv

LEMMA SealKeeps ==
  ASSUME WorldInv, Seal PROVE WorldInv'
<1>a. /\ UNCHANGED <<own, home, live, disk, pins, list, repo, cmd, run, swapped>>
      /\ used' = [used EXCEPT !.commands = @ + 1]
      /\ seals' = Append(seals, [truth |-> pins, list |-> list])
  BY DEF Seal, Spend, Sealed
<1>e. run \in RunSet /\ disk \in DiskSet /\ cmd \in CmdSet /\ live \in 0..Moments
  BY DEF WorldInv, WorldTypes
<1>g. [truth |-> pins, list |-> list] \in SealSet
  BY DEF WorldInv, WorldTypes, SealSet
<1>i. seals' \in Seq(SealSet)
  BY <1>a, <1>g DEF WorldInv, WorldTypes
<1>1. UNCHANGED <<own, home, live, disk, pins, list, repo, cmd, run, swapped>> /\ live \in Nat
  BY <1>a, <1>e
<1>2. WorldTypes'
  BY <1>1, <1>a, <1>i, Marks DEF WorldInv, WorldTypes
<1>3. Authoring' /\ Away' /\ Skilled' /\ Admissible' /\ Written'
    BY <1>1, Marks DEF WorldInv, Authoring, Recording, Publishing, Moment, Away, Reading,
     Trusting, Skilled, Admissible, Written, Sound, InHand
<1>4. AtHome'
  BY <1>1, AtHomeKept DEF Latest, Publishing
<1>5. Admitted'
  BY <1>1, AdmittedKept DEF Latest, Past, Reading, Trusting
<1>6. Replayed'
  BY <1>1, ReplayedKept DEF Latest, Past, Reading, Trusting
<1>7. Measured'
  BY <1>1, Marks DEF WorldInv, WorldTypes, Measured, Admitted, Authoring, AtHome, Latest,
     Synced, Trusting, Capture, RunSet, Moment
<1>8. QED
  BY <1>2, <1>3, <1>4, <1>5, <1>6, <1>7 DEF WorldInv

LEMMA RunLoadKeeps ==
  ASSUME WorldInv, RunLoad PROVE WorldInv'
<1>a. /\ UNCHANGED <<own, home, live, disk, pins, list, repo, seals, cmd, swapped>>
      /\ used' = [used EXCEPT !.runs = @ + 1]
  BY DEF RunLoad
<1>e. run \in RunSet /\ disk \in DiskSet /\ cmd \in CmdSet /\ live \in 0..Moments
  BY DEF WorldInv, WorldTypes
<1>g. pins \in PinSet /\ seals \in Seq(SealSet)
  BY DEF WorldInv, WorldTypes
<1>h. /\ run' \in RunSet /\ run'.pc = "loaded" /\ run'.truth = pins /\ run'.block = None
      /\ run'.seal # None => run'.truth = run'.seal.truth /\ list = run'.seal.list
  <2>1. CASE run' = [NoRun EXCEPT !.pc = "loaded", !.truth = pins]
    <3>1. run' = [pc |-> "loaded", truth |-> pins, seal |-> None, cap |-> None, block |-> None,
                  manifest |-> None, wiki |-> None, stamp |-> None, against |-> None,
                  list |-> 0, late |-> {}]
      BY <2>1 DEF NoRun
    <3>2. QED
      BY <1>g, <3>1 DEF RunSet
  <2>2. CASE /\ seals # <<>> /\ Unmoved(seals[Len(seals)])
             /\ run' = [NoRun EXCEPT !.pc = "loaded", !.truth = pins, !.seal = seals[Len(seals)]]
    <3>1. seals[Len(seals)] \in SealSet
      BY <1>g, <2>2
    <3>2. run' = [pc |-> "loaded", truth |-> pins, seal |-> seals[Len(seals)], cap |-> None,
                  block |-> None, manifest |-> None, wiki |-> None, stamp |-> None,
                  against |-> None, list |-> 0, late |-> {}]
      BY <2>2 DEF NoRun
    <3>3. run' \in RunSet
      BY <1>g, <3>1, <3>2 DEF RunSet
    <3>4. run'.pc = "loaded" /\ run'.truth = pins /\ run'.block = None
          /\ run'.seal = seals[Len(seals)]
      BY <3>2
    <3>5. seals[Len(seals)].truth = pins /\ seals[Len(seals)].list = list
      BY <2>2 DEF Unmoved
    <3>6. QED
      BY <3>3, <3>4, <3>5
  <2>3. QED
    BY <2>1, <2>2 DEF RunLoad
<1>1. /\ UNCHANGED <<own, home, live, disk, pins, list, repo, seals, cmd, swapped>>
      /\ live \in Nat
  BY <1>a, <1>e
<1>2. WorldTypes'
  BY <1>1, <1>a, <1>h, Marks DEF WorldInv, WorldTypes
<1>3. Authoring' /\ Away' /\ Skilled' /\ Admissible' /\ Written'
    BY <1>1, <1>h, Marks DEF WorldInv, Authoring, Recording, Publishing, Moment, Away, Reading,
     Trusting, Skilled, Admissible, Written, Sound, InHand
<1>4. AtHome'
  BY <1>1, <1>h, AtHomeKept DEF Latest, Publishing
<1>5. Admitted'
  BY <1>1, <1>h, AdmittedKept DEF Latest, Past, Reading, Trusting
<1>6. Replayed'
  BY <1>1, <1>h, ReplayedKept DEF Latest, Past, Reading, Trusting
<1>7. Measured'
  BY <1>1, <1>h, Marks DEF WorldInv, WorldTypes, Measured, Admitted, Authoring, AtHome, Latest,
     Synced, Trusting, Capture, RunSet, Moment
<1>8. QED
  BY <1>2, <1>3, <1>4, <1>5, <1>6, <1>7 DEF WorldInv

LEMMA RunCheckKeeps ==
  ASSUME WorldInv, RunCheck PROVE WorldInv'
<1>a. /\ UNCHANGED <<own, home, live, used, pins, list, repo, seals, cmd, swapped>> /\ run.pc = "loaded"
  BY DEF RunCheck
<1>e. run \in RunSet /\ disk \in DiskSet /\ cmd \in CmdSet /\ live \in 0..Moments
  BY DEF WorldInv, WorldTypes
<1>g. run.truth \in PinSet /\ (~home => run.truth = pins)
  BY <1>a, <1>e DEF RunSet, WorldInv, Away
<1>b. \/ disk' = disk /\ run' = NoRun
      \/ disk' \in WithData(run.truth) /\ run' = NoRun
      \/ /\ disk' \in WithData(run.truth) /\ run' = [run EXCEPT !.pc = "checked"]
         /\ SkillCurrent(run.truth, disk') /\ MetricsCurrent(run.truth, disk')
         /\ disk'.cap \in Capture /\ disk'.cap.at = run.truth.at
  BY DEF RunCheck, Refuse, CheckTruthIsCurrent, Whole
<1>h. /\ disk' \in DiskSet /\ disk'.block = disk.block /\ disk'.manifest = disk.manifest
      /\ \/ disk'.cap = disk.cap
         \/ disk.cap = None /\ run.truth.digest # None /\ disk'.cap = run.truth.digest /\ repo # {}
      /\ disk.wiki # None => disk'.wiki = disk.wiki
  BY <1>b, <1>e, <1>g, DataIsChecked
<1>c. /\ run' \in RunSet /\ (run' = NoRun \/ run'.pc = "checked")
      /\ run'.pc = "checked" =>
           /\ run'.truth = run.truth /\ run'.seal = run.seal /\ run'.late = run.late
           /\ run'.block = run.block
           /\ disk'.cap \in Capture /\ disk'.cap.at = run.truth.at /\ run.truth.wiki # None
           /\ run.truth.block # None => run.truth.block = run.truth.at
  BY <1>b, <1>e, NoRunFields DEF RunSet, SkillCurrent, MetricsCurrent
<1>1. /\ UNCHANGED <<own, home, live, used, pins, list, repo, seals, cmd, swapped>> /\ run.pc = "loaded"
      /\ live \in Nat
      /\ \/ disk'.cap = disk.cap
         \/ disk.cap = None /\ disk'.cap = run.truth.digest /\ repo # {}
      /\ disk'.block = disk.block /\ disk'.manifest = disk.manifest
      /\ run' \in RunSet /\ disk' \in DiskSet
      /\ \/ run'.pc = "idle" /\ run'.truth = NoPins /\ run'.seal = None
         \/ /\ run'.pc = "checked" /\ run'.truth = run.truth /\ run'.seal = run.seal
            /\ run'.late = run.late /\ run'.block = run.block
            /\ disk'.cap \in Capture /\ disk'.cap.at = run.truth.at /\ run.truth.wiki # None
            /\ run.truth.block # None => run.truth.block = run.truth.at
  BY <1>a, <1>c, <1>e, <1>h, NoRunFields
<1>2. WorldTypes'
  BY <1>1, Marks DEF WorldInv, WorldTypes
<1>3. Authoring' /\ Away' /\ Skilled' /\ Admissible' /\ Written'
    BY <1>1, NoRunFields, Marks, <1>g, <1>b, FetchKeepsWritten DEF WorldInv, Authoring, Recording,
     Publishing, Moment, Away, Reading, Trusting, Skilled, Admissible, Written, Sound, InHand
<1>4. AtHome'
  <2>1. home => disk'.cap = disk.cap
    BY <1>1 DEF WorldInv, AtHome
  <2>2. QED
    BY <1>1, <2>1, NoRunFields, AtHomeKept DEF Latest, Publishing
<1>5. Admitted'
  <2>1. CASE run'.pc = "idle"
    BY <2>1 DEF Admitted, Past, Reading, Trusting
  <2>2. CASE run'.pc = "checked"
    <3>1. disk'.cap \in Capture /\ disk'.cap.at = run.truth.at /\ run.truth.at \in Nat
      BY <1>1, <2>2, Marks DEF Capture
    <3>2. cmd.pc # "fill"
      BY <1>1, <3>1, Marks DEF WorldInv, Authoring
    <3>3. Latest' = run.truth.at
      BY <1>1, <3>1, <3>2 DEF Latest
    <3>4. QED
      BY <1>1, <2>2, <3>1, <3>3, Marks DEF Admitted
  <2>3. QED
    BY <1>1, <2>1, <2>2
<1>6. Replayed'
  BY <1>1, NoRunFields, Marks DEF WorldInv, WorldTypes, Replayed, Admitted, Authoring, AtHome,
     Latest, Past, Reading, Trusting, Synced, Capture, PinSet, RunSet, Moment
<1>7. Measured'
  BY <1>1, NoRunFields, Marks DEF WorldInv, WorldTypes, Measured, Admitted, Authoring, AtHome,
     Latest, Synced, Trusting, Capture, RunSet, Moment
<1>8. QED
  BY <1>2, <1>3, <1>4, <1>5, <1>6, <1>7 DEF WorldInv

LEMMA RunReplayKeeps ==
  ASSUME WorldInv, RunReplay PROVE WorldInv'
<1>a. /\ UNCHANGED <<own, home, live, used, disk, pins, list, repo, seals, cmd, swapped>>
      /\ run.pc = "checked"
      /\ \/ run' = NoRun
         \/ run' = [run EXCEPT !.pc = "replaying", !.cap = disk.cap] /\ disk.cap \in Capture
  BY DEF RunReplay, Whole
<1>e. run \in RunSet /\ disk \in DiskSet /\ cmd \in CmdSet /\ live \in 0..Moments
  BY DEF WorldInv, WorldTypes
<1>1. /\ UNCHANGED <<own, home, live, used, disk, pins, list, repo, seals, cmd, swapped>>
      /\ run.pc = "checked" /\ live \in Nat /\ run' \in RunSet
      /\ \/ run'.pc = "idle" /\ run'.truth = NoPins /\ run'.seal = None
         \/ /\ run'.pc = "replaying" /\ run'.truth = run.truth /\ run'.seal = run.seal
            /\ run'.late = run.late /\ run'.cap = disk.cap /\ disk.cap \in Capture
            /\ run'.block = run.block
  <2>1. CASE run' = NoRun
    BY <1>a, <1>e, <2>1, NoRunFields
  <2>2. CASE run' = [run EXCEPT !.pc = "replaying", !.cap = disk.cap] /\ disk.cap \in Capture
    <3>1. run' \in RunSet
      BY <1>e, <2>2 DEF RunSet, Reading
    <3>2. QED
      BY <1>a, <1>e, <2>2, <3>1 DEF RunSet
  <2>3. QED
    BY <1>a, <2>1, <2>2
<1>2. WorldTypes'
  BY <1>1, Marks DEF WorldInv, WorldTypes
<1>3. Authoring' /\ Away' /\ Skilled' /\ Admissible' /\ Written'
    BY <1>1, NoRunFields, Marks DEF WorldInv, Authoring, Recording, Publishing, Moment, Away,
     Reading, Trusting, Skilled, Admissible, Written, Sound, InHand
<1>4. AtHome'
  BY <1>1, NoRunFields, AtHomeKept DEF Latest, Publishing
<1>5. Admitted'
  BY <1>1, NoRunFields, AdmittedKept DEF Latest, Past, Reading, Trusting
<1>6. Replayed'
  <2>1. CASE run'.pc = "idle"
    BY <2>1 DEF Replayed, Past, Reading, Synced, Trusting
  <2>2. CASE run'.pc = "replaying"
    <3>1. disk.cap \in Capture /\ disk.cap.at \in Nat /\ cmd.pc # "fill"
      BY <1>1, <2>2, Marks DEF WorldInv, Authoring, Capture
    <3>2. Latest = disk.cap.at /\ Latest' = disk.cap.at
      BY <1>1, <3>1 DEF Latest
    <3>3. run.truth.at \in Nat /\ run.truth.at =< disk.cap.at
      BY <1>1, <3>2, Marks DEF WorldInv, WorldTypes, Admitted, RunSet, PinSet, Moment
    <3>4. QED
      BY <1>1, <2>2, <3>1, <3>2, <3>3, Marks DEF Replayed, Past, Reading, Synced, Trusting
  <2>3. QED
    BY <1>1, <2>1, <2>2
<1>7. Measured'
  BY <1>1, NoRunFields, Marks DEF WorldInv, WorldTypes, Measured, Admitted, Authoring, AtHome,
     Latest, Synced, Trusting, Capture, RunSet, Moment
<1>8. QED
  BY <1>2, <1>3, <1>4, <1>5, <1>6, <1>7 DEF WorldInv

LEMMA RefuseKeeps ==
  ASSUME WorldInv, Refuse,
         UNCHANGED <<own, home, live, used, disk, pins, list, repo, seals, cmd, swapped>>
  PROVE  WorldInv'
<1>e. run \in RunSet /\ disk \in DiskSet /\ cmd \in CmdSet /\ live \in 0..Moments
  BY DEF WorldInv, WorldTypes
<1>1. /\ UNCHANGED <<own, home, live, used, disk, pins, list, repo, seals, cmd, swapped>>
      /\ live \in Nat /\ run' \in RunSet
      /\ run'.pc = "idle" /\ run'.truth = NoPins /\ run'.seal = None
  BY <1>e, NoRunFields DEF Refuse
<1>2. WorldTypes'
  BY <1>1, Marks DEF WorldInv, WorldTypes
<1>3. Authoring' /\ Away' /\ Skilled' /\ Admissible' /\ Written'
    BY <1>1, NoRunFields, Marks DEF WorldInv, Authoring, Recording, Publishing, Moment, Away,
     Reading, Trusting, Skilled, Admissible, Written, Sound, InHand
<1>4. AtHome'
  BY <1>1, NoRunFields, AtHomeKept DEF Latest, Publishing
<1>5. Admitted' /\ Replayed' /\ Measured'
  BY <1>1 DEF Admitted, Replayed, Measured, Past, Reading, Synced, Trusting
<1>6. QED
  BY <1>2, <1>3, <1>4, <1>5 DEF WorldInv

LEMMA RunUploadKeeps ==
  ASSUME WorldInv, RunUpload PROVE WorldInv'
<1>r. CASE Refuse
  BY <1>r, RefuseKeeps DEF RunUpload
<1>s. SUFFICES ASSUME ~Refuse PROVE WorldInv'
  BY <1>r
<1>a. /\ UNCHANGED <<own, home, live, used, disk, pins, list, repo, seals, cmd, swapped>>
      /\ run.pc = "synced" /\ run' = [run EXCEPT !.pc = "uploaded", !.wiki = disk.wiki]
  BY <1>s DEF RunUpload
<1>e. run \in RunSet /\ disk \in DiskSet /\ cmd \in CmdSet /\ live \in 0..Moments
  BY DEF WorldInv, WorldTypes
<1>g. disk.wiki \in Capture \cup {None, Torn}
  BY <1>e DEF DiskSet
<1>1. /\ UNCHANGED <<own, home, live, used, disk, pins, list, repo, seals, cmd, swapped>>
      /\ run.pc = "synced" /\ live \in Nat /\ run' \in RunSet
      /\ run'.pc = "uploaded" /\ run'.truth = run.truth /\ run'.seal = run.seal
      /\ run'.late = run.late /\ run'.cap = run.cap /\ run'.block = run.block
      /\ run'.manifest = run.manifest /\ run'.wiki = disk.wiki
  <2>1. run' \in RunSet
    BY <1>a, <1>e, <1>g DEF RunSet, Reading, Trusting
  <2>2. QED
    BY <1>a, <1>e, <2>1 DEF RunSet
<1>2. WorldTypes'
  BY <1>1, Marks DEF WorldInv, WorldTypes
<1>3. Authoring' /\ Away' /\ Skilled' /\ Admissible' /\ Written'
    BY <1>1, Marks DEF WorldInv, Authoring, Recording, Publishing, Moment, Away, Reading,
     Trusting, Skilled, Admissible, Written, Sound, InHand
<1>4. AtHome'
  BY <1>1, AtHomeKept DEF Latest, Publishing
<1>5. Admitted'
  BY <1>1, AdmittedKept DEF Latest, Past, Reading, Trusting
<1>6. Replayed'
  BY <1>1, ReplayedKept DEF Latest, Past, Reading, Trusting
<1>7. Measured'
  BY <1>1, Marks DEF WorldInv, WorldTypes, Measured, Admitted, Authoring, AtHome, Latest,
     Synced, Trusting, Capture, RunSet, Moment
<1>8. QED
  BY <1>2, <1>3, <1>4, <1>5, <1>6, <1>7 DEF WorldInv

LEMMA RunStampKeeps ==
  ASSUME WorldInv, RunStamp PROVE WorldInv'
<1>r. CASE Refuse
  BY <1>r, RefuseKeeps DEF RunStamp
<1>s. SUFFICES ASSUME ~Refuse PROVE WorldInv'
  BY <1>r
<1>a. /\ UNCHANGED <<own, home, live, used, disk, pins, list, repo, seals, cmd, swapped>>
      /\ run.pc = "uploaded" /\ run' = [run EXCEPT !.pc = "stamped", !.stamp = disk.wiki]
  BY <1>s DEF RunStamp
<1>e. run \in RunSet /\ disk \in DiskSet /\ cmd \in CmdSet /\ live \in 0..Moments
  BY DEF WorldInv, WorldTypes
<1>g. disk.wiki \in Capture \cup {None, Torn}
  BY <1>e DEF DiskSet
<1>1. /\ UNCHANGED <<own, home, live, used, disk, pins, list, repo, seals, cmd, swapped>>
      /\ run.pc = "uploaded" /\ live \in Nat /\ run' \in RunSet
      /\ run'.pc = "stamped" /\ run'.truth = run.truth /\ run'.seal = run.seal
      /\ run'.late = run.late /\ run'.cap = run.cap /\ run'.block = run.block
      /\ run'.manifest = run.manifest /\ run'.wiki = run.wiki /\ run'.stamp = disk.wiki
  <2>1. run' \in RunSet
    BY <1>a, <1>e, <1>g DEF RunSet, Reading, Trusting
  <2>2. QED
    BY <1>a, <1>e, <2>1 DEF RunSet
<1>2. WorldTypes'
  BY <1>1, Marks DEF WorldInv, WorldTypes
<1>3. Authoring' /\ Away' /\ Skilled' /\ Admissible' /\ Written'
    BY <1>1, Marks DEF WorldInv, Authoring, Recording, Publishing, Moment, Away, Reading,
     Trusting, Skilled, Admissible, Written, Sound, InHand
<1>4. AtHome'
  BY <1>1, AtHomeKept DEF Latest, Publishing
<1>5. Admitted'
  BY <1>1, AdmittedKept DEF Latest, Past, Reading, Trusting
<1>6. Replayed'
  BY <1>1, ReplayedKept DEF Latest, Past, Reading, Trusting
<1>7. Measured'
  BY <1>1, Marks DEF WorldInv, WorldTypes, Measured, Admitted, Authoring, AtHome, Latest,
     Synced, Trusting, Capture, RunSet, Moment
<1>8. QED
  BY <1>2, <1>3, <1>4, <1>5, <1>6, <1>7 DEF WorldInv

LEMMA RunGradeKeeps ==
  ASSUME WorldInv, RunGrade PROVE WorldInv'
<1>a. /\ UNCHANGED <<own, home, live, used, disk, pins, list, repo, seals, cmd, swapped>>
      /\ run.pc = "stamped"
      /\ \/ run' = NoRun
         \/ /\ run' = [run EXCEPT !.pc = "graded", !.against = disk.cap, !.list = list]
            /\ disk.cap \in Capture
  BY DEF RunGrade, Whole
<1>e. run \in RunSet /\ disk \in DiskSet /\ cmd \in CmdSet /\ live \in 0..Moments
  BY DEF WorldInv, WorldTypes
<1>g. list \in Nat
  BY DEF WorldInv, WorldTypes
<1>1. /\ UNCHANGED <<own, home, live, used, disk, pins, list, repo, seals, cmd, swapped>>
      /\ run.pc = "stamped" /\ live \in Nat /\ run' \in RunSet
      /\ \/ run'.pc = "idle" /\ run'.truth = NoPins /\ run'.seal = None
         \/ /\ run'.pc = "graded" /\ run'.truth = run.truth /\ run'.seal = run.seal
            /\ run'.late = run.late /\ run'.cap = run.cap /\ run'.block = run.block
            /\ run'.manifest = run.manifest /\ run'.wiki = run.wiki /\ run'.stamp = run.stamp
            /\ run'.against = disk.cap /\ run'.list = list
  <2>1. CASE run' = NoRun
    BY <1>a, <1>e, <2>1, NoRunFields
  <2>2. CASE run' = [run EXCEPT !.pc = "graded", !.against = disk.cap, !.list = list] /\ disk.cap \in Capture
    <3>1. run' \in RunSet
      BY <1>e, <1>g, <2>2 DEF RunSet
    <3>2. QED
      BY <1>a, <1>e, <2>2, <3>1 DEF RunSet
  <2>3. QED
    BY <1>a, <2>1, <2>2
<1>2. WorldTypes'
  BY <1>1, Marks DEF WorldInv, WorldTypes
<1>3. Authoring' /\ Away' /\ Skilled' /\ Admissible' /\ Written'
    BY <1>1, NoRunFields, Marks DEF WorldInv, Authoring, Recording, Publishing, Moment, Away,
     Reading, Trusting, Skilled, Admissible, Written, Sound, InHand
<1>4. AtHome'
  BY <1>1, NoRunFields, AtHomeKept DEF Latest, Publishing
<1>5. Admitted'
  BY <1>1, NoRunFields, AdmittedKept DEF Latest, Past, Reading, Trusting
<1>6. Replayed'
  <2>1. CASE run'.pc = "idle"
    BY <2>1 DEF Replayed, Past, Synced, Reading, Trusting
  <2>2. CASE run'.pc = "graded"
    <3>1. /\ run'.truth = run.truth /\ run'.cap = run.cap /\ run'.late = run.late
          /\ run'.against = disk.cap
      BY <1>1, <2>2
    <3>2. run.cap # None /\ run.cap.at >= run.truth.at /\ run.cap.at = run.truth.at
      BY <1>1 DEF WorldInv, Replayed, Past, Synced, Reading, Trusting
    <3>3. "cap" \notin run.late => disk.cap = run.cap
      BY <1>1 DEF WorldInv, Replayed, Trusting
    <3>4. QED
      BY <2>2, <3>1, <3>2, <3>3 DEF Replayed, Past, Synced, Reading, Trusting
  <2>3. QED
    BY <1>1, <2>1, <2>2
<1>7. Measured'
  BY <1>1, NoRunFields, Marks DEF WorldInv, WorldTypes, Measured, Admitted, Authoring, AtHome,
     Latest, Synced, Trusting, Capture, RunSet, Moment
<1>8. QED
  BY <1>2, <1>3, <1>4, <1>5, <1>6, <1>7 DEF WorldInv

LEMMA RunMetricsKeeps ==
  ASSUME WorldInv, RunMetrics PROVE WorldInv'
<1>a. /\ UNCHANGED <<own, home, live, used, pins, list, repo, seals, cmd>> /\ run.pc = "replaying"
      /\ swapped' = IF disk'.block # disk.block /\ cmd.pc = "write" /\ cmd.file.kind = "metrics"
                      THEN swapped \cup {cmd.file.name} ELSE swapped
  BY DEF RunMetrics
<1>e. run \in RunSet /\ disk \in DiskSet /\ cmd \in CmdSet /\ live \in 0..Moments
  BY DEF WorldInv, WorldTypes
<1>b. \/ run.truth.block = None /\ run' = [run EXCEPT !.pc = "measured"] /\ disk' = disk
      \/ run' = NoRun /\ disk' = disk
      \/ /\ run.truth.block # None /\ disk' \in WithMetrics(run.truth.block)
         /\ run' = [run EXCEPT !.pc = "measured", !.manifest = disk.manifest,
                      !.block = IF run.truth.block \in disk.cache THEN run.truth.block ELSE disk'.block]
  BY DEF RunMetrics, Refuse
<1>g. run.truth.block \in Moment \cup {None} /\ run.block = None
  BY <1>a, <1>e DEF RunSet, PinSet, WorldInv, Measured
<1>h. /\ disk' \in DiskSet /\ disk'.cap = disk.cap /\ disk'.wiki = disk.wiki
      /\ disk'.manifest = disk.manifest
      /\ disk'.block = disk.block \/ (run.truth.block # None /\ disk'.block = run.truth.block)
      /\ run'.pc = "measured" /\ run.truth.block # None /\ run.truth.block \notin disk.cache =>
           disk'.block = run.truth.block
  <2>1. CASE disk' = disk
    BY <1>b, <1>e, <2>1, NoRunFields, MetricsAreChecked, <1>g
  <2>2. CASE run.truth.block # None /\ disk' \in WithMetrics(run.truth.block)
    BY <1>e, <1>g, <2>2, MetricsAreChecked
  <2>3. QED
    BY <1>b, <2>1, <2>2
<1>c. /\ run' \in RunSet
      /\ \/ run'.pc = "idle" /\ run'.truth = NoPins /\ run'.seal = None
         \/ /\ run'.pc = "measured" /\ run'.truth = run.truth /\ run'.seal = run.seal
            /\ run'.late = run.late /\ run'.cap = run.cap /\ run'.block = run.truth.block
            /\ run.truth.block # None => run'.manifest = disk.manifest
  <2>1. CASE run.truth.block = None /\ run' = [run EXCEPT !.pc = "measured"] /\ disk' = disk
    <3>1. run' \in RunSet
      BY <1>e, <2>1 DEF RunSet, Reading
    <3>2. QED
      BY <1>e, <1>g, <2>1, <3>1 DEF RunSet
  <2>2. CASE run' = NoRun
    BY <2>2, NoRunFields
  <2>3. CASE /\ run.truth.block # None /\ disk' \in WithMetrics(run.truth.block)
             /\ run' = [run EXCEPT !.pc = "measured", !.manifest = disk.manifest,
                          !.block = IF run.truth.block \in disk.cache THEN run.truth.block ELSE disk'.block]
    <3>1. run.truth.block \in Moment
      BY <1>g, <2>3
    <3>2. run.truth.block \notin disk.cache => disk'.block = run.truth.block
      BY <1>e, <2>3, <3>1, MetricsAreChecked
    <3>3. run' = [run EXCEPT !.pc = "measured", !.manifest = disk.manifest, !.block = run.truth.block]
      BY <2>3, <3>2
    <3>4. disk.manifest \in Moment \cup {None}
      BY <1>e DEF DiskSet
    <3>5. run' \in RunSet
      BY <1>e, <3>1, <3>3, <3>4 DEF RunSet, Reading
    <3>6. QED
      BY <1>e, <3>3, <3>5 DEF RunSet
  <2>4. QED
    BY <1>b, <2>1, <2>2, <2>3
<1>1. /\ UNCHANGED <<own, home, live, used, pins, list, repo, seals, cmd>> /\ run.pc = "replaying"
      /\ live \in Nat /\ disk' \in DiskSet /\ disk'.cap = disk.cap /\ disk'.wiki = disk.wiki
      /\ disk'.manifest = disk.manifest
      /\ disk'.block = disk.block \/ (run.truth.block # None /\ disk'.block = run.truth.block)
      /\ run' \in RunSet
      /\ \/ run'.pc = "idle" /\ run'.truth = NoPins /\ run'.seal = None
         \/ /\ run'.pc = "measured" /\ run'.truth = run.truth /\ run'.seal = run.seal
            /\ run'.late = run.late /\ run'.cap = run.cap /\ run'.block = run.truth.block
            /\ run.truth.block # None => run'.manifest = disk.manifest
  BY <1>a, <1>c, <1>e, <1>h
<1>2. WorldTypes'
  BY <1>1, Marks DEF WorldInv, WorldTypes
<1>3. Authoring' /\ Away' /\ Skilled' /\ Admissible'
    BY <1>1, NoRunFields, Marks DEF WorldInv, Authoring, Recording, Publishing, Moment, Away,
     Reading, Trusting, Skilled, Admissible
<1>4. AtHome'
  BY <1>1, NoRunFields, AtHomeKept DEF Latest, Publishing
<1>5. Admitted'
  BY <1>1, NoRunFields, AdmittedKept DEF Latest, Past, Reading, Trusting
<1>6. Replayed'
  BY <1>1, NoRunFields, ReplayedKept DEF Latest, Past, Reading, Trusting
<1>7. Measured'
  BY <1>1, NoRunFields, Marks DEF WorldInv, WorldTypes, Measured, Admitted, Authoring, AtHome,
     Latest, Synced, Trusting, Capture, RunSet, Moment
<1>8. Written'
  <2>1. swapped \subseteq swapped'
    BY <1>a
  <2>2. CASE cmd.pc = "write"
    <3>1. cmd.file.kind \in Kinds
      BY <2>2 DEF WorldInv, Authoring, HandSet
    <3>2. CASE cmd.file.kind = "metrics"
      <4>1. disk'.block # disk.block => cmd.file.name \in swapped'
        BY <1>a, <2>2, <3>2
      <4>2. cmd.file.name = disk.block \/ cmd.file.name \in swapped
        BY <2>2, <3>2 DEF WorldInv, Written, Part
      <4>3. cmd.file.name = disk'[Part[cmd.file.kind]] \/ cmd.file.name \in swapped'
        BY <2>1, <3>2, <4>1, <4>2 DEF Part
      <4>4. QED
        BY <1>1, <2>1, <3>2, <4>3 DEF WorldInv, Written, Sound, InHand
    <3>3. CASE cmd.file.kind # "metrics"
      <4>1. disk'[Part[cmd.file.kind]] = disk[Part[cmd.file.kind]]
        BY <1>1, <3>1, <3>3 DEF Part, Kinds
      <4>2. QED
        BY <1>1, <2>1, <3>3, <4>1 DEF WorldInv, Written, Sound, InHand
    <3>4. QED
      BY <3>2, <3>3
  <2>3. CASE cmd.pc # "write"
    BY <1>1, <2>1, <2>3 DEF WorldInv, Written, Sound, InHand
  <2>4. QED
    BY <2>2, <2>3
<1>9. QED
  BY <1>2, <1>3, <1>4, <1>5, <1>6, <1>7, <1>8 DEF WorldInv

LEMMA RunSyncKeeps ==
  ASSUME WorldInv, RunSync PROVE WorldInv'
<1>a. /\ UNCHANGED <<own, home, live, used, pins, list, repo, seals, cmd, swapped>> /\ run.pc = "measured"
  BY DEF RunSync
<1>e. run \in RunSet /\ disk \in DiskSet /\ cmd \in CmdSet /\ live \in 0..Moments
  BY DEF WorldInv, WorldTypes
<1>g. run.truth \in PinSet /\ disk.cap # None
  BY <1>a, <1>e DEF RunSet, WorldInv, Admitted, Past, Reading
<1>b. \/ disk' = disk /\ run' = NoRun
      \/ disk' \in WithData(run.truth) /\ run' = NoRun
      \/ /\ disk' \in WithData(run.truth) /\ run' = [run EXCEPT !.pc = "synced"]
         /\ SkillCurrent(run.truth, disk') /\ disk'.cap \in Capture /\ disk'.cap.at = run.truth.at
  BY DEF RunSync, Refuse, CheckTruthIsCurrent, Whole
<1>h. /\ disk' \in DiskSet /\ disk'.block = disk.block /\ disk'.manifest = disk.manifest
      /\ disk'.cap = disk.cap
  BY <1>b, <1>e, <1>g, DataIsChecked
<1>c. /\ run' \in RunSet
      /\ \/ run'.pc = "idle" /\ run'.truth = NoPins /\ run'.seal = None
         \/ /\ run'.pc = "synced" /\ run'.truth = run.truth /\ run'.seal = run.seal
            /\ run'.late = run.late /\ run'.cap = run.cap /\ run'.block = run.block
            /\ run'.manifest = run.manifest
            /\ disk'.cap \in Capture /\ disk'.cap.at = run.truth.at /\ disk'.wiki = run.truth.wiki
  <2>1. CASE run' = NoRun
    BY <2>1, NoRunFields
  <2>2. CASE /\ run' = [run EXCEPT !.pc = "synced"] /\ SkillCurrent(run.truth, disk')
             /\ disk'.cap \in Capture /\ disk'.cap.at = run.truth.at
    <3>1. run' \in RunSet
      BY <1>e, <2>2 DEF RunSet, Reading, Trusting
    <3>2. QED
      BY <1>e, <2>2, <3>1 DEF RunSet, SkillCurrent
  <2>3. QED
    BY <1>b, <2>1, <2>2
<1>1. /\ UNCHANGED <<own, home, live, used, pins, list, repo, seals, cmd, swapped>> /\ run.pc = "measured"
      /\ live \in Nat /\ disk' \in DiskSet /\ run' \in RunSet
      /\ disk'.block = disk.block /\ disk'.manifest = disk.manifest /\ disk'.cap = disk.cap
      /\ \/ run'.pc = "idle" /\ run'.truth = NoPins /\ run'.seal = None
         \/ /\ run'.pc = "synced" /\ run'.truth = run.truth /\ run'.seal = run.seal
            /\ run'.late = run.late /\ run'.cap = run.cap /\ run'.block = run.block
            /\ run'.manifest = run.manifest
            /\ disk'.cap \in Capture /\ disk'.cap.at = run.truth.at /\ disk'.wiki = run.truth.wiki
  BY <1>a, <1>c, <1>e, <1>h
<1>j. run'.pc = "synced" =>
        /\ cmd.pc # "fill" /\ Latest = run.truth.at /\ Latest' = run.truth.at
        /\ run.truth.at \in Nat /\ run.cap \in Capture /\ run.cap.at = run.truth.at
  <2>1. SUFFICES ASSUME run'.pc = "synced"
                 PROVE  /\ cmd.pc # "fill" /\ Latest = run.truth.at /\ Latest' = run.truth.at
                        /\ run.truth.at \in Nat /\ run.cap \in Capture /\ run.cap.at = run.truth.at
    OBVIOUS
  <2>2. disk.cap \in Capture /\ disk.cap.at = run.truth.at /\ run.truth.at \in Nat
    BY <1>1, <2>1, Marks DEF Capture
  <2>3. cmd.pc # "fill"
    BY <2>2, Marks DEF WorldInv, Authoring
  <2>4. Latest = run.truth.at /\ Latest' = run.truth.at
    BY <1>1, <2>2, <2>3 DEF Latest
  <2>5. run.cap \in Capture /\ run.cap.at \in Nat
    BY <1>1, <1>e, Marks DEF WorldInv, Replayed, Past, Reading, RunSet, Capture
  <2>6. run.truth.at =< run.cap.at /\ run.cap.at =< Latest
    BY <1>1, <2>2, <2>5 DEF WorldInv, Replayed, Past, Reading
  <2>7. QED
    BY <2>2, <2>3, <2>4, <2>5, <2>6
<1>2. WorldTypes'
  BY <1>1, Marks DEF WorldInv, WorldTypes
<1>3. Authoring' /\ Away' /\ Skilled' /\ Admissible' /\ Written'
    BY <1>1, <1>j, NoRunFields, Marks, <1>b, <1>g, FetchKeepsWritten DEF WorldInv, Authoring,
     Recording, Publishing, Moment, Away, Reading, Trusting, Skilled, Admissible, Written, Sound,
     InHand
<1>4. AtHome'
  BY <1>1, <1>j, NoRunFields, AtHomeKept DEF Latest, Publishing
<1>5. Admitted'
  BY <1>1, <1>j, NoRunFields, AdmittedKept DEF Latest, Past, Reading, Trusting
<1>6. Replayed'
  <2>1. CASE run'.pc = "idle"
    BY <2>1 DEF Replayed, Past, Synced, Reading, Trusting
  <2>2. CASE run'.pc = "synced"
    <3>1. /\ run'.cap = run.cap /\ run'.late = run.late /\ run'.truth.at = run.truth.at
          /\ cmd'.pc # "fill" /\ disk'.cap = disk.cap
      BY <1>1, <1>j, <2>2
    <3>2. run.cap # None /\ run.cap.at = run.truth.at
      BY <1>j, <2>2, Marks
    <3>3. "cap" \notin run.late => disk.cap = run.cap
      <4>1. ~(run.cap.at < Latest)
        BY <1>j, <2>2
      <4>2. QED
        BY <1>1, <4>1 DEF WorldInv, Replayed
    <3>4. run'.cap # None /\ run'.cap.at >= run'.truth.at
      BY <1>j, <2>2, <3>1, <3>2
    <3>5. QED
      BY <2>2, <3>1, <3>2, <3>3, <3>4 DEF Replayed, Past, Synced, Reading, Trusting
  <2>3. QED
    BY <1>1, <2>1, <2>2
<1>7. Measured'
  <2>1. CASE run'.pc = "idle"
    BY <2>1 DEF Measured, Synced, Trusting
  <2>2. CASE run'.pc = "synced"
    <3>1. /\ run'.block = run.block /\ run'.manifest = run.manifest /\ run'.truth = run.truth
          /\ home' = home /\ run.block = run.truth.block
      BY <1>1, <2>2 DEF WorldInv, Measured
    <3>2. home /\ run.block # None => run.manifest = run.block
      <4>1. SUFFICES ASSUME home, run.block # None PROVE run.manifest = run.block
        OBVIOUS
      <4>2. run.manifest # None /\ run.block =< run.manifest /\ run.manifest =< Latest
        BY <1>1, <4>1 DEF WorldInv, Measured
      <4>3. run.block = run.truth.at
        BY <1>1, <3>1, <4>1 DEF WorldInv, Admitted, Past, Reading
      <4>4. run.manifest \in Nat
        BY <1>e, <4>2, Marks DEF RunSet, Moment
      <4>5. QED
        BY <1>j, <2>2, <4>2, <4>3, <4>4
    <3>3. QED
      BY <2>2, <3>1, <3>2 DEF Measured, Synced, Trusting
  <2>3. QED
    BY <1>1, <2>1, <2>2
<1>8. QED
  BY <1>2, <1>3, <1>4, <1>5, <1>6, <1>7 DEF WorldInv
-----------------------------------------------------------------------------
LEMMA InitSatisfiesWorldInv ==
  ASSUME Init PROVE WorldInv
<1>1. /\ home /\ own \in BOOLEAN /\ live = 0 /\ list = 0 /\ repo = {} /\ seals = <<>> /\ swapped = {}
      /\ used = [commands |-> 0, runs |-> 0] /\ disk = NoDisk /\ pins = NoPins
      /\ cmd = Quiet /\ run = NoRun
  BY DEF Init
<1>2. /\ disk \in DiskSet /\ disk.cap = None /\ disk.block = None /\ disk.manifest = None
      /\ cmd \in CmdSet /\ cmd.pc = "idle"
  BY <1>1 DEF NoDisk, DiskSet, Quiet, CmdSet
<1>3. WorldTypes
  BY <1>1, <1>2, NoRunFields, Marks DEF WorldTypes
<1>4. Authoring
  BY <1>2 DEF Authoring, Recording, Publishing
<1>5. AtHome
  BY <1>1, <1>2, NoRunFields, Marks DEF AtHome, Latest, Publishing, Capture
<1>6. Away /\ Admitted /\ Replayed /\ Measured /\ Skilled /\ Admissible
  BY <1>1, NoRunFields DEF Away, Admitted, Replayed, Measured, Skilled, Admissible,
     Past, Synced, Reading, Trusting, NoRun
<1>7. Written
  BY <1>1, <1>2 DEF Written
<1>8. QED
  BY <1>3, <1>4, <1>5, <1>6, <1>7 DEF WorldInv

LEMMA AuthorKeepsWorldInv ==
  ASSUME WorldInv, Author PROVE WorldInv'
BY RecordStartKeeps, RecordEndKeeps, RecordManifestKeeps, RecordBlockKeeps, RecordCacheKeeps,
   SkillStartKeeps, BuildWikiKeeps, SkillEndKeeps, BackfillStartKeeps, BackfillEndKeeps,
   StopKeeps, ReviewKeeps, EditListKeeps, SealKeeps, PublishCaptureKeeps, WriteFileKeeps,
   PinCaptureKeeps, PublishSkillKeeps, PublishBlockKeeps, StageKeeps, CommitKeeps, FetchAllKeeps,
   ReferenceStartKeeps, ReferenceEndKeeps, ResultsStartKeeps, ResultsEndKeeps, ElsewhereKeeps
   DEF Author

LEMMA RunnerKeepsWorldInv ==
  ASSUME WorldInv, Runner PROVE WorldInv'
BY RunLoadKeeps, RunCheckKeeps, RunReplayKeeps, RunMetricsKeeps, RunSyncKeeps, RunUploadKeeps,
   RunStampKeeps, RunGradeKeeps DEF Runner

LEMMA WorldStutterKeeps ==
  ASSUME WorldInv, UNCHANGED vars PROVE WorldInv'
<1>1. UNCHANGED <<own, home, live, used, disk, pins, list, repo, seals, cmd, run, swapped>>
  BY DEF vars
<1>2. /\ WorldTypes' /\ Authoring' /\ Away' /\ Replayed' /\ Measured' /\ Skilled' /\ Admissible'
  BY <1>1 DEF WorldInv, WorldTypes, Authoring, Away, Replayed, Measured, Skilled, Admissible,
     Latest
<1>3. AtHome' /\ Admitted' /\ Written'
  BY <1>1 DEF WorldInv, AtHome, Admitted, Written, Latest, Sound, InHand
<1>4. QED
  BY <1>2, <1>3 DEF WorldInv

(* Every step of the author's commands and of a run keeps the invariant.   *)
THEOREM WorldInvariant == Spec => []WorldInv
<1>1. Init => WorldInv
  BY InitSatisfiesWorldInv
<1>2. WorldInv /\ [WorldNext]_vars => WorldInv'
  BY AuthorKeepsWorldInv, RunnerKeepsWorldInv, WorldStutterKeeps DEF WorldNext
<1>3. QED
  BY <1>1, <1>2, PTL DEF Spec

(* The state has its types: a capture, skill or block on disk is whole,    *)
(* torn or absent, never cut.                                              *)
THEOREM WorldTypeCorrect == Spec => []WorldTypes
<1>1. WorldInv => WorldTypes
  BY DEF WorldInv
<1>2. QED
  BY <1>1, WorldInvariant, PTL

(* run_once, check_truth_is_current: a graded run is about one moment,     *)
(* whatever is recorded, built or reviewed between its steps.              *)
THEOREM OneMomentHolds == Spec => []OneMoment
<1>1. ASSUME WorldInv PROVE OneMoment
  <2>1. SUFFICES ASSUME run.pc = "graded" PROVE OneMoment
    BY DEF OneMoment, Graded
  <2>2. run.cap.at = run.truth.at /\ run.block = run.truth.block
    BY <1>1, <2>1 DEF WorldInv, Replayed, Measured, Synced
  <2>3. run.block # None => run.block = run.truth.at
    BY <1>1, <2>1, <2>2 DEF WorldInv, Admitted, Past
  <2>4. run.block # None /\ home => run.manifest = run.block
    BY <1>1, <2>1 DEF WorldInv, Measured, Synced
  <2>5. "wiki" \notin run.late => run.wiki = run.truth.wiki /\ run.stamp = run.wiki
    BY <1>1, <2>1 DEF WorldInv, Skilled
  <2>6. QED
    BY <2>2, <2>3, <2>4, <2>5 DEF OneMoment
<1>2. QED
  BY <1>1, WorldInvariant, PTL

(* run_once: an answer is checked against the capture the agent read, or a *)
(* later one was written where no check looks.                             *)
THEOREM GradedAsSeenHolds == Spec => []GradedAsSeen
<1>1. WorldInv => GradedAsSeen
  BY DEF WorldInv, Replayed, GradedAsSeen, Graded
<1>2. QED
  BY <1>1, WorldInvariant, PTL

(* sources.ensure_data: a machine that only fetches never has a part of a  *)
(* file, and reads the published capture.                                  *)
THEOREM FetchedIsWholeHolds == Spec => []FetchedIsWhole
<1>1. WorldInv => FetchedIsWhole
  <2>1. ASSUME WorldInv PROVE Cut \notin {disk.cap, disk.wiki, disk.block}
    BY <2>1, Marks DEF WorldInv, WorldTypes, DiskSet, Moment
  <2>2. ASSUME WorldInv, ~home, Graded PROVE run.cap = pins.digest
    BY <2>2 DEF WorldInv, Away, Graded
  <2>3. QED
    BY <2>1, <2>2 DEF FetchedIsWhole
<1>2. QED
  BY <1>1, WorldInvariant, PTL

(* scenario publish: what is committed under a digest has it, but for a    *)
(* block that a run replaced under the copy.                               *)
THEOREM CommittedIsWholeHolds == Spec => []CommittedIsWhole
<1>1. WorldInv => CommittedIsWhole
  BY DEF WorldInv, Written, Sound, CommittedIsWhole
<1>2. QED
  BY <1>1, WorldInvariant, PTL

(* holdout score: a scored run went by the truth and the checklist it was  *)
(* sealed with.                                                            *)
THEOREM ScoredAsSealedHolds == Spec => []ScoredAsSealed
<1>1. WorldInv => ScoredAsSealed
  BY DEF WorldInv, Admissible, ScoredAsSealed, Graded
<1>2. QED
  BY <1>1, WorldInvariant, PTL
-----------------------------------------------------------------------------
(* The results of a scenario's runs.                                       *)
CommandSet == [op : {"idle", "run", "grade", "agree"}, truth : Version, code : Version,
               list : List \cup {NoList}, left : Nat, batch : Seq(Rec)]
ResultsSet == [taken : BOOLEAN, pin : Version \cup {0}, sha : List \cup {NoList},
               grader : 0..MaxVersion, of : Seq(Rec)]

ScoresTypes ==
  /\ cap \in Version /\ truth \in Version /\ checklist \in List /\ code \in Version
  /\ details \subseteq Rec /\ IsFiniteSet(details)
  /\ command \in CommandSet /\ (command.op = "grade" => command.left > 0 /\ command.list \in List)
  /\ {last, base, tabled} \subseteq ResultsSet
  /\ out \in {"none", "n/a", "changed", "compared"}
  /\ {forced, raced, moved, old} \subseteq BOOLEAN
  /\ edits \in Nat /\ commands \in Nat

(* A record says of its run what happened to it.                          *)
Honest(r) ==
  r.grader # 0 =>
    /\ r.by = r.grader /\ r.graded \in List
    /\ ~raced => r.graded = r.sha
    /\ ~raced /\ ~moved => r.saw = r.pin

(* What a command loaded when it began is still so, unless a file was edited. *)
InCommand ==
  ~raced =>
    /\ command.op \in {"run", "grade"} =>
         /\ command.truth = truth /\ command.code = code
         /\ \A r \in ToSet(command.batch) :
              r.pin = truth /\ (r.grader # 0 => r.sha = checklist /\ r.grader = code)
    /\ command.op = "grade" => command.list = checklist /\ cap = truth
    /\ command.op = "agree" => command.list = checklist

(* Results have the pins of every run they are of.                         *)
Uniform(p) ==
  ~raced /\ ~old =>
    \A r \in Scored(p.of) : r.pin = p.pin /\ r.sha = p.sha /\ r.grader = p.grader

(* What a table compared with the baseline has the baseline's pins.        *)
Compared ==
  out = "compared" /\ ~raced /\ ~old =>
    tabled.pin = base.pin /\ tabled.sha = base.sha /\ tabled.grader = base.grader

Agreed ==
  /\ \A a \in agreements : ~raced => a.graded = a.sha
  /\ base.grader # 0 /\ ~forced =>
       \E a \in agreements : a.passed /\ a.sha = base.sha /\ a.grader = base.grader

Faithful(p) == Uniform(p) /\ \A r \in Scored(p.of) : Honest(r)
Files == \A p \in {last, base, tabled} : Faithful(p)
Records == \A r \in details \cup ToSet(command.batch) : Honest(r)

ScoresInv == ScoresTypes /\ Records /\ Files /\ InCommand /\ Compared /\ Agreed

(* What a step may do to the history. *)
Monotone == (raced => raced') /\ (moved => moved') /\ (old => old')
-----------------------------------------------------------------------------
(* The first graded run of a batch exists when any was graded.             *)
LEMMA FirstIsScored ==
  ASSUME NEW batch \in Seq(Rec), Scored(batch) # {}
  PROVE  First(batch) \in Scored(batch)
<1> DEFINE S == {i \in DOMAIN batch : batch[i].grader # 0}
<1> DEFINE I == {1..i : i \in S}
<1>1. S # {} /\ S \subseteq Nat
  <2>1. DOMAIN batch \subseteq Nat
    OBVIOUS
  <2>2. PICK r \in ToSet(batch) : r.grader # 0
    BY DEF Scored
  <2>3. QED
    BY <2>1, <2>2 DEF ToSet
<1>2. I # {} /\ I \subseteq FiniteSubsetsOf(Nat)
  <2>1. ASSUME NEW i \in S PROVE 1..i \in FiniteSubsetsOf(Nat)
    <3>1. i \in Int /\ 1..i \subseteq Nat
      BY <1>1
    <3>2. IsFiniteSet(1..i)
      BY <3>1, FS_Interval
    <3>3. QED
      BY <3>1, <3>2 DEF FiniteSubsetsOf
  <2>2. QED
    BY <1>1, <2>1
<1>3. PICK x \in I : \A y \in I : ~(<<y, x>> \in StrictSubsetOrdering(Nat))
  <2>1. IsWellFoundedOn(StrictSubsetOrdering(Nat), FiniteSubsetsOf(Nat))
    BY FS_StrictSubsetOrderingWellFounded
  <2> HIDE DEF I
  <2>2. QED
    BY <1>2, <2>1, WFMin
<1>4. PICK i \in S : x = 1..i
  OBVIOUS
<1>5. ASSUME NEW j \in S, j < i PROVE FALSE
  <2>1. 1..j \subseteq 1..i /\ 1..j # 1..i /\ 1..j \in SUBSET Nat /\ 1..i \in SUBSET Nat
    <3>1. i \in Nat /\ j \in Nat
      BY <1>1
    <3>2. 1..j # 1..i
      <4>1. i \in 1..i /\ i \notin 1..j
        BY <3>1, <1>5
      <4>2. QED
        BY <4>1
    <3>3. QED
      BY <3>1, <3>2, <1>5
  <2>2. <<1..j, 1..i>> \in StrictSubsetOrdering(Nat)
    BY <2>1 DEF StrictSubsetOrdering
  <2>3. 1..j \in I
    OBVIOUS
  <2>4. QED
    BY <1>3, <1>4, <2>2, <2>3
<1>6. \E k \in DOMAIN batch :
        batch[k].grader # 0 /\ \A j \in DOMAIN batch : batch[j].grader # 0 => k <= j
  BY <1>1, <1>4, <1>5
<1>7. PICK k \in DOMAIN batch : First(batch) = batch[k] /\ batch[k].grader # 0
  BY <1>6 DEF First
<1>8. QED
  BY <1>7 DEF Scored, ToSet

LEMMA SequenceOfSet ==
  ASSUME NEW T, IsFiniteSet(T), T # {}
  PROVE  SetToSeq(T) \in Seq(T) /\ SetToSeq(T) # <<>> /\ ToSet(SetToSeq(T)) \subseteq T
<1> DEFINE n == Cardinality(T)
<1>1. n \in Nat /\ n # 0 /\ ExistsBijection(1..n, T)
  BY FS_CardinalityType, FS_EmptySet
<1>2. \E f \in [1..n -> T] : IsInjective(f)
  BY <1>1 DEF ExistsBijection, Bijection, Injection
<1>3. SetToSeq(T) \in [1..n -> T]
  BY <1>2 DEF SetToSeq
<1>4. QED
  BY <1>1, <1>3 DEF ToSet

LEMMA PayloadOfBatch ==
  ASSUME NEW batch \in Seq(Rec), batch # <<>>
  PROVE  /\ Payload(batch) \in ResultsSet /\ Payload(batch).of = batch
         /\ Payload(batch).pin = batch[1].pin /\ batch[1] \in ToSet(batch)
         /\ Scored(batch) # {} => /\ First(batch) \in Scored(batch)
                                  /\ Payload(batch).sha = First(batch).sha
                                  /\ Payload(batch).grader = First(batch).grader
         /\ Scored(batch) = {} => Payload(batch).grader = 0
<1>1. 1 \in DOMAIN batch /\ batch[1] \in Rec /\ ToSet(batch) \subseteq Rec
  BY DEF ToSet
<1>2. Scored(batch) # {} => First(batch) \in Scored(batch) /\ First(batch) \in Rec
  BY <1>1, FirstIsScored DEF Scored
<1>3. Payload(batch) =
        [taken |-> TRUE, pin |-> batch[1].pin, of |-> batch,
         sha |-> IF Scored(batch) = {} THEN NoList ELSE First(batch).sha,
         grader |-> IF Scored(batch) = {} THEN 0 ELSE First(batch).grader]
  BY DEF Payload
<1>4. batch[1] \in ToSet(batch)
  BY <1>1 DEF ToSet
<1>5. 0 \in 0..MaxVersion
  BY ScoresBounds
<1>6. Payload(batch) \in ResultsSet
  <2>1. CASE Scored(batch) = {}
    BY <1>1, <1>3, <1>5, <2>1 DEF ResultsSet, Rec
  <2>2. CASE Scored(batch) # {}
    BY <1>1, <1>2, <1>3, <2>2 DEF ResultsSet, Rec
  <2>3. QED
    BY <2>1, <2>2
<1>7. QED
  BY <1>2, <1>3, <1>4, <1>6

LEMMA Kept ==
  ASSUME NEW s \in Seq(Rec), NEW r \in Rec
  PROVE  Append(s, r) \in Seq(Rec) /\ ToSet(Append(s, r)) = ToSet(s) \cup {r}
<1>1. Append(s, r) \in Seq(Rec)
  OBVIOUS
<1>2. ASSUME NEW x \in ToSet(Append(s, r)) PROVE x \in ToSet(s) \cup {r}
  BY <1>2 DEF ToSet
<1>3. ASSUME NEW x \in ToSet(s) \cup {r} PROVE x \in ToSet(Append(s, r))
  <2>1. CASE x \in ToSet(s)
    BY <2>1 DEF ToSet
  <2>2. CASE x = r
    <3>1. Len(s) + 1 \in DOMAIN Append(s, r) /\ Append(s, r)[Len(s) + 1] = r
      OBVIOUS
    <3>2. QED
      BY <2>2, <3>1 DEF ToSet
  <2>3. QED
    BY <1>3, <2>1, <2>2
<1>4. QED
  BY <1>1, <1>2, <1>3

LEMMA HonestKept ==
  ASSUME NEW r, Honest(r), Monotone PROVE Honest(r)'
BY DEF Honest, Monotone

LEMMA FaithfulKept ==
  ASSUME NEW p, Faithful(p), Monotone PROVE Faithful(p)'
<1>1. Uniform(p)'
  BY DEF Faithful, Uniform, Monotone, Scored
<1>2. \A r \in Scored(p.of) : Honest(r)'
  BY HonestKept DEF Faithful
<1>3. QED
  BY <1>1, <1>2 DEF Faithful, Scored

LEMMA FilesKept ==
  ASSUME Files, Compared, UNCHANGED <<last, base, tabled, out>>, Monotone
  PROVE  Files' /\ Compared'
<1>1. \A p \in {last, base, tabled} : Faithful(p)'
  BY FaithfulKept DEF Files
<1>2. Files'
  BY <1>1 DEF Files
<1>3. Compared'
  BY DEF Compared, Monotone
<1>4. QED
  BY <1>2, <1>3

LEMMA AgreedKept ==
  ASSUME Agreed, UNCHANGED <<base, forced, agreements>>, Monotone
  PROVE  Agreed'
BY DEF Agreed, Monotone

LEMMA EmptyBatch == <<>> \in Seq(Rec) /\ ToSet(<<>>) = {} /\ Scored(<<>>) = {}
BY DEF ToSet, Scored

LEMMA NoListIsList == NoList \in List \cup {NoList}
OBVIOUS

LEMMA BeginKeeps ==
  ASSUME ScoresInv, NEW op \in {"run", "agree"}, Begin(op),
         UNCHANGED <<tree, details, results, agreements, history, edits>>
  PROVE  ScoresInv'
<1>1. /\ command' = [op |-> op, truth |-> truth, code |-> code, left |-> Attempts, batch |-> <<>>,
                     list |-> IF op = "agree" THEN checklist ELSE NoList]
      /\ commands' = commands + 1
      /\ UNCHANGED <<cap, truth, checklist, code, details, last, base, out, tabled, forced, agreements,
                     raced, moved, old, edits>>
  BY DEF Begin, tree, results, history
<1>2. Monotone
  BY <1>1 DEF Monotone
<1>3. command' \in CommandSet /\ command'.op # "grade" /\ command'.batch = <<>>
  BY <1>1, EmptyBatch, ScoresBounds DEF ScoresInv, ScoresTypes, CommandSet
<1>4. ScoresTypes'
  BY <1>1, <1>3 DEF ScoresInv, ScoresTypes
<1>5. Records'
  <2>1. ToSet(command'.batch) = {}
    BY <1>3, EmptyBatch
  <2>2. QED
    BY <1>1, <1>2, <2>1, HonestKept DEF ScoresInv, Records
<1>6. Files' /\ Compared' /\ Agreed'
  BY <1>1, <1>2, FilesKept, AgreedKept DEF ScoresInv
<1>7. InCommand'
  BY <1>1, <1>3, EmptyBatch DEF InCommand
<1>8. QED
  BY <1>4, <1>5, <1>6, <1>7 DEF ScoresInv

LEMMA StartRunKeeps ==
  ASSUME ScoresInv, StartRun PROVE ScoresInv'
BY BeginKeeps DEF StartRun

LEMMA StartAgreementKeeps ==
  ASSUME ScoresInv, StartAgreement PROVE ScoresInv'
BY BeginKeeps DEF StartAgreement

LEMMA AttemptKeeps ==
  ASSUME ScoresInv, Attempt PROVE ScoresInv'
<1>1. /\ command.op = "run" /\ command.left > 0
      /\ UNCHANGED <<cap, truth, checklist, code, details, last, base, out, tabled, forced, agreements,
                     raced, moved, old, edits, commands>>
  BY DEF Attempt, tree, results, history
<1>2. Monotone
  BY <1>1 DEF Monotone
<1>3. /\ command' \in CommandSet /\ command'.batch = command.batch
      /\ command'.truth = command.truth /\ command'.code = command.code
      /\ \/ command'.op = "run"
         \/ /\ command'.op = "grade" /\ command'.left > 0 /\ command'.list = checklist
            /\ command.truth = cap
  <2>1. command \in CommandSet /\ checklist \in List /\ command.left - 1 \in Nat
    BY <1>1 DEF ScoresInv, ScoresTypes, CommandSet
  <2>2. CASE command.truth # cap
    BY <1>1, <2>1, <2>2 DEF Attempt, CommandSet
  <2>3. CASE command.truth = cap
    BY <1>1, <2>1, <2>3 DEF Attempt, CommandSet
  <2>4. QED
    BY <2>2, <2>3
<1>4. ScoresTypes'
  BY <1>1, <1>3 DEF ScoresInv, ScoresTypes
<1>5. Records'
  BY <1>1, <1>2, <1>3, HonestKept DEF ScoresInv, Records
<1>6. Files' /\ Compared' /\ Agreed'
  BY <1>1, <1>2, FilesKept, AgreedKept DEF ScoresInv
<1>7. InCommand'
  BY <1>1, <1>3 DEF ScoresInv, InCommand
<1>8. QED
  BY <1>4, <1>5, <1>6, <1>7 DEF ScoresInv

LEMMA KeepKeeps ==
  ASSUME ScoresInv, NEW r \in Rec, Keep(r), command.op = "grade", Honest(r),
         ~raced => r.pin = truth /\ (r.grader # 0 => r.sha = checklist /\ r.grader = code),
         UNCHANGED <<tree, results, agreements, history, edits, commands>>
  PROVE  ScoresInv'
<1>1. /\ details' = details \cup {r}
      /\ command' = [command EXCEPT !.op = "run", !.left = @ - 1, !.batch = Append(@, r)]
      /\ UNCHANGED <<cap, truth, checklist, code, last, base, out, tabled, forced, agreements,
                     raced, moved, old, edits, commands>>
  BY DEF Keep, tree, results, history
<1>2. Monotone
  BY <1>1 DEF Monotone
<1>3. command \in CommandSet /\ command.left - 1 \in Nat /\ command.batch \in Seq(Rec)
  BY DEF ScoresInv, ScoresTypes, CommandSet
<1>4. /\ command' \in CommandSet /\ command'.op = "run" /\ command'.truth = command.truth
      /\ command'.code = command.code /\ ToSet(command'.batch) = ToSet(command.batch) \cup {r}
  BY <1>1, <1>3, Kept DEF CommandSet
<1>5. IsFiniteSet(details')
  BY <1>1, FS_AddElement DEF ScoresInv, ScoresTypes
<1>6. ScoresTypes'
  BY <1>1, <1>4, <1>5 DEF ScoresInv, ScoresTypes
<1>7. Records'
  BY <1>1, <1>2, <1>4, HonestKept DEF ScoresInv, Records
<1>8. Files' /\ Compared' /\ Agreed'
  BY <1>1, <1>2, FilesKept, AgreedKept DEF ScoresInv
<1>9. InCommand'
  BY <1>1, <1>4 DEF ScoresInv, InCommand
<1>10. QED
  BY <1>6, <1>7, <1>8, <1>9 DEF ScoresInv

LEMMA GradeKeeps ==
  ASSUME ScoresInv, Grade PROVE ScoresInv'
<1> DEFINE r == [saw |-> cap, pin |-> command.truth, graded |-> command.list, sha |-> checklist,
                 by |-> command.code, grader |-> command.code]
<1>1. command.op = "grade" /\ Keep(r) /\ UNCHANGED <<tree, results, agreements, history, edits, commands>>
  BY DEF Grade
<1>2. command \in CommandSet /\ cap \in Version /\ checklist \in List
  BY DEF ScoresInv, ScoresTypes
<1>3. command.code \in 0..MaxVersion
  BY <1>2, ScoresBounds DEF CommandSet, Version
<1>4. r \in Rec
  BY <1>2, <1>3 DEF CommandSet, Rec
<1>5. ~raced => /\ command.truth = truth /\ command.code = code /\ command.list = checklist
                /\ cap = truth
  BY <1>1 DEF ScoresInv, InCommand
<1>6. Honest(r)
  BY <1>1, <1>5 DEF Honest, ScoresInv, ScoresTypes
<1>7. ~raced => r.pin = truth /\ (r.grader # 0 => r.sha = checklist /\ r.grader = code)
  BY <1>5
<1> HIDE DEF r
<1>8. QED
  BY <1>1, <1>4, <1>6, <1>7, KeepKeeps

LEMMA UngradedKeeps ==
  ASSUME ScoresInv, Ungraded PROVE ScoresInv'
<1> DEFINE r == [saw |-> cap, pin |-> command.truth, graded |-> NoList, sha |-> NoList,
                 by |-> 0, grader |-> 0]
<1>1. command.op = "grade" /\ Keep(r) /\ UNCHANGED <<tree, results, agreements, history, edits, commands>>
  BY DEF Ungraded
<1>2. command \in CommandSet /\ cap \in Version /\ 0 \in 0..MaxVersion
  BY ScoresBounds DEF ScoresInv, ScoresTypes
<1>3. r \in Rec
  BY <1>2 DEF CommandSet, Rec
<1>4. ~raced => command.truth = truth
  BY <1>1 DEF ScoresInv, InCommand
<1>5. Honest(r) /\ r.grader = 0 /\ (~raced => r.pin = truth)
  BY <1>4 DEF Honest
<1> HIDE DEF r
<1>6. QED
  BY <1>1, <1>3, <1>5, KeepKeeps

LEMMA TabledResults ==
  ASSUME ScoresInv, NEW batch \in Seq(Rec), batch # <<>>, NEW c,
         out' = Table(c, Payload(batch)), base' = base, Monotone,
         tabled' = Payload(batch),
         ~raced' /\ ~old' => (Payload(batch).grader # 0 => Payload(batch).grader = c)
  PROVE  Compared' /\ out' \in {"none", "n/a", "changed", "compared"}
<1> DEFINE a == Payload(batch)
<1>1. out' \in {"none", "n/a", "changed", "compared"}
  BY DEF Table, Pinned
<1>2. ASSUME out' = "compared", ~raced', ~old'
      PROVE  a.pin = base.pin /\ a.sha = base.sha /\ a.grader = base.grader
  <2> HIDE DEF a
  <2>1. a.grader # 0 /\ Comparable(c) /\ Pinned(a, base) = "compared"
    BY <1>2 DEF Table, a
  <2>2. a.pin = base.pin /\ a.sha = base.sha
    BY <2>1 DEF Pinned
  <2>3. a.grader = c
    BY <1>2, <2>1 DEF a
  <2>4. QED
    BY <2>1, <2>2, <2>3 DEF Comparable
<1>3. QED
  BY <1>1, <1>2 DEF Compared

LEMMA EndRunKeeps ==
  ASSUME ScoresInv, EndRun PROVE ScoresInv'
<1>1. /\ command.op = "run" /\ command' = NoCommand
      /\ UNCHANGED <<cap, truth, checklist, code, details, base, forced, agreements,
                     raced, moved, old, edits, commands>>
  BY DEF EndRun, tree, history
<1>2. Monotone
  BY <1>1 DEF Monotone
<1>3. /\ command' \in CommandSet /\ command'.op = "idle" /\ command'.batch = <<>>
      /\ ToSet(command'.batch) = {}
  BY <1>1, EmptyBatch, ScoresBounds DEF NoCommand, CommandSet, Version
<1>4. Records' /\ Agreed' /\ InCommand'
  BY <1>1, <1>2, <1>3, HonestKept, AgreedKept DEF ScoresInv, Records, InCommand
<1>5. CASE command.batch = <<>>
  <2>1. UNCHANGED <<last, out, tabled>>
    BY <1>5 DEF EndRun
  <2>2. ScoresTypes'
    BY <1>1, <1>3, <2>1 DEF ScoresInv, ScoresTypes
  <2>3. Files' /\ Compared'
    BY <1>1, <1>2, <2>1, FilesKept DEF ScoresInv
  <2>4. QED
    BY <1>4, <2>2, <2>3 DEF ScoresInv
<1>6. CASE command.batch # <<>>
  <2>1. PICK batch, p : batch = command.batch /\ p = Payload(batch)
    OBVIOUS
  <2>2. last' = p /\ out' = Table(command.code, p) /\ tabled' = p
    BY <1>6, <2>1 DEF EndRun, Show
  <2>3. batch \in Seq(Rec) /\ batch # <<>>
    BY <1>6, <2>1 DEF ScoresInv, ScoresTypes, CommandSet
  <2>4. p \in ResultsSet /\ p.of = batch
    BY <2>1, <2>3, PayloadOfBatch
  <2>5. ASSUME ~raced
        PROVE  /\ p.grader # 0 => p.grader = command.code
               /\ \A r \in Scored(batch) : r.pin = p.pin /\ r.sha = p.sha /\ r.grader = p.grader
    <3>1. \A r \in ToSet(batch) :
            r.pin = truth /\ (r.grader # 0 => r.sha = checklist /\ r.grader = command.code)
      BY <1>1, <2>1, <2>5 DEF ScoresInv, InCommand
    <3>2. p.pin = truth /\ (Scored(batch) # {} => p.sha = checklist /\ p.grader = command.code)
      BY <2>1, <2>3, <3>1, PayloadOfBatch DEF Scored
    <3>3. Scored(batch) = {} => p.grader = 0
      BY <2>1, <2>3, PayloadOfBatch
    <3>4. QED
      BY <3>1, <3>2, <3>3 DEF Scored
  <2>6. Compared' /\ out' \in {"none", "n/a", "changed", "compared"}
    BY <1>1, <1>2, <2>1, <2>2, <2>3, <2>5, TabledResults
  <2>7. ScoresTypes'
    BY <1>1, <1>3, <2>2, <2>4, <2>6 DEF ScoresInv, ScoresTypes
  <2>8. Faithful(p)
    BY <2>1, <2>4, <2>5 DEF Faithful, Uniform, ScoresInv, Records, Scored
  <2>9. Files'
    <3>1. Faithful(p)' /\ Faithful(base)
      BY <1>2, <2>8, FaithfulKept DEF ScoresInv, Files
    <3>2. \A q : q = base => Faithful(q)'
      BY <1>2, <3>1, FaithfulKept
    <3>3. \A q \in {last', base', tabled'} : Faithful(q)'
      BY <1>1, <2>2, <3>1, <3>2
    <3>4. QED
      BY <3>3 DEF Files
  <2>10. QED
    BY <1>4, <2>6, <2>7, <2>9 DEF ScoresInv
<1>7. QED
  BY <1>5, <1>6

LEMMA EndAgreementKeeps ==
  ASSUME ScoresInv, EndAgreement PROVE ScoresInv'
<1>1. /\ command.op = "agree" /\ command' = NoCommand
      /\ UNCHANGED <<cap, truth, checklist, code, details, last, base, out, tabled, forced,
                     raced, moved, old, edits, commands>>
  BY DEF EndAgreement, tree, results, history
<1>2. PICK passed \in BOOLEAN :
        agreements' = agreements \cup
          {[sha |-> checklist, grader |-> command.code, graded |-> command.list, passed |-> passed]}
  BY DEF EndAgreement
<1>3. Monotone
  BY <1>1 DEF Monotone
<1>4. /\ command' \in CommandSet /\ command'.op = "idle" /\ command'.batch = <<>>
      /\ ToSet(command'.batch) = {}
  BY <1>1, EmptyBatch, ScoresBounds DEF NoCommand, CommandSet, Version
<1>5. ScoresTypes'
  BY <1>1, <1>4 DEF ScoresInv, ScoresTypes
<1>6. Records' /\ InCommand'
  BY <1>1, <1>3, <1>4, HonestKept DEF ScoresInv, Records, InCommand
<1>7. Files' /\ Compared'
  BY <1>1, <1>3, FilesKept DEF ScoresInv
<1>8. Agreed'
  <2>1. ~raced => command.list = checklist
    BY <1>1 DEF ScoresInv, InCommand
  <2>2. \A a \in agreements' : ~raced => a.graded = a.sha
    BY <1>2, <2>1 DEF ScoresInv, Agreed
  <2>3. QED
    BY <1>1, <1>2, <2>2 DEF ScoresInv, Agreed
<1>9. QED
  BY <1>5, <1>6, <1>7, <1>8 DEF ScoresInv

LEMMA BaselineKeeps ==
  ASSUME ScoresInv, NEW force \in BOOLEAN, Baseline(force) PROVE ScoresInv'
<1>1. /\ command.op = "idle"
      /\ last.grader # 0 => force \/ Agrees(last)
      /\ base' = last /\ out' = "none" /\ tabled' = NoResults /\ forced' = force
      /\ UNCHANGED <<cap, truth, checklist, code, details, command, last, agreements,
                     raced, moved, old, edits, commands>>
  BY DEF Baseline, Promote, tree, history
<1>2. Monotone
  BY <1>1 DEF Monotone
<1>3. NoResults \in ResultsSet /\ NoResults.of = <<>>
  BY EmptyBatch, ScoresBounds DEF NoResults, ResultsSet
<1>4. ScoresTypes'
  BY <1>1, <1>3 DEF ScoresInv, ScoresTypes
<1>5. Records' /\ InCommand'
  BY <1>1, <1>2, HonestKept DEF ScoresInv, Records, InCommand
<1>6. Files'
  <2>1. Faithful(NoResults)
    BY <1>3, EmptyBatch DEF Faithful, Uniform
  <2>2. QED
    BY <1>1, <1>2, <2>1, FaithfulKept DEF ScoresInv, Files
<1>7. Compared'
  BY <1>1 DEF Compared
<1>8. Agreed'
  <2>1. ASSUME last.grader # 0, ~force
        PROVE  \E a \in agreements : a.passed /\ a.sha = last.sha /\ a.grader = last.grader
    <3>1. Agrees(last)
      BY <1>1, <2>1
    <3>2. PICK a \in agreements : a.sha = last.sha /\ a.grader = last.grader /\ a.passed
      BY <3>1 DEF Agrees
    <3>3. QED
      BY <3>2
  <2>2. QED
    BY <1>1, <2>1 DEF ScoresInv, Agreed
<1>9. QED
  BY <1>4, <1>5, <1>6, <1>7, <1>8 DEF ScoresInv

LEMMA EditKeeps ==
  ASSUME ScoresInv, Edit PROVE ScoresInv'
<1>1. /\ raced' = (raced \/ command.op # "idle") /\ edits' = edits + 1
      /\ UNCHANGED <<details, command, last, base, out, tabled, forced, agreements, moved, old, commands>>
  BY DEF Edit, results
<1>2. Monotone
  BY <1>1 DEF Monotone
<1>3. cap' \in Version /\ truth' \in Version /\ checklist' \in List /\ code' \in Version
  BY ScoresBounds DEF Edit, ScoresInv, ScoresTypes, Version
<1>4. raced' \in BOOLEAN
  BY <1>1 DEF ScoresInv, ScoresTypes
<1>5. ScoresTypes'
  BY <1>1, <1>3, <1>4 DEF ScoresInv, ScoresTypes
<1>6. Records'
  BY <1>1, <1>2, HonestKept DEF ScoresInv, Records
<1>7. Files' /\ Compared' /\ Agreed'
  BY <1>1, <1>2, FilesKept, AgreedKept DEF ScoresInv
<1>8. InCommand'
  BY <1>1 DEF InCommand
<1>9. QED
  BY <1>5, <1>6, <1>7, <1>8 DEF ScoresInv

LEMMA RescoredFields ==
  ASSUME ScoresInv, NEW r \in Rec, Rescorable(r), Honest(r)
  PROVE  /\ Rescored(r) \in Rec /\ Rescored(r).pin = truth /\ Rescored(r).sha = checklist
         /\ Rescored(r).grader = r.grader /\ Rescored(r).saw = r.saw /\ Rescored(r).by = r.by
         /\ Rescored(r).graded \in List
         /\ ~raced => Rescored(r).graded = checklist
<1>1. checklist \in List /\ truth \in Version /\ r.grader # 0 /\ r.sha.view = checklist.view
  BY DEF ScoresInv, ScoresTypes, Rescorable
<1>2. r.graded \in List /\ (~raced => r.graded.view = checklist.view)
  BY <1>1 DEF Honest
<1>3. PICK g \in List : g = [view |-> r.graded.view, marks |-> checklist.marks]
  BY <1>1, <1>2 DEF List
<1>4. ~raced => g = checklist
  BY <1>1, <1>2, <1>3 DEF List
<1>5. Rescored(r) = [r EXCEPT !.pin = truth, !.sha = checklist, !.graded = g]
  BY <1>3 DEF Rescored
<1>6. QED
  BY <1>1, <1>4, <1>5 DEF Rec

LEMMA RescoreKeeps ==
  ASSUME ScoresInv, Rescore PROVE ScoresInv'
<1>1. /\ command.op = "idle" /\ commands' = commands + 1
      /\ UNCHANGED <<cap, truth, checklist, code, command, base, forced, agreements, raced, edits>>
  BY DEF Rescore, tree
<1>2. PICK S, good, batch, p :
        /\ S \in SUBSET details /\ good = {r \in S : Rescorable(r)} /\ good # {}
        /\ batch = SetToSeq({Rescored(r) : r \in good}) /\ p = Payload(batch)
        /\ details' = details \cup ToSet(batch)
        /\ out' = Table(code, p) /\ tabled' = p
        /\ last' = (IF good = S THEN p ELSE last)
        /\ moved' = (moved \/ \E r \in good : r.saw # truth)
        /\ old' = (old \/ \E r \in good : r.grader # code)
  BY DEF Rescore, Show
<1>3. PICK T : T = {Rescored(r) : r \in good}
  OBVIOUS
<1>4. Monotone
  BY <1>1, <1>2 DEF Monotone
<1>5. /\ details \subseteq Rec /\ IsFiniteSet(details) /\ good \subseteq details
      /\ \A r \in good : Honest(r) /\ Rescorable(r)
  BY <1>2 DEF ScoresInv, ScoresTypes, Records
<1>6. IsFiniteSet(T) /\ T # {}
  <2>1. IsFiniteSet(good)
    BY <1>5, FS_Subset
  <2>2. [r \in good |-> Rescored(r)] \in Surjection(good, T)
    BY <1>3 DEF Surjection
  <2>3. QED
    BY <1>2, <1>3, <2>1, <2>2, FS_Surjection
<1>7. ASSUME NEW q \in T
      PROVE  /\ q \in Rec /\ q.pin = truth /\ q.sha = checklist /\ Honest(q)'
             /\ ~old' => q.grader = code
  <2>1. PICK r \in good : q = Rescored(r)
    BY <1>3
  <2>2. r \in Rec /\ Honest(r) /\ Rescorable(r)
    BY <1>5
  <2>3. /\ q \in Rec /\ q.pin = truth /\ q.sha = checklist /\ q.grader = r.grader
        /\ q.saw = r.saw /\ q.by = r.by /\ q.graded \in List /\ (~raced => q.graded = checklist)
    BY <2>1, <2>2, RescoredFields
  <2>4. ~moved' => r.saw = truth
    BY <1>2
  <2>5. Honest(q)'
    BY <1>1, <2>2, <2>3, <2>4 DEF Honest
  <2>6. ~old' => r.grader = code
    BY <1>2
  <2>7. QED
    BY <2>3, <2>5, <2>6
<1>8. batch \in Seq(Rec) /\ batch # <<>> /\ ToSet(batch) \subseteq T
  <2>1. batch \in Seq(T) /\ batch # <<>> /\ ToSet(batch) \subseteq T
    BY <1>2, <1>3, <1>6, SequenceOfSet
  <2>2. T \subseteq Rec
    BY <1>7
  <2>3. QED
    BY <2>1, <2>2
<1>9. p \in ResultsSet /\ p.of = batch
  BY <1>2, <1>8, PayloadOfBatch
<1>10. /\ p.pin = truth
       /\ Scored(batch) # {} => p.sha = checklist /\ (~old' => p.grader = code)
       /\ Scored(batch) = {} => p.grader = 0
  <2>1. p.pin = truth
    BY <1>2, <1>7, <1>8, PayloadOfBatch
  <2>2. Scored(batch) # {} => /\ First(batch) \in T /\ p.sha = First(batch).sha
                              /\ p.grader = First(batch).grader
    BY <1>2, <1>8, PayloadOfBatch DEF Scored
  <2>3. Scored(batch) = {} => p.grader = 0
    BY <1>2, <1>8, PayloadOfBatch
  <2>4. QED
    BY <1>7, <2>1, <2>2, <2>3
<1>11. Compared' /\ out' \in {"none", "n/a", "changed", "compared"}
  <2>1. ~old' => (p.grader # 0 => p.grader = code)
    BY <1>10
  <2>2. QED
    BY <1>1, <1>2, <1>4, <1>8, <2>1, TabledResults
<1>12. ScoresTypes'
  <2>1. details' \subseteq Rec /\ IsFiniteSet(details')
    <3>1. IsFiniteSet(ToSet(batch))
      BY <1>6, <1>8, FS_Subset
    <3>2. QED
      BY <1>2, <1>5, <1>7, <1>8, <3>1, FS_Union
  <2>2. moved' \in BOOLEAN /\ old' \in BOOLEAN
    BY <1>2 DEF ScoresInv, ScoresTypes
  <2>3. last' \in ResultsSet /\ base' \in ResultsSet /\ tabled' \in ResultsSet
    BY <1>1, <1>2, <1>9 DEF ScoresInv, ScoresTypes
  <2>4. QED
    BY <1>1, <1>11, <2>1, <2>2, <2>3 DEF ScoresInv, ScoresTypes
<1>13. Records'
  <2>1. \A r \in details \cup ToSet(command.batch) : Honest(r)'
    BY <1>4, HonestKept DEF ScoresInv, Records
  <2>2. \A r \in ToSet(batch) : Honest(r)'
    BY <1>7, <1>8
  <2>3. QED
    BY <1>1, <1>2, <2>1, <2>2 DEF Records
<1>14. Files'
  <2>1. Faithful(p)'
    BY <1>7, <1>8, <1>9, <1>10 DEF Faithful, Uniform, Scored
  <2>2. \A q \in {last, base} : Faithful(q)'
    BY <1>4, FaithfulKept DEF ScoresInv, Files
  <2>3. \A q \in {last', base', tabled'} : Faithful(q)'
    BY <1>1, <1>2, <2>1, <2>2
  <2>4. QED
    BY <2>3 DEF Files
<1>15. InCommand' /\ Agreed'
  BY <1>1, <1>4, AgreedKept DEF ScoresInv, InCommand
<1>16. QED
  BY <1>11, <1>12, <1>13, <1>14, <1>15 DEF ScoresInv

LEMMA InitSatisfiesScoresInv ==
  ASSUME ScoresInit PROVE ScoresInv
<1>1. 1 \in Version /\ [view |-> 1, marks |-> 1] \in List
  BY ScoresBounds DEF Version, List
<1>2. NoCommand \in CommandSet /\ NoCommand.op = "idle" /\ NoCommand.batch = <<>>
  BY <1>1, EmptyBatch DEF NoCommand, CommandSet
<1>3. NoResults \in ResultsSet /\ NoResults.of = <<>> /\ NoResults.grader = 0
  BY EmptyBatch, ScoresBounds DEF NoResults, ResultsSet
<1>4. ScoresTypes
  BY <1>1, <1>2, <1>3, FS_EmptySet DEF ScoresInit, ScoresTypes
<1>5. Records /\ InCommand
  BY <1>2, EmptyBatch DEF ScoresInit, Records, InCommand
<1>6. Files
  BY <1>3, EmptyBatch DEF ScoresInit, Files, Faithful, Uniform
<1>7. Compared /\ Agreed
  BY <1>3 DEF ScoresInit, Compared, Agreed
<1>8. QED
  BY <1>4, <1>5, <1>6, <1>7 DEF ScoresInv

LEMMA ScoresStutterKeeps ==
  ASSUME ScoresInv, UNCHANGED scoresVars PROVE ScoresInv'
<1>1. UNCHANGED <<cap, truth, checklist, code, details, command, last, base, out, tabled, agreements,
                  forced, raced, moved, old, edits, commands>>
  BY DEF scoresVars, tree, results, history
<1>2. Monotone
  BY <1>1 DEF Monotone
<1>3. ScoresTypes' /\ InCommand'
  BY <1>1 DEF ScoresInv, ScoresTypes, InCommand
<1>4. Records'
  BY <1>1, <1>2, HonestKept DEF ScoresInv, Records
<1>5. QED
  BY <1>1, <1>2, <1>3, <1>4, FilesKept, AgreedKept DEF ScoresInv

(* Every command and edit keeps what the results say of the runs they are  *)
(* of.                                                                     *)
THEOREM ScoresInvariant == ScoresSpec => []ScoresInv
<1>1. ScoresInit => ScoresInv
  BY InitSatisfiesScoresInv
<1>2. ScoresInv /\ [ScoresNext]_scoresVars => ScoresInv'
  BY StartRunKeeps, AttemptKeeps, GradeKeeps, UngradedKeeps, EndRunKeeps, RescoreKeeps,
     StartAgreementKeeps, EndAgreementKeeps, BaselineKeeps, EditKeeps, ScoresStutterKeeps
     DEF ScoresNext
<1>3. QED
  BY <1>1, <1>2, PTL DEF ScoresSpec

(* Results with the baseline's pins were measured as it was.               *)
LEMMA MeasuredAlike ==
  ASSUME ScoresInv, ~raced, ~moved, ~old, NEW a \in {last, base, tabled},
         a.pin = base.pin, a.sha = base.sha, a.grader = base.grader
  PROVE  Alike(a, base)
<1>1. ASSUME NEW p \in {a, base}, NEW r \in Scored(p.of)
      PROVE  r.saw = base.pin /\ r.graded = base.sha /\ r.by = base.grader
  BY <1>1 DEF ScoresInv, Files, Faithful, Uniform, Honest, Scored
<1>2. QED
  BY <1>1 DEF Alike

(* _world_changed, compare: a movement is only reported between results    *)
(* measured alike.                                                         *)
THEOREM LikeWithLikeHolds == ScoresSpec => []LikeWithLike
<1>1. ASSUME ScoresInv PROVE LikeWithLike
  <2>1. SUFFICES ASSUME ~raced, ~moved, ~old PROVE LikeWithLike
    BY DEF LikeWithLike
  <2>2. ASSUME out = "compared" PROVE Alike(tabled, base)
    BY <1>1, <2>1, <2>2, MeasuredAlike DEF ScoresInv, Compared
  <2>3. ASSUME ~Refuses(base, last) PROVE Alike(last, base)
    BY <1>1, <2>1, <2>3, MeasuredAlike DEF Refuses
  <2>4. QED
    BY <2>2, <2>3 DEF LikeWithLike
<1>2. QED
  BY <1>1, ScoresInvariant, PTL

(* _baseline_checklist: a baseline not forced stands on gradings that      *)
(* agreed, of its runs' list and grader.                                   *)
THEOREM BaselineAgreedHolds == ScoresSpec => []BaselineAgreed
<1>1. ASSUME ScoresInv PROVE BaselineAgreed
  <2>1. SUFFICES ASSUME base.grader # 0, ~forced, ~raced, ~old
                 PROVE  \E a \in agreements :
                          a.passed /\ \A r \in Scored(base.of) : r.graded = a.graded /\ r.by = a.grader
    BY DEF BaselineAgreed
  <2>2. PICK a \in agreements : /\ a.passed /\ a.sha = base.sha /\ a.grader = base.grader
                                /\ a.graded = a.sha
    BY <1>1, <2>1 DEF ScoresInv, Agreed
  <2>3. \A r \in Scored(base.of) : r.graded = base.sha /\ r.by = base.grader
    BY <1>1, <2>1 DEF ScoresInv, Files, Faithful, Uniform, Honest, Scored
  <2>4. QED
    BY <2>2, <2>3
<1>2. QED
  BY <1>1, ScoresInvariant, PTL

-----------------------------------------------------------------------------
(* Grading.                                                                *)

(* Most of a panel is a majority of those that gave a verdict, and of the  *)
(* rest as well.                                                           *)
LEMMA MostErred ==
  ASSUME NEW votes, DOMAIN votes = 1..Grades, NEW d \in Dims, Majority(votes)[d] = TRUE,
         NEW W \in SUBSET (1..Grades),
         \A m \in 1..Grades : votes[m][d] = Nil \/ votes[m][d] => m \in W
  PROVE  Most(W)
<1> DEFINE D == 1..Grades
           counted == {m \in DOMAIN votes : votes[m][d] # Nil}
           yes == {m \in counted : votes[m][d]}
           rest == D \ counted
<1>1. Grades \in Nat /\ Nil # TRUE /\ Nil # FALSE
  BY GradingAssumption
<1>2. Majority(votes)[d] = IF counted = {} THEN Nil ELSE 2 * Cardinality(yes) > Cardinality(counted)
  BY DEF Majority
<1>3. 2 * Cardinality(yes) > Cardinality(counted)
  BY <1>1, <1>2
<1>4. /\ counted \subseteq D /\ yes \subseteq counted /\ rest \subseteq W /\ yes \subseteq W
      /\ yes \cap rest = {}
  OBVIOUS
<1> HIDE DEF D, counted, yes, rest
<1>5. IsFiniteSet(D) /\ Cardinality(D) = Grades
  BY <1>1, FS_Interval DEF D
<1>6. IsFiniteSet(counted) /\ IsFiniteSet(yes) /\ IsFiniteSet(rest) /\ IsFiniteSet(W)
  <2>1. rest \subseteq D /\ W \subseteq D /\ yes \subseteq D
    BY <1>4 DEF rest, D
  <2>2. QED
    BY <1>4, <1>5, <2>1, FS_Subset
<1>7. /\ Cardinality(rest) = Grades - Cardinality(counted)
  <2>1. D \cap counted = counted
    BY <1>4
  <2>2. QED
    BY <1>4, <1>5, <1>6, <2>1, FS_Difference DEF rest
<1>8. Cardinality(yes \cup rest) = Cardinality(yes) + Cardinality(rest)
  <2>1. /\ Cardinality(yes \cup rest)
             = Cardinality(yes) + Cardinality(rest) - Cardinality(yes \cap rest)
        /\ Cardinality({}) = 0
    BY <1>6, FS_Union, FS_EmptySet
  <2>2. Cardinality(yes) \in Nat /\ Cardinality(rest) \in Nat
    BY <1>6, FS_CardinalityType
  <2>3. Cardinality(yes \cap rest) = 0
    BY <1>4, <2>1
  <2>4. QED
    BY <2>1, <2>2, <2>3
<1>9. Cardinality(yes \cup rest) <= Cardinality(W)
  BY <1>4, <1>6, FS_Subset
<1>10. /\ Cardinality(yes) \in Nat /\ Cardinality(counted) \in Nat /\ Cardinality(W) \in Nat
       /\ Cardinality(counted) <= Grades
  BY <1>4, <1>5, <1>6, FS_CardinalityType, FS_Subset
<1>11. 2 * Cardinality(W) > Grades
  BY <1>1, <1>3, <1>7, <1>8, <1>9, <1>10
<1>12. QED
  BY <1>11 DEF Most

(* What a member's vote says of a dimension. *)
LEMMA AllTrue ==
  ASSUME NEW S, S # {}, All(S) = Nil \/ All(S)
  PROVE  FALSE \notin S
<1>1. All(S) = (FALSE \notin S)
  BY DEF All
<1>2. Nil # TRUE /\ Nil # FALSE
  BY GradingAssumption
<1>3. QED
  BY <1>1, <1>2

(* A verdict is the majority of whole gradings of the one answer. *)
Cast ==
  verdict.made =>
    /\ DOMAIN verdict.cast = 1..Grades /\ verdict.by \in Truths
    /\ verdict.dims = Majority([m \in 1..Grades |-> Dimensions(verdict.cast[m], verdict.by)])
Open ==
  panel.open => panel.cast \in Seq(Gradings) /\ panel.by \in Truths
Listed == items # Nil => items \in [Items -> Item]
(* A score is of verdicts that were given on the texts that it names. *)
OnItsView ==
  /\ saved.made =>
       /\ items \in [Items -> Item]
       /\ \A i \in Items : saved.says[i] \in {"yes", "no", "unclear"}
  /\ score.made =>
       /\ saved.made /\ saved.view = View(score.of)
       /\ score.of \in [Items -> Item]
       /\ score.met = {i \in Items : Met(score.of[i], saved.says[i])}

GradingInv == /\ answer \in Replies /\ held \in Truths
              /\ Cast /\ Open /\ Listed /\ OnItsView

LEMMA GradingInitial == GradingInit => GradingInv
<1> SUFFICES ASSUME GradingInit PROVE GradingInv
  OBVIOUS
<1>1. answer \in Replies
  BY GradingAssumption DEF GradingInit
<1>2. QED
  BY <1>1 DEF GradingInit, GradingInv, Cast, Open, Listed, OnItsView, NoPanel, NoVerdict, NoSaved, NoScore

(* The answer that is graded never changes, so neither do its readings.    *)
LEMMA GradingStep ==
  ASSUME GradingInv, [GradingNext]_gradingVars
  PROVE  GradingInv'
<1>a. answer' = answer /\ states' = states
  BY DEF GradingNext, gradingVars, StartGrade, GradeOnce, GradeFails, EndGrade, GradeList, ScoreAgain,
         Revise
<1>b. Gradings' = Gradings
  BY <1>a DEF Gradings, Read
<1>c. answer' \in Replies
  BY <1>a DEF GradingInv
<1>1. CASE StartGrade
  <2>1. Open'
    BY <1>1 DEF GradingInv, StartGrade, Open
  <2>2. QED
    BY <1>1, <1>c, <2>1 DEF GradingInv, StartGrade, Cast, Listed, OnItsView
<1>2. CASE GradeOnce
  <2>1. PICK g \in Gradings : panel' = [panel EXCEPT !.cast = Append(@, g)]
    BY <1>2 DEF GradeOnce
  <2>2. panel.cast \in Seq(Gradings) /\ panel.by \in Truths
    BY <1>2 DEF GradeOnce, GradingInv, Open
  <2>3. Append(panel.cast, g) \in Seq(Gradings)
    BY <2>1, <2>2
  <2>4. panel'.open => panel'.cast = Append(panel.cast, g) /\ panel'.by = panel.by
    BY <2>1 DEF GradingInv
  <2>5. Open'
    BY <1>b, <2>2, <2>3, <2>4 DEF Open
  <2>6. QED
    BY <1>2, <1>c, <2>5 DEF GradingInv, GradeOnce, Cast, Listed, OnItsView
<1>3. CASE GradeFails
  BY <1>3, <1>c DEF GradingInv, GradeFails, NoPanel, Open, Cast, Listed, OnItsView
<1>4. CASE EndGrade
  <2>1. panel.cast \in Seq(Gradings) /\ panel.by \in Truths /\ Len(panel.cast) = Grades
    BY <1>4 DEF EndGrade, GradingInv, Open
  <2>2. DOMAIN panel.cast = 1..Grades
    BY <2>1
  <2>3. Cast'
    BY <1>4, <2>1, <2>2 DEF EndGrade, Cast
  <2>4. QED
    BY <1>4, <1>c, <2>3 DEF GradingInv, EndGrade, NoPanel, Open, Listed, OnItsView
<1>5. CASE GradeList
  <2>1. items \in [Items -> Item]
    BY <1>5 DEF GradeList, GradingInv, Listed
  <2>2. PICK i \in Items, s \in {"yes", "no", "unclear"} :
          saved' = [made |-> TRUE, says |-> [States(items) EXCEPT ![i] = s], view |-> View(items)]
    BY <1>5 DEF GradeList
  <2>3. \A j \in Items : saved'.says[j] \in {"yes", "no", "unclear"}
    BY <2>2 DEF States
  <2>4. /\ score'.of = items
        /\ score'.met = {j \in Items : Met(items[j], saved'.says[j])}
    BY <1>5 DEF GradeList, Score
  <2>5. items' = items /\ saved'.view = View(items)
    BY <1>5, <2>2 DEF GradeList
  <2>6. saved'.made
    BY <2>2
  <2>7. OnItsView'
    BY <2>1, <2>3, <2>4, <2>5, <2>6 DEF OnItsView, View, Met
  <2>8. QED
    BY <1>5, <1>b, <1>c, <2>7 DEF GradingInv, GradeList, Open, Cast, Listed
<1>6. CASE ScoreAgain
  <2>1. saved.made /\ saved.view = View(items) /\ items \in [Items -> Item]
    BY <1>6 DEF ScoreAgain, GradingInv, OnItsView
  <2>2. /\ score'.of = items
        /\ score'.met = {j \in Items : Met(items[j], saved.says[j])}
    BY <1>6 DEF ScoreAgain, Score
  <2>3. saved' = saved /\ items' = items
    BY <1>6 DEF ScoreAgain
  <2>4. OnItsView'
    BY <2>1, <2>2, <2>3 DEF GradingInv, OnItsView, View, Met
  <2>5. QED
    BY <1>6, <1>b, <1>c, <2>4 DEF GradingInv, ScoreAgain, Open, Cast, Listed
<1>7. CASE Revise
  <2>1. held' \in Truths
    BY <1>7 DEF Revise, GradingInv
  <2>2. /\ items' # Nil => items' \in [Items -> Item]
        /\ saved.made => items' \in [Items -> Item]
    <3>1. CASE items = Nil /\ UNCHANGED items
      BY <3>1 DEF GradingInv, Listed, OnItsView
    <3>2. CASE items # Nil /\ \E i \in Items : \E e \in Item \ {items[i]} : items' = [items EXCEPT ![i] = e]
      BY <3>2 DEF GradingInv, Listed
    <3>3. QED
      BY <1>7, <3>1, <3>2 DEF Revise
  <2>3. Listed' /\ OnItsView'
    BY <1>7, <2>2 DEF Revise, GradingInv, Listed, OnItsView, View, Met
  <2>4. QED
    BY <1>7, <1>b, <1>c, <2>1, <2>3 DEF GradingInv, Revise, Open, Cast
<1>8. CASE UNCHANGED gradingVars
  BY <1>8, <1>b DEF GradingInv, gradingVars, Cast, Open, Listed, OnItsView, View, Met
<1>9. QED
  BY <1>1, <1>2, <1>3, <1>4, <1>5, <1>6, <1>7, <1>8 DEF GradingNext

(* rescore, regrade and the edits between them: the answer and its truth   *)
(* stay what they were given as, a verdict is the majority of whole        *)
(* gradings, and a score is of texts its verdicts were given on.           *)
THEOREM GradingInvariant == GradingSpec => []GradingInv
<1>1. GradingInit => GradingInv
  BY GradingInitial
<1>2. GradingInv /\ [GradingNext]_gradingVars => GradingInv'
  BY GradingStep
<1>3. QED
  BY <1>1, <1>2, PTL DEF GradingSpec

(* What each dimension says of one member of the panel that did not fail   *)
(* it: the answer is right there, or that member erred there.              *)
LEMMA Spared ==
  ASSUME NEW g, NEW by \in Truths
  PROVE  LET vote == Dimensions(g, by)
             passes(d) == vote[d] = Nil \/ vote[d]
         IN  /\ passes("standing") => \A c \in Candidates :
                  /\ c \in DOMAIN g.candidates
                  /\ StandingOk(c, g.candidates[c], by)
             /\ passes("calibration") =>
                  /\ \A c \in Candidates \cap DOMAIN g.candidates : Calibrated(c, g.candidates[c], by)
                  /\ by.range = {} \/ g.strength \in by.range
             /\ passes("traps") => \A t \in DOMAIN g.traps : g.traps[t] # FALSE
             /\ by.restraint /\ passes("restraint") => g.restraint # Nil /\ g.restraint
<1> DEFINE cs == Settled(g)
           stands == {StandingOk(c, cs[c], by) : c \in DOMAIN cs}
           measured == {Calibrated(c, cs[c], by) : c \in DOMAIN cs}
           ranged == IF by.range = {} THEN {} ELSE {g.strength \in by.range}
           trapped == {g.traps[t] : t \in DOMAIN g.traps}
<1>1. /\ Dimensions(g, by)["standing"] = All(stands)
      /\ Dimensions(g, by)["calibration"] = All(measured \cup ranged)
      /\ Dimensions(g, by)["traps"] = All(trapped)
      /\ Dimensions(g, by)["restraint"] = Restraint(g, by)
  BY DEF Dimensions
<1>2. /\ DOMAIN cs = DOMAIN g.candidates \cup Candidates
      /\ \A c \in DOMAIN g.candidates : cs[c] = g.candidates[c]
      /\ \A c \in Candidates \ DOMAIN g.candidates : cs[c] = Absent
  BY DEF Settled
<1> HIDE DEF cs
<1>3. ASSUME All(stands) = Nil \/ All(stands), NEW c \in Candidates
      PROVE  c \in DOMAIN g.candidates /\ StandingOk(c, g.candidates[c], by)
  <2>1. StandingOk(c, cs[c], by) \in stands /\ stands # {}
    BY <1>2
  <2>2. FALSE \notin stands
    BY <1>3, <2>1, AllTrue
  <2>3. StandingOk(c, cs[c], by)
    BY <2>1, <2>2 DEF StandingOk
  <2>4. Absent.standing \notin by.candidates[c].accepted
    BY GradingAssumption DEF Absent, Standings
  <2>5. cs[c] # Absent
    BY <2>3, <2>4 DEF StandingOk
  <2>6. QED
    BY <1>2, <2>3, <2>5
<1>4. ASSUME All(measured \cup ranged) = Nil \/ All(measured \cup ranged)
      PROVE  /\ \A c \in Candidates \cap DOMAIN g.candidates : Calibrated(c, g.candidates[c], by)
             /\ by.range = {} \/ g.strength \in by.range
  <2>1. FALSE \notin measured \cup ranged
    BY <1>4, AllTrue
  <2>2. ASSUME NEW c \in Candidates \cap DOMAIN g.candidates
        PROVE  Calibrated(c, g.candidates[c], by)
    <3>1. Calibrated(c, cs[c], by) \in measured
      BY <1>2
    <3>2. Calibrated(c, cs[c], by) # FALSE
      BY <2>1, <3>1
    <3>3. QED
      BY <1>2, <3>2 DEF Calibrated
  <2>3. ASSUME by.range # {}
        PROVE  g.strength \in by.range
    <3>1. SUFFICES ASSUME g.strength \notin by.range PROVE FALSE
      OBVIOUS
    <3>2. (g.strength \in by.range) = FALSE
      BY <3>1
    <3>3. QED
      BY <2>1, <2>3, <3>2
  <2>4. QED
    BY <2>2, <2>3
<1>5. ASSUME All(trapped) = Nil \/ All(trapped), NEW t \in DOMAIN g.traps
      PROVE  g.traps[t] # FALSE
  <2>1. g.traps[t] \in trapped
    OBVIOUS
  <2>2. QED
    BY <1>5, <2>1, AllTrue
<1>6. ASSUME by.restraint, Restraint(g, by) = Nil \/ Restraint(g, by)
      PROVE  g.restraint # Nil /\ g.restraint
  BY <1>6, GradingAssumption DEF Restraint
<1> HIDE DEF stands, measured, ranged, trapped
<1>7. QED
  BY <1>1, <1>3, <1>4, <1>5, <1>6

LEMMA Merited == ASSUME GradingInv PROVE PassedOnMerit
<1> SUFFICES ASSUME verdict.made PROVE PassedOnMerit
  BY DEF PassedOnMerit
<1> DEFINE by == verdict.by
           votes == [m \in 1..Grades |-> Dimensions(verdict.cast[m], by)]
<1>1. /\ DOMAIN verdict.cast = 1..Grades /\ by \in Truths /\ verdict.dims = Majority(votes)
      /\ answer \in Replies
  BY DEF GradingInv, Cast
<1>2. DOMAIN votes = 1..Grades /\ \A m \in 1..Grades : votes[m] = Dimensions(verdict.cast[m], by)
  OBVIOUS
<1>3. Members = 1..Grades
  BY <1>1 DEF Members
<1> HIDE DEF by, votes
<1>4. ASSUME verdict.dims["standing"] = TRUE, NEW c \in Candidates,
             ~StandingOk(c, answer.candidates[c], by)
      PROVE  Most(MisreadCandidate(c))
  <2>1. \A m \in 1..Grades : votes[m]["standing"] = Nil \/ votes[m]["standing"] => m \in MisreadCandidate(c)
    <3> TAKE m \in 1..Grades
    <3> SUFFICES ASSUME votes[m]["standing"] = Nil \/ votes[m]["standing"] PROVE m \in MisreadCandidate(c)
      OBVIOUS
    <3>1. /\ c \in DOMAIN verdict.cast[m].candidates
          /\ StandingOk(c, verdict.cast[m].candidates[c], by)
      BY <1>1, <1>2, Spared
    <3>2. QED
      BY <1>3, <1>4, <3>1 DEF MisreadCandidate
  <2>2. MisreadCandidate(c) \subseteq 1..Grades
    BY <1>3 DEF MisreadCandidate
  <2>3. Majority(votes)["standing"] = TRUE /\ "standing" \in Dims
    BY <1>1, <1>4 DEF Dims
  <2>4. QED
    BY <1>2, <2>1, <2>2, <2>3, MostErred
<1>5. ASSUME verdict.dims["calibration"] = TRUE, NEW c \in Candidates,
             ~Calibrated(c, answer.candidates[c], by)
      PROVE  Most(MisreadCandidate(c) \cup Skipped(c))
  <2> DEFINE W == MisreadCandidate(c) \cup Skipped(c)
  <2>1. \A m \in 1..Grades : votes[m]["calibration"] = Nil \/ votes[m]["calibration"] => m \in W
    <3> TAKE m \in 1..Grades
    <3> SUFFICES ASSUME votes[m]["calibration"] = Nil \/ votes[m]["calibration"],
                        c \in DOMAIN verdict.cast[m].candidates
                 PROVE  m \in MisreadCandidate(c)
      BY <1>3 DEF Skipped
    <3>1. Calibrated(c, verdict.cast[m].candidates[c], by)
      BY <1>1, <1>2, Spared
    <3>2. QED
      BY <1>3, <1>5, <3>1 DEF MisreadCandidate
  <2>2. W \subseteq 1..Grades
    BY <1>3 DEF MisreadCandidate, Skipped
  <2>3. Majority(votes)["calibration"] = TRUE /\ "calibration" \in Dims
    BY <1>1, <1>5 DEF Dims
  <2> HIDE DEF W
  <2>4. Most(W)
    BY <1>2, <2>1, <2>2, <2>3, MostErred
  <2>5. QED
    BY <2>4 DEF W
<1>6. ASSUME verdict.dims["calibration"] = TRUE, by.range # {}, answer.strength \notin by.range
      PROVE  Most(MisreadStrength)
  <2>1. \A m \in 1..Grades : votes[m]["calibration"] = Nil \/ votes[m]["calibration"] => m \in MisreadStrength
    <3> TAKE m \in 1..Grades
    <3> SUFFICES ASSUME votes[m]["calibration"] = Nil \/ votes[m]["calibration"] PROVE m \in MisreadStrength
      OBVIOUS
    <3>1. verdict.cast[m].strength \in by.range
      BY <1>1, <1>2, <1>6, Spared
    <3>2. QED
      BY <1>3, <1>6, <3>1 DEF MisreadStrength
  <2>2. MisreadStrength \subseteq 1..Grades
    BY <1>3 DEF MisreadStrength
  <2>3. Majority(votes)["calibration"] = TRUE /\ "calibration" \in Dims
    BY <1>1, <1>6 DEF Dims
  <2>4. QED
    BY <1>2, <2>1, <2>2, <2>3, MostErred
<1>7. ASSUME verdict.dims["traps"] = TRUE, NEW t \in Traps, ~answer.traps[t]
      PROVE  Most(MisreadTrap(t))
  <2>0. answer.traps[t] = FALSE
    BY <1>1, <1>7, GradingAssumption
  <2>1. \A m \in 1..Grades : votes[m]["traps"] = Nil \/ votes[m]["traps"] => m \in MisreadTrap(t)
    <3> TAKE m \in 1..Grades
    <3> SUFFICES ASSUME votes[m]["traps"] = Nil \/ votes[m]["traps"],
                        t \in DOMAIN verdict.cast[m].traps
                 PROVE  verdict.cast[m].traps[t] # answer.traps[t]
      BY <1>3 DEF MisreadTrap
    <3>1. verdict.cast[m].traps[t] # FALSE
      BY <1>1, <1>2, Spared
    <3>2. QED
      BY <2>0, <3>1
  <2>2. MisreadTrap(t) \subseteq 1..Grades
    BY <1>3 DEF MisreadTrap
  <2>3. Majority(votes)["traps"] = TRUE /\ "traps" \in Dims
    BY <1>1, <1>7 DEF Dims
  <2>4. QED
    BY <1>2, <2>1, <2>2, <2>3, MostErred
<1>8. ASSUME verdict.dims["restraint"] = TRUE, ~answer.declined
      PROVE  Most(MisreadRestraint)
  <2>1. Majority(votes)["restraint"] = TRUE /\ "restraint" \in Dims
    BY <1>1, <1>8 DEF Dims
  <2>2. \A m \in 1..Grades : votes[m]["restraint"] = Restraint(verdict.cast[m], by)
    <3>1. \A m \in 1..Grades : Dimensions(verdict.cast[m], by)["restraint"] = Restraint(verdict.cast[m], by)
      BY DEF Dimensions
    <3>2. QED
      BY <1>2, <3>1
  <2>3. by.restraint
    <3> SUFFICES ASSUME ~by.restraint PROVE FALSE
      OBVIOUS
    <3>1. \A m \in 1..Grades : votes[m]["restraint"] = Nil
      BY <2>2 DEF Restraint
    <3>2. {m \in DOMAIN votes : votes[m]["restraint"] # Nil} = {}
      BY <1>2, <3>1
    <3>3. Majority(votes)["restraint"] = Nil
      BY <2>1, <3>2 DEF Majority
    <3>4. QED
      BY <2>1, <3>3, GradingAssumption
  <2>4. \A m \in 1..Grades : votes[m]["restraint"] = Nil \/ votes[m]["restraint"] => m \in MisreadRestraint
    <3> TAKE m \in 1..Grades
    <3> SUFFICES ASSUME votes[m]["restraint"] = Nil \/ votes[m]["restraint"] PROVE m \in MisreadRestraint
      OBVIOUS
    <3>1. verdict.cast[m].restraint # Nil /\ verdict.cast[m].restraint
      BY <1>1, <1>2, <2>3, Spared
    <3>2. QED
      BY <1>3, <1>8, <3>1 DEF MisreadRestraint
  <2>5. MisreadRestraint \subseteq 1..Grades
    BY <1>3 DEF MisreadRestraint
  <2>6. QED
    BY <1>2, <2>1, <2>4, <2>5, MostErred
<1>9. QED
  BY <1>4, <1>5, <1>6, <1>7, <1>8 DEF PassedOnMerit, by

(* PanelGrade, settle_candidates, settle_restraint: an answer passes a     *)
(* dimension only where it is right, or where most of the panel misread    *)
(* the very thing it has wrong; whatever the size of the panel.            *)
THEOREM PassedOnMeritHolds == GradingSpec => []PassedOnMerit
<1>1. GradingInv => PassedOnMerit
  BY Merited
<1>2. QED
  BY <1>1, GradingInvariant, PTL

LEMMA MetMerited == ASSUME GradingInv PROVE MetOnMerit
<1> SUFFICES ASSUME score.made, NEW i \in score.met
             PROVE  \/ (<<i, score.of[i].text>> \in states) = score.of[i].present
                    \/ saved.says[i] = IF <<i, saved.view[i]>> \in states THEN "no" ELSE "yes"
  BY DEF MetOnMerit
<1>1. /\ i \in Items /\ Met(score.of[i], saved.says[i])
      /\ saved.says[i] \in {"yes", "no", "unclear"}
      /\ score.of[i] \in Item /\ saved.view[i] = score.of[i].text
  BY DEF GradingInv, OnItsView, View
<1>2. score.of[i].present \in BOOLEAN
  BY <1>1 DEF Item
<1>3. QED
  BY <1>1, <1>2 DEF Met

(* rescore, grader_view: an item is met only by what the answer states of  *)
(* the list as it was scored, or by a misreading of the text shown; for    *)
(* every list, every edit of it and every order of the commands.           *)
THEOREM MetOnMeritHolds == GradingSpec => []MetOnMerit
<1>1. GradingInv => MetOnMerit
  BY MetMerited
<1>2. QED
  BY <1>1, GradingInvariant, PTL
=============================================================================
