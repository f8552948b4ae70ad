------------------------------- MODULE World -------------------------------
(***************************************************************************)
(* One scenario's data on one machine: the capture, the pinned skill, the  *)
(* metrics block with its manifest and the reports read from it; the pins  *)
(* in truth.yaml and scenario.yaml; the data repository; the seals of a    *)
(* hold-out suite. Two processes use them without a lock: the author's     *)
(* command, which writes in steps and may be killed between any two, and a *)
(* run, which reads for minutes and trusts what it checked.                *)
(*                                                                         *)
(* A recording is named by its moment; a digest is modelled by the content *)
(* it is the digest of. A wiki is named by the capture it was built from.  *)
(***************************************************************************)
EXTENDS Naturals, FiniteSets, Sequences

CONSTANTS Moments,    \* how many recordings of the live cluster
          Commands,   \* how many commands and edits of the author
          Runs,       \* how many runs
          None,       \* a file that is not there, a pin not given
          Torn,       \* what a command stopped in mid-write leaves on disk
          Cut         \* a file cut short in the repository or on its way here

VARIABLES own,    \* this repository's own scenario, or one of a hold-out suite
          home,   \* the author's machine, or another one that only fetches
          live,   \* the last moment the cluster was recorded at
          used,   \* [Commands, Runs] begun so far
          disk,   \* the scenario's files, and the dump cache
          pins,   \* truth.yaml's pins and scenario.yaml's digest
          list,   \* the revision of checklist.yaml
          repo,   \* the author's checkout of the data repository
          seals,  \* the hold-out manifest's seals of this scenario
          cmd,    \* the author's command
          run,    \* the run
          swapped \* history: the blocks a run replaced while a publish copied them

vars == <<own, home, live, used, disk, pins, list, repo, seals, cmd, run, swapped>>

\* A capture: the moment, and whether it has the workloads' histories.
Capture == [at : 1..Moments, full : BOOLEAN]

ASSUME WorldAssumption ==
    /\ {Moments, Commands, Runs} \subseteq Nat
    /\ None # Torn /\ None # Cut /\ Torn # Cut
    /\ {None, Torn, Cut} \cap (Nat \cup Capture) = {}

NoDisk == [cap |-> None, wiki |-> None, block |-> None, manifest |-> None,
           ref |-> None, results |-> None, cache |-> {}]
NoPins == [digest |-> None, at |-> None, wiki |-> None, block |-> None]
Quiet  == [pc |-> "idle", at |-> None, file |-> None, added |-> {}]
NoRun  == [pc |-> "idle", truth |-> NoPins, seal |-> None, cap |-> None, block |-> None,
           manifest |-> None, wiki |-> None, stamp |-> None, against |-> None,
           list |-> 0, late |-> {}]

Init ==
    /\ own \in BOOLEAN
    /\ home = TRUE
    /\ live = 0
    /\ used = [commands |-> 0, runs |-> 0]
    /\ disk = NoDisk
    /\ pins = NoPins
    /\ list = 0
    /\ repo = {}
    /\ seals = <<>>
    /\ cmd = Quiet
    /\ run = NoRun
    /\ swapped = {}

---------------------------------------------------------------------------
\* Fetching.

File(kind, name) == {f \in repo : f.kind = kind /\ f.name = name}

\* Fault: a download is installed as it comes.
UncheckedDownload(got, name) == TRUE

\* What was downloaded for a name is installed only when it has that digest.
Checked(got, name) == got = name

\* What a fetch may install: the checkout's file at home, the committed one
\* elsewhere, or a part of it when the download ends early.
Got(kind, name) ==
    LET files == {f \in File(kind, name) : home \/ f.kept}
    IN  {got \in {f.holds : f \in files} \cup {Cut : f \in files} : Checked(got, name)}

\* A file already here is kept, whatever it is.
Ensured(kind, here, pin) ==
    IF here # None \/ pin = None THEN {here} ELSE Got(kind, pin)

\* The disks after ensure_data: none when something pinned cannot be fetched.
WithData(p) ==
    {[disk EXCEPT !.cap = got.cap, !.wiki = got.wiki] :
        got \in [cap : Ensured("capture", disk.cap, p.digest), wiki : Ensured("skill", disk.wiki, p.wiki)]}

\* The disks after ensure_metrics: a hit in the cache is taken as it is; a
\* block that is not the pinned one is replaced by it.
WithMetrics(pin) ==
    IF pin \in disk.cache THEN {disk}
    ELSE LET blocks == IF disk.block = pin THEN {pin} ELSE Got("metrics", pin)
         IN  {[disk EXCEPT !.block = b, !.cache = @ \cup {pin}] : b \in blocks}

---------------------------------------------------------------------------
\* The check before a run spends anything.

Whole(cap) == cap \in Capture

SkillCurrent(p, d) == p.wiki # None /\ p.wiki = d.wiki

\* Fault: the block's digest is compared and its end is not.
MetricsAtAnyEnd(p, d) == p.block # None => d.block \in {None, p.block}

MetricsCurrent(p, d) ==
    p.block # None => d.block \in {None, p.block} /\ p.block = p.at

CheckTruthIsCurrent(p, d) ==
    /\ SkillCurrent(p, d)
    /\ MetricsCurrent(p, d)
    /\ Whole(d.cap) /\ d.cap.at = p.at

---------------------------------------------------------------------------
\* The author's commands. While a run is past the check that would notice,
\* what they write is remembered in late.

Idle == cmd.pc \in {"idle", "published"}

Spend == used.commands < Commands /\ used' = [used EXCEPT !.commands = @ + 1]

Trusting == {"synced", "uploaded", "stamped"}
Reading  == {"replaying", "measured"} \cup Trusting

\* A command that writes one part of the disk; a backfilled capture keeps its
\* moment, so that no check of a run notices it.
Put(part, value, unseen) ==
    /\ disk' = [disk EXCEPT ![part] = value]
    /\ run' = IF run.pc \in (IF unseen THEN Reading ELSE Trusting)
                THEN [run EXCEPT !.late = @ \cup {part}] ELSE run

Go(pc) == cmd' = [cmd EXCEPT !.pc = pc]

\* scenario record: the capture is streamed over the one that was there, ...
RecordStart ==
    /\ Idle /\ home /\ Spend /\ live < Moments
    /\ live' = live + 1
    /\ cmd' = [Quiet EXCEPT !.pc = "stream", !.at = live + 1]
    /\ Put("cap", Torn, FALSE)
    /\ UNCHANGED <<swapped, own, home, pins, list, repo, seals>>

RecordEnd ==
    /\ cmd.pc = "stream"
    /\ \E full \in BOOLEAN : Put("cap", [at |-> cmd.at, full |-> full], FALSE)
    /\ Go(IF own THEN "metrics" ELSE "idle")
    /\ UNCHANGED <<swapped, own, home, live, used, pins, list, repo, seals>>

\* ... then the metrics to the same moment, when a Prometheus is configured:
\* the manifest first, the block, and its samples into the dump cache; ...
RecordManifest ==
    /\ cmd.pc = "metrics"
    /\ \/ Go("snapshot") /\ UNCHANGED <<disk, run>>
       \/ Go("block") /\ Put("manifest", cmd.at, FALSE)
    /\ UNCHANGED <<swapped, own, home, live, used, pins, list, repo, seals>>

RecordBlock ==
    /\ cmd.pc = "block"
    /\ Put("block", cmd.at, FALSE)
    /\ Go("cache")
    /\ UNCHANGED <<swapped, own, home, live, used, pins, list, repo, seals>>

RecordCache ==
    /\ cmd.pc = "cache"
    /\ Put("cache", disk.cache \cup {cmd.at}, FALSE)
    /\ Go("snapshot")
    /\ UNCHANGED <<swapped, own, home, live, used, pins, list, repo, seals>>

\* ... then the cluster's own skill, rebuilt just before or left from an
\* earlier moment, over the pinned one, whose directory is removed first. It is
\* seen half removed, gone, or half copied, and only when gone is it fetched.
SkillStart ==
    /\ cmd.pc = "snapshot"
    /\ \E m \in 1..cmd.at : cmd' = [cmd EXCEPT !.pc = "copy", !.at = [at |-> m, full |-> TRUE]]
    /\ \E w \in {None, Torn} : Put("wiki", w, FALSE)
    /\ UNCHANGED <<swapped, own, home, live, used, pins, list, repo, seals>>

\* scenario build-wiki: built from the capture, replayed, and swapped in.
BuildWiki ==
    /\ Idle /\ home /\ Spend
    /\ Whole(disk.cap)
    /\ cmd' = [Quiet EXCEPT !.pc = "copy", !.at = disk.cap]
    /\ \E w \in {None, Torn} : Put("wiki", w, FALSE)
    /\ UNCHANGED <<swapped, own, home, live, pins, list, repo, seals>>

\* Neither the copy nor the rename writes over a directory fetched meanwhile:
\* the command fails (Stop).
SkillEnd ==
    /\ cmd.pc = "copy"
    /\ disk.wiki \in {None, Torn}
    /\ Put("wiki", cmd.at, FALSE)
    /\ cmd' = Quiet
    /\ UNCHANGED <<swapped, own, home, live, used, pins, list, repo, seals>>

\* scenario backfill-histories: the same moment, with the histories read now.
BackfillStart ==
    /\ Idle /\ home /\ Spend
    /\ Whole(disk.cap) /\ ~disk.cap.full
    /\ cmd' = [Quiet EXCEPT !.pc = "fill", !.at = disk.cap.at]
    /\ Put("cap", Torn, TRUE)
    /\ UNCHANGED <<swapped, own, home, live, pins, list, repo, seals>>

BackfillEnd ==
    /\ cmd.pc = "fill"
    /\ Put("cap", [at |-> cmd.at, full |-> TRUE], TRUE)
    /\ cmd' = Quiet
    /\ UNCHANGED <<swapped, own, home, live, used, pins, list, repo, seals>>

\* A command stopped between two of its steps, or failing there.
Stop ==
    /\ ~Idle
    /\ cmd' = Quiet
    /\ UNCHANGED <<swapped, own, home, live, used, disk, pins, list, repo, seals, run>>

\* The author reads what is on disk and pins it, or a part of it.
Review ==
    /\ Idle /\ home /\ Spend
    /\ \E at \in {pins.at} \cup {c.at : c \in {disk.cap} \cap Capture},
          wiki \in {pins.wiki} \cup ({disk.wiki} \cap Capture),
          block \in {pins.block} \cup ({disk.block} \ {None}) :
         pins' = [pins EXCEPT !.at = at, !.wiki = wiki, !.block = block]
    /\ pins' # pins
    /\ UNCHANGED <<swapped, own, home, live, disk, list, repo, seals, cmd, run>>

\* The author rewrites the checklist, which a run reads when it grades.
EditList ==
    /\ Idle /\ home /\ ~own /\ Spend
    /\ list' = list + 1
    /\ run' = IF run.pc \in {"idle", "graded"} THEN run ELSE [run EXCEPT !.late = @ \cup {"list"}]
    /\ UNCHANGED <<swapped, own, home, live, disk, pins, repo, seals, cmd>>

---------------------------------------------------------------------------
\* scenario publish.

Part == [capture |-> "cap", skill |-> "wiki", metrics |-> "block"]

\* A file the checkout has is passed over; another is created and written.
PutFile(kind, name, next) ==
    IF File(kind, name) # {}
      THEN Go(next) /\ UNCHANGED repo
      ELSE /\ repo' = repo \cup {[kind |-> kind, name |-> name, holds |-> Cut,
                                     staged |-> FALSE, kept |-> FALSE]}
           /\ cmd' = [cmd EXCEPT !.pc = "write", !.file = [kind |-> kind, name |-> name, next |-> next]]

PublishCapture ==
    /\ Idle /\ home /\ own /\ Spend
    /\ disk.cap # None
    /\ IF File("capture", disk.cap) # {}
         THEN cmd' = [Quiet EXCEPT !.pc = "pin"] /\ UNCHANGED repo
         ELSE /\ repo' = repo \cup {[kind |-> "capture", name |-> disk.cap, holds |-> Cut,
                                     staged |-> FALSE, kept |-> FALSE]}
              /\ cmd' = [Quiet EXCEPT !.pc = "write",
                           !.file = [kind |-> "capture", name |-> disk.cap, next |-> "pin"]]
    /\ UNCHANGED <<swapped, own, home, live, disk, pins, list, seals, run>>

WriteFile ==
    /\ cmd.pc = "write"
    /\ repo' = {IF f.kind = cmd.file.kind /\ f.name = cmd.file.name
                  THEN [f EXCEPT !.holds = disk[Part[f.kind]]] ELSE f : f \in repo}
    /\ cmd' = [cmd EXCEPT !.pc = cmd.file.next, !.file = None,
                          !.added = @ \cup {<<cmd.file.kind, cmd.file.name>>}]
    /\ UNCHANGED <<swapped, own, home, live, used, disk, pins, list, seals, run>>

PinCapture ==
    /\ cmd.pc = "pin"
    /\ pins' = [pins EXCEPT !.digest = disk.cap]
    /\ Go("skill")
    /\ UNCHANGED <<swapped, own, home, live, used, disk, list, repo, seals, run>>

\* A skill or a block that is not the pinned one ends the command here.
PublishSkill ==
    /\ cmd.pc = "skill"
    /\ IF None \in {pins.wiki, disk.wiki} THEN Go("blocks") /\ UNCHANGED repo
       ELSE IF pins.wiki # disk.wiki THEN cmd' = Quiet /\ UNCHANGED repo
       ELSE PutFile("skill", pins.wiki, "blocks")
    /\ UNCHANGED <<swapped, own, home, live, used, disk, pins, list, seals, run>>

PublishBlock ==
    /\ cmd.pc = "blocks"
    /\ IF pins.block = None THEN Go("commit") /\ UNCHANGED repo
       ELSE IF pins.block # disk.block THEN cmd' = Quiet /\ UNCHANGED repo
       ELSE PutFile("metrics", pins.block, "commit")
    /\ UNCHANGED <<swapped, own, home, live, used, disk, pins, list, seals, run>>

\* git add, unless there is nothing to commit: that ends the command.
StageFiles(files) ==
    /\ cmd.pc = "commit"
    /\ IF cmd.added = {} THEN cmd' = [Quiet EXCEPT !.pc = "published"] /\ UNCHANGED repo
       ELSE /\ repo' = {[f EXCEPT !.staged = @ \/ f \in files] : f \in repo}
            /\ Go("staged")
    /\ UNCHANGED <<swapped, own, home, live, used, disk, pins, list, seals, run>>

\* Fault: whatever the checkout holds is staged.
StageAll == StageFiles(repo)

\* The files this command wrote are staged, and no other.
Stage == StageFiles({f \in repo : <<f.kind, f.name>> \in cmd.added})

\* git commit takes all that is staged, an earlier command's files too.
Commit ==
    /\ cmd.pc = "staged"
    /\ repo' = {[f EXCEPT !.kept = @ \/ f.staged] : f \in repo}
    /\ cmd' = [Quiet EXCEPT !.pc = "published"]
    /\ UNCHANGED <<swapped, own, home, live, used, disk, pins, list, seals, run>>

\* scenario fetch: the three in this order, each kept when it is here.
FetchAll ==
    /\ Idle /\ own
    /\ \E d \in WithData(pins) :
         \E b \in Ensured("metrics", d.block, pins.block) : disk' = [d EXCEPT !.block = b]
    /\ disk' # disk
    /\ UNCHANGED <<swapped, own, home, live, used, pins, list, repo, seals, cmd, run>>

\* scenario build-metrics-reference: from the pinned block, whatever is here.
ReferenceStart ==
    /\ Idle /\ own /\ Spend
    /\ pins.block # None
    /\ disk' \in WithMetrics(pins.block)
    /\ cmd' = [Quiet EXCEPT !.pc = "report", !.at = pins.block]
    /\ UNCHANGED <<swapped, own, home, live, pins, list, repo, seals, run>>

ReferenceEnd ==
    /\ cmd.pc = "report"
    /\ Put("ref", cmd.at, FALSE)
    /\ cmd' = Quiet
    /\ UNCHANGED <<swapped, own, home, live, used, pins, list, repo, seals>>

\* scenario record-results: the tools' results on the replay of the capture
\* that is here, with the pinned metrics; the old results go first.
ResultsStart ==
    /\ Idle /\ own /\ Spend
    /\ \E d \in WithData(pins) :
         /\ Whole(d.cap)
         /\ disk' \in IF pins.block = None THEN {[d EXCEPT !.results = None]}
                      ELSE {[d EXCEPT !.results = None, !.block = m.block, !.cache = m.cache] :
                               m \in WithMetrics(pins.block)}
    /\ cmd' = [Quiet EXCEPT !.pc = "results", !.at = disk'.cap]
    /\ UNCHANGED <<swapped, own, home, live, pins, list, repo, seals, run>>

ResultsEnd ==
    /\ cmd.pc = "results"
    /\ Put("results", cmd.at, FALSE)
    /\ cmd' = Quiet
    /\ UNCHANGED <<swapped, own, home, live, used, pins, list, repo, seals>>

\* Another machine: this repository's files, with nothing that git ignores,
\* and of the data repository what was committed.
Elsewhere ==
    /\ Idle /\ home /\ own /\ run.pc \in {"idle", "graded"}
    /\ home' = FALSE
    /\ disk' = [NoDisk EXCEPT !.manifest = disk.manifest, !.ref = disk.ref,
                               !.results = disk.results]
    /\ cmd' = Quiet
    /\ run' = NoRun
    /\ UNCHANGED <<swapped, own, live, used, pins, list, repo, seals>>

---------------------------------------------------------------------------
\* A hold-out suite: holdout seal and holdout score.

Sealed == [truth |-> pins, list |-> list]

\* Fault: only the truth is compared, as before runs were scored on checklists.
TruthUnmoved(seal) == seal.truth = pins

\* The seals of the manifest that a scoring run may go by: the last, unless
\* truth.yaml or checklist.yaml moved since.
Unmoved(seal) == seal.truth = pins /\ seal.list = list

Seal ==
    /\ Idle /\ ~own /\ Spend
    /\ CheckTruthIsCurrent(pins, disk)
    /\ seals # <<>> => ~Unmoved(seals[Len(seals)])
    /\ seals' = Append(seals, Sealed)
    /\ UNCHANGED <<swapped, own, home, live, disk, pins, list, repo, cmd, run>>

---------------------------------------------------------------------------
\* A run: run_once, between the author's steps.

Refuse == run' = NoRun

RunLoad ==
    /\ run.pc \in {"idle", "graded"} /\ used.runs < Runs
    /\ used' = [used EXCEPT !.runs = @ + 1]
    /\ \/ run' = [NoRun EXCEPT !.pc = "loaded", !.truth = pins]
       \/ /\ seals # <<>> /\ Unmoved(seals[Len(seals)])
          /\ run' = [NoRun EXCEPT !.pc = "loaded", !.truth = pins, !.seal = seals[Len(seals)]]
    /\ UNCHANGED <<swapped, own, home, live, disk, pins, list, repo, seals, cmd>>

RunCheck ==
    /\ run.pc = "loaded"
    /\ IF WithData(run.truth) = {} THEN Refuse /\ UNCHANGED disk
       ELSE \E d \in WithData(run.truth) :
              /\ disk' = d
              /\ run' = IF CheckTruthIsCurrent(run.truth, d)
                          THEN [run EXCEPT !.pc = "checked"] ELSE NoRun
    /\ UNCHANGED <<swapped, own, home, live, used, pins, list, repo, seals, cmd>>

\* The replay server parses the capture when it starts.
RunReplay ==
    /\ run.pc = "checked"
    /\ run' = IF Whole(disk.cap) THEN [run EXCEPT !.pc = "replaying", !.cap = disk.cap] ELSE NoRun
    /\ UNCHANGED <<swapped, own, home, live, used, disk, pins, list, repo, seals, cmd>>

RunMetrics ==
    /\ run.pc = "replaying"
    /\ IF run.truth.block = None
         THEN run' = [run EXCEPT !.pc = "measured"] /\ UNCHANGED disk
       ELSE IF WithMetrics(run.truth.block) = {} THEN Refuse /\ UNCHANGED disk
       ELSE /\ disk' \in WithMetrics(run.truth.block)
            /\ run' = [run EXCEPT !.pc = "measured", !.manifest = disk.manifest,
                         !.block = IF run.truth.block \in disk.cache THEN run.truth.block ELSE disk'.block]
    /\ swapped' = IF disk'.block # disk.block /\ cmd.pc = "write" /\ cmd.file.kind = "metrics"
                    THEN swapped \cup {cmd.file.name} ELSE swapped
    /\ UNCHANGED <<own, home, live, used, pins, list, repo, seals, cmd>>

\* Fault: what was checked before the replay started is not checked again.
RunSyncOnce ==
    /\ run.pc = "measured"
    /\ IF WithData(run.truth) = {} THEN Refuse /\ UNCHANGED disk
       ELSE disk' \in WithData(run.truth) /\ run' = [run EXCEPT !.pc = "synced"]
    /\ UNCHANGED <<swapped, own, home, live, used, pins, list, repo, seals, cmd>>

\* sync_scenario_agent checks again, with the replay already serving.
RunSync ==
    /\ run.pc = "measured"
    /\ IF WithData(run.truth) = {} THEN Refuse /\ UNCHANGED disk
       ELSE \E d \in WithData(run.truth) :
              /\ disk' = d
              /\ run' = IF CheckTruthIsCurrent(run.truth, d)
                          THEN [run EXCEPT !.pc = "synced"] ELSE NoRun
    /\ UNCHANGED <<swapped, own, home, live, used, pins, list, repo, seals, cmd>>

\* A bundle without its SKILL.md has no digest and no upload.
RunUpload ==
    /\ run.pc = "synced"
    /\ \/ disk.wiki # None /\ run' = [run EXCEPT !.pc = "uploaded", !.wiki = disk.wiki]
       \/ disk.wiki \in {None, Torn} /\ Refuse
    /\ UNCHANGED <<swapped, own, home, live, used, disk, pins, list, repo, seals, cmd>>

RunStamp ==
    /\ run.pc = "uploaded"
    /\ \/ run' = [run EXCEPT !.pc = "stamped", !.stamp = disk.wiki]
       \/ disk.wiki = Torn /\ Refuse
    /\ UNCHANGED <<swapped, own, home, live, used, disk, pins, list, repo, seals, cmd>>

\* metrics_reference: reports read off another block than the pinned one are
\* refused, and none at all are fine.
ReferenceFits(p, d) == d.ref \in {None, p.block}

\* The session is over: the answer is checked against the capture and graded
\* on the checklist as they are now, and on promtools' reports of the pin.
RunGrade ==
    /\ run.pc = "stamped"
    /\ run' = IF Whole(disk.cap) /\ ReferenceFits(run.truth, disk)
                THEN [run EXCEPT !.pc = "graded", !.against = disk.cap, !.list = list]
                ELSE NoRun
    /\ UNCHANGED <<swapped, own, home, live, used, disk, pins, list, repo, seals, cmd>>

---------------------------------------------------------------------------
Author ==
    \/ RecordStart \/ RecordEnd \/ RecordManifest \/ RecordBlock \/ RecordCache
    \/ SkillStart \/ BuildWiki \/ SkillEnd \/ BackfillStart \/ BackfillEnd \/ Stop
    \/ Review \/ EditList \/ Seal
    \/ PublishCapture \/ WriteFile \/ PinCapture \/ PublishSkill \/ PublishBlock
    \/ Stage \/ Commit
    \/ FetchAll \/ ReferenceStart \/ ReferenceEnd
    \/ ResultsStart \/ ResultsEnd \/ Elsewhere

Runner ==
    \/ RunLoad \/ RunCheck \/ RunReplay \/ RunMetrics \/ RunSync
    \/ RunUpload \/ RunStamp \/ RunGrade

WorldNext == Author \/ Runner

Spec == Init /\ [][WorldNext]_vars

---------------------------------------------------------------------------
\* Properties.

Graded == run.pc = "graded"

\* A graded run is about one moment: the agent's capture, its metrics with
\* their manifest, and its skill are those the truth was reviewed against, at
\* one moment, and the digest saved with the run is of the skill the agent
\* had. Steps apart, with a recording, a build or a review at any of them.
\* Only the skill can differ, replaced after the last check, and on another
\* machine the manifest, which no digest pins.
OneMoment ==
    Graded =>
        /\ run.cap.at = run.truth.at
        /\ run.block = run.truth.block
        /\ run.block # None => run.block = run.cap.at
        /\ run.block # None /\ home => run.manifest = run.block
        /\ "wiki" \notin run.late => run.wiki = run.truth.wiki /\ run.stamp = run.wiki

\* The capture an answer is checked against is the one the agent read: one
\* recorded while the replay started is noticed before the session, and only
\* one written after that, or a backfill, which keeps the moment, is not.
GradedAsSeen == Graded /\ "cap" \notin run.late => run.against = run.cap

\* On a machine that only fetches, nothing cut short on the way or in the
\* repository is ever installed, and a graded run read the published capture.
FetchedIsWhole ==
    ~home => /\ Cut \notin {disk.cap, disk.wiki, disk.block}
             /\ Graded => run.cap = pins.digest

\* What was committed under a digest has it: a file that a killed command
\* left half written is never committed by a later one. Only a block can be
\* wrong, replaced by an admitted run between the publish's check and copy.
CommittedIsWhole ==
    \A f \in repo : f.kept =>
        f.holds = f.name \/ (f.kind = "metrics" /\ f.name \in swapped)

\* A scored run of a hold-out suite was graded on the truth and the checklist
\* last sealed when it was admitted, unless the checklist was edited under it.
ScoredAsSealed ==
    Graded /\ run.seal # None =>
        /\ run.truth = run.seal.truth
        /\ "list" \notin run.late => run.list = run.seal.list

\* After a publish that ended well, everything the scenario pins can be
\* fetched by its digest from what was committed.
PublishedIsCommitted ==
    cmd.pc = "published" =>
        \A pin \in {<<"capture", pins.digest>>, <<"skill", pins.wiki>>, <<"metrics", pins.block>>} :
            pin[2] # None => \E f \in File(pin[1], pin[2]) : f.kept /\ f.holds = f.name
=============================================================================
