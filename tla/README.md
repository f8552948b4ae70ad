# A TLA+ development of k8srca

k8srca answers questions about a Kubernetes cluster in Slack. A hosted agent
investigates; the code in `src/` is everything around it: it hands messages to
sessions of the agent, reads the sessions' events, runs the containers the
agent's tools execute in, records what the tools returned and derives facts
from it, weighs those against a knowledge base, keeps the agent deployed, and
measures it on recorded scenarios. This directory models the parts of it in
which several processes, threads, machines or people meet, or in which a chain
of steps can be cut, checks the models with TLC and proves their main
properties with TLAPS.

Paths below are relative to `src/src/k8srca/` unless they start with `src/`.

## 1. Inventory

Processes: the **orchestrator** (Slack, `slack/app.py`), the **poller**
(`worker/poller.py`), one **sandbox container** per work item
(`worker/entrypoint.py`, `worker/runner.py`), the **agent** (hosted; its
sessions, event history and work queue are an external API), the **agent's
scripts** (`src/skills/k8s-rca`, run by the agent inside a container), the
**scenario runner** with its watchdog thread, and the operator's and author's
**commands** (`cli.py`).

| part | state | operations | what is hard | what makes it correct | module |
| --- | --- | --- | --- | --- | --- |
| `session.py` turn_events | cursor in the stream, ids handed over, reconnects left | open, read, reopen, replay | the stream may drop at any event; history and reopened stream overlap, both growing | the turn's events in order, once, none missing; it ends | TurnStream |
| `slack/app.py`, `slack/sessions.py`, `slack/relay.py`, `review.py` | database, pool, locks, the reply's placeholder | two handlers, resolve, start, run, revise, deliver, fail | redelivery, concurrent handlers, jobs of a thread, crashes, every call may fail | a message runs once, alone on its session, gets its own answer or a failure | SlackTurns |
| `facts/log.py`, `kb_query.py` fact add | one file of numbered facts, what each writer read of it | add, observe, fact add | three writers, torn lines, a file that cannot be opened or written | an id names one fact for good | FactLog |
| `worker/poller.py`, `src/docker/spawn.sh` | items in flight, pool, a session's `.image` | claim, spawn | reclaims, restarts with a new image, a half-written marker | one container per item, a session keeps its image, every item is served | Poller |
| `worker/runner.py`, `worker/entrypoint.py`, `evidence.py` | skills seen, a numbered record | start, watch, serve, write, report | sampling against the SDK's clean-up; a killed container; a failing disk | no lost result, no number used twice, a loss of skills is reported | Sandbox |
| `sync.py`, `state.py`, `runtime.py`, `kb/skills.py` | state files, remote objects, startup records | plan, ensure, upload, save, status | a call that fails, or that took effect although it failed; kills; a scenario's copies | nothing is forgotten, current processes fit together, production is left alone | Deploy |
| `scenario/runner.py` | a run, its watchdog, its suite | turn, review, follow-up, interrupt, close | timer and abort against completion | a graded run is whole, no session is left at work, the suite ends | ScenarioRun |
| `bringup.py`, `cluster.py` | docker network, forward, kubeconfig, container, egress rules | up, down | everything may be changed, killed or rebooted outside | "ok" means it serves; never worse than before | Bringup |
| `facts/derive.py`, `kb_query.py` open, `src/docs/rca` | lines of facts, the claims of a symptom | derive, combine, standing | partial views, any order, contradiction | what is derived is so, the true cause is kept | Derivations, Knowledge, Standings, Investigation |
| `scenario/record.py`, `sources.py`, `model.py`, `backfill.py`, `holdout.py`, `arch/generator.py` | a scenario's files, pins, caches, data repository, seals | record, build, backfill, publish, fetch, seal, replay | no locks; a command may be killed between two writes; a run reads for minutes | a graded run is about one moment; nothing torn is committed or installed | World |
| `scenario/report.py`, cli's run, rescore, checklist, baseline, compare | saved batches, baseline, agreements | aggregate, table, compare, promote | everything that is pinned may be edited in between | only like is compared with like | Scores |
| `scenario/grader.py`, `checklist.py` | a panel's gradings, saved verdicts | grade, settle, vote, score, rescore | a grader that misreads or leaves out, differently each time | passed on merit or by a majority's same mistake | Grading |
| `kb/mine.py`, `knowledge.py`, `build.py`, kb_query.py lookup and refine | sources, caches, a draft, mined and authored files | fetch, extract, merge, repair, check, build | invented quotes, money spent and lost, a draft checked beside files that change | citations hold, no call is paid twice, a clean draft builds | Mining |
| Slack preflight, `mcp_client.py`, configuration, `facts/render.py`, `timing.py`, `evals/`, answer_check, the text checks, the wiki's synthesis, promtools | none, or files | one-shot or pure | little that depends on order | - | - |

How they interact: the orchestrator and the scenario runner read sessions
through `turn_events`; a session's tool calls make the platform queue work
items, which the poller turns into containers; containers and the agent's
script append to one facts file per session, which `open` weighs and which the
orchestrator reads when it posts an answer. `sync` writes the state file that
the orchestrator and the poller load when they start; a scenario run lays its
own state over it. The scenario's files feed the replay a run talks to and the
grader that judges it; what is graded is aggregated, compared and promoted.
`kb mine` and `kb build` make the knowledge `open` reads.

`PROJECT.json` lists the hazards of this code line by line, each with the
properties that cover it, and a note where the code does what a property leaves out.

## 2. Modules

Type invariants are theorems (`TypeCorrect`, section 4) for the modules that
have proofs and are not checked by the runs as well.

### TurnReader, TurnStream, TurnStreamProofs - reading one turn

`TurnReader` is what the consumer of `turn_events` relies on: events of its own
turn in order, each once, then an end or an error. `TurnStream` is `session.py`'s
`turn_events` with the part of `relay.consume` that decides when the turn is
over. The session's history `log` only grows; a connection is the position from
which it still delivers, and it may break at any time (`Break`). A turn is *new*
(the session was created with the message) or a *follow-up* (the stream is opened,
then the message is sent). `Open`, `Send`, `ReadLive`, `ReadReplay`, `Dropped`,
`Retry`, `Reopen`, `List`, `Raise` are the steps of the generator; `Consume` is the
consumer taking an event; `Abort` is the scenario watchdog closing the stream under
it. A replay is the history from the turn's own message (`MissedFrom` = `_missed`),
followed by the new connection, with what was already handed over skipped (`Yield`).

`Faithful` is promised of follow-ups whose `user.message` id the API returned
(*settled*), with the refinement `ImplementsTurnReader`; `ExactlyOnce` of all.
`EventuallyEnds` holds under the fairness of section 3. The module also states
`NoLeak` and `GivesUpWhenSpent`, which are theorems only.

Known disagreements, met while modelling and left outside `Settled`: a resumed
session's previous final idle may end the new turn, because only the replay, not
the live stream, starts at the turn's own message (session.py:109); and when a
*new* session's stream drops, the replay hands its beginning over after what was
read live, so that an interim message becomes "the last message" (slack/app.py:120).

### FactLog, KnowledgeProofs - one facts file, many writers

`facts/log.py` and `cmd_fact_add`. A writer opens the file, locks it, reads what was
appended since it last read, numbers its facts past the highest id, buffers the
lines, and writes and unlocks by closing. Writers are *hosts* (a container's FactLog
object, which keeps what it read and gives a fact it already has its old id) and
*agents* (one run of the script, which never looks for its fact). Faults: a writer
dies at any step (`Kill`), leaving its lines whole, partly or torn; the open fails
(a host then numbers from memory, an agent raises); the write fails at close. A torn
line is one no reader can parse, and takes the next appended line with it.

`OneFactPerId`: as long as no line was lost, an id that was handed out or written
names one fact. `Resolves`: what was handed out is in the file. `KeepsItsId`: hosts
give a derived fact one id for good. The theorem `IdsIncrease` needs no such
condition. They exempt a host that could not open the file: it numbers from what it
holds and may hand out an id the script used (log.py:43), although `add` "numbers
past the highest id there -- never from a count it holds" (log.py:27).

### Conversation, SlackTurns, SlackTurnsProofs - the orchestrator

`Conversation` promises: a message is taken up at most once and gets one final
reply, unless it is lost. `SlackTurns` is `slack/app.py` with its store and the
placeholder of `relay.py`. A delivery of an event has a handler (`Receive`, `Claim`,
`Submit`: known thread, `already_seen`, `pool.submit`), several of which run at
once. A job is `Begin` (a worker takes it), `Lock`, `Resolve`, then `Create`, `Put`
or `Open`, `Send`, then reading (`Consumed`), `Review`, which may send it back to
`Open` with a revision, `Touch`, `Deliver` or `Fail`. A session is the queue of
messages it has still to answer; `FinishTurn` gives the outcome to the job that
listens. `Lost`, `CreateFails`, `SendFails`, `PostFails`, `FailFails` are exceptions
at each step, `Crash` the process's end: the database and the sessions stay, the
handlers, the queue and the jobs go.

`OneReader`: two jobs never read one session. `AnswersOwnMessage`: the answer posted
for a message is its own turn's. `NeverSilent`: a job never ends without a word.
`ImplementsConversation` is the refinement, and `EveryJobEnds` the liveness.

Not promised, and seen in traces: a reply between the mention and the thread's first
row in the database is dropped without a word (app.py:231; app.py:3 and
`src/README.md`:369 say follow-ups continue the session); an exception in the
revision turn discards the first answer (app.py:178; app.py:169 and
`src/designs/001-architecture.md`:720 say the first is kept); of two replies to one
thread the later may be sent first (app.py:99, the lock is no queue); a long answer
is posted in parts, of which a later one may fail (relay.py:168).

Abstracted: the texts, the allowlist and empty messages (never dispatched),
`prune_events`, a locked database, status updates (their errors are swallowed),
and the chunks of a long answer (a failing chunk is a `PostFails`).

### Poller, PollerProofs - containers for work items

`worker/poller.py` with `src/docker/spawn.sh`. The platform's queue (external) makes an
item per active period of a session (`Enqueue`), leases it to who claims it, and hands
it out again when the lease lapsed (`Lapse`), which may happen with its container
running. `Claim` is `iter_work` yielding an item and `Dispatch` the loop's body. Each
worker is a process: `Begin`, `Look`, `Read` or `Make` and `Write` (the two steps of
`write_text` in `session_image`), `Run`, `Wait`, `End`. Docker (external) has one
container of a name at a time, and `spawn.sh` refuses an empty image. A container
serves its item, stops it and exits, or fails before. `Restart` ends the poller's
process with its threads, its items in flight and its queue, and starts it with any
image; containers run on.

`OneJobPerItem`: an item is in one place of the pool at most, and in flight exactly
while it is in one. `Pinned`: all containers a session had ran the image its workspace
records. `EveryItemServed`, with one exception: a marker whose writing fails stays as
an empty file, after which no item of the session can be spawned any more (poller.py:55).

### Sandbox, ScenarioRun, ScenarioRunProofs - containers and a suite

`Sandbox` is the sequence of containers of one session: the start with its manifest
check (`StartBox`, `FailToStart`), the SDK's download of skills (`Serve`, `Download`),
the watcher that samples them every half second (`Sample`), tool calls whose results
`evidence.py` writes beside and renames on a disk that may fail (`CallTool`), the end by
itself or by a signal (`EndItem`, `Report`), by an exception of the SDK (`ItemRaises`) or by
a kill (`KillBox`). `RecordKept`: a
number of the record is one call's, in the order of the calls, and what is recorded
stays. `LossIsReported`: an item that was served while none of its skills was there
does not end without the failure line, although the SDK removes the skills before the
verdict; one that ends before a sample is seen by nobody.

`ScenarioRun` EXTENDS it: the poller of a run, the session, the turns read as TurnStream
has it (completely or not), the review's revision, the follow-up, and the watchdog
(`Mark` it sees a failure line or the deadline, `DogInterrupts`, `Close` after the
grace). `GradedIsWhole`: a graded run read every turn to its proper end.
`NextRunAlone`: no earlier session is left at work that nobody interrupted.
`EverySuiteEnds`, except when the grace passes between the runner's look at
`run.invalid` and its next stream: nobody closes that one (`late`; runner.py:381).
Seen besides: `SkillsNotDelivered` is only reported after the idle limit, a manifest
mismatch is not among the words the watchdog looks for (runner.py:413), and exceptions
after the session's creation leave it uninterrupted (then the suite raises).

### Deploy, DeployProofs - sync, and what runs on its state

`k8srca sync` in stages (`EnsureEnvironment`, `UploadSkill`, `EnsureAgent`,
`NextStage`, `Save`), the same code run by a scenario on production's ids with its own
copies (`Loaded`), with calls that fail (`CallFails`), that take effect although they
fail (`AnswerLost`), retrieves that fail (`RetrieveFails`), kills (`Abandon`), and kills
while the state file is written (`SaveCut`: `write_text` truncates it first, and what is
left is removed by hand). Remote objects have versions; the coordinator's names the specialists'.
The poller and the orchestrator load the file when they start and write a record,
which `Staleness` (`status`) compares with it.

`NoneOrphaned`: every object is known to a file or to a sync that runs, save what the
faults leave behind. `SessionsFit`: if `status` finds both processes current on the
state of a sync that went through, a new session's agents declare the tools whose
manifests the containers check, and use the skills they expect. `ScenarioIsolated`: a
scenario changes no object of production's.

Seen besides: any error of a retrieve counts as "gone" and makes a second object,
against "created once" (sync.py:5); a sync that stops half-way leaves a saved
coordinator that pins an old specialist (only `whole` states are claimed to fit).
Left out: the image's existence check, a suite's base state growing stale while it
runs, two syncs of production at once, and a kill while `local-skills.json` is written,
which is no more atomic than a state file.

### Bringup, BringupProofs - up and down

The five steps of `bring_up` behind an ssh forward (`EnsureNetwork`, `EnsureTunnel`,
`WriteKubeconfig` or `DeriveOrNone`, `Correct` or `Started`, `ProbeEgress`), while
outside anything happens: `TearDown`, `Reboot`, `ForwardDies`, `ClusterChanges`, new
images and certificates, the rules, a container started by hand; a step may fail
or be killed (`UpFails`). `UpMeansServing`: an `up` that reports ok leaves the pinned
image running and reaching the cluster; the sandbox is confined if the forward listens on
port 6443 (`defaultPort`). `egress_status` tries that port whatever `ssh.port` says
(bringup.py:160, config.py:136, 164), and nothing there to connect to reads like a rule in
the way: with another port configured every `up` reports a sandbox confined that no rule
confines, and the property claims nothing. `NeverWorse`: no step of an `up`
that goes through cuts a path that is whole. Both exempt `lost`: that the kubeconfig
changed is known only to the `up` that rewrote it; if that one is killed, the next
reports ok with a container that read the old file (bringup.py:3).
Left out: the direct modes, two commands at once, status and diagnosis, and the rules'
exemption of k8stools' own address.

### Derivations, Knowledge, Standings, Investigation, KnowledgeProofs - facts and causes

`Derivations` is what `facts/derive.py` states from a tool's result about a pod that
does not start and a container that restarts; a tool shows a part of the cluster.
`Knowledge` is the claims of `src/docs/rca` about these, with what speaks for and
against each; `KnowledgeChecked` is what the build refuses, and that sub-causes are two
levels deep, which the recursion of `visit` may therefore be unrolled to. `Standings`
is `kb_query.py`'s three-valued evaluation. `Store` is the set of lines `open` goes by:
`Parse` refuses a line that contradicts an earlier one, and the agent's lines take the
place of the derived. `IsTrue`, `IsOpen` and `RuledOut` are what an alternative comes to
under the best binding, `Standing` and `Row` are a claim's own standing and that with its
sub-causes, `Visited` the claims reached from a symptom, `Widened` the symptom's wider one.
`Investigation` composes them: one incident out of all of them, with what each fact would
mean in it (`Meaning`, `Holds`), tools called in any order, facts the agent records, `open`
at any point. The agent records facts without a value only (`Tellable`).

`FactsTrue`: what is derived is so in the cluster. `TrueCauseKept`: the cause of the
incident is among the rows and not ruled out. `RuledOutStays`: more facts do not bring
a cause back, as long as the agent does not contradict a line.
Exempt, because the code does not keep them: a shortage of one resource only, where the
message that cites it rules the shortage out, `pod-pending.yaml`:67 binding the resource
existentially (`CitesOne`); the taint line of *admitted* nodes (`placement_kb`), which
contradicts `scheduling_kb`'s of all nodes; and the onset (`Contested`).
The finding `open_conflict`: the comment in `status` (kb_query.py:647) says a strong `for` and
a `rules_out` together mean that a fact is wrong; a pod whose selector matches no node, and
whose claim stops the scheduler before it weighs nodes, gets both from facts that are all
true. The claim of TLC's trace requests a storage class that does not exist
(`class_missing`), or has none where no default is (`no_class`): both give a shortest trace,
and the conflict does not hang on which.
Left out of the lines: the checks of a class's name, the capacity and the provisioner that
a claim's event names (derive.py:269-283), and the runtime's own memory limit
(derive.py:844-857); no modelled claim reads them.

Seen on the code while modelling, outside the model's incidents: two containers with
different last exit codes are merged under their role's letter, so two true facts rule
an OOM kill out; `killed_in_every_retained_life` is inferred from the last kill and a
back-off (derive.py:5-7 says only what the result shows is stated); one workload report
can state both `onset_observed` and its negation; two unbound claims on one pod give
contradictory lines; a failing non-functional binding counts as false rather than
unknown; the agent's lines silently take the place of derived ones in `open`;
`owed_ids` follows the first parent only; the comment at pod-pending.yaml:53-56 is stale.

### World, ScenarioDataProofs - a scenario's files

One scenario's data on one machine, used without a lock by the author's command and a
run. A recording is named by its moment; a digest by what it is the digest of; a file
that a killed command left is `Torn`, one cut short in the repository or on the way
is `Cut`. Commands are steps, and `Stop` may come between any two: `Record*`,
`Skill*` and `BuildWiki`, `Backfill*`, `Reference*`, `Results*`, `Put*`/`Publish*`/
`PinCapture`/`Stage`/`Commit` (git commits all that is staged, an earlier command's files
too), `FetchAll`, `Seal`; people `Review` and `EditList`. The run
is `RunLoad`, `RunCheck`, `RunReplay`, `RunMetrics`, `RunSync`, `RunUpload`,
`RunStamp`, `RunGrade`, with `Refuse` where the code refuses. `home` is the author's
machine, otherwise one that only fetches; `own` this repository's scenario, otherwise
one of a hold-out suite, with its seals.

`OneMoment`: capture, metrics, manifest and skill of a graded run are those the truth was
reviewed against, at one moment. `GradedAsSeen`: what it is graded on is what
the agent read. `FetchedIsWhole`, `CommittedIsWhole`: nothing torn travels.
`ScoredAsSealed`: a hold-out run is graded on what was last sealed. Each names the one
window it leaves: the skill after the last check, a capture written during the run or
backfilled (which keeps `captured_at`, so no check notices it; runner.py:79-81), the
manifest elsewhere (pinned by nothing), the checklist, read only at grading, and for
`CommittedIsWhole` the metrics block that a run writes anew between publish's check of it and
its copy, so that another block is committed under the checked one's name (`swapped`).
The run's bound of 5 commands does not reach that one; the proof did, as a case
that would not close, and TLC's trace of 7 commands shows it.
The finding `world_publish`: a publish stopped after it created a file says "already published" when
it is run again, and never commits it (cli.py:568); one stopped after `git add` is committed by the next that adds
anything. A publish that *fails* at its
second file leaves the same. A skill is replaced by removing its directory first: a run may
find it torn or gone, and what it fetches into the gap ends the author's command (`SkillEnd`). Left out: the legacy form of the skill (the same code), the
loop over scenarios, two author's commands at once, and the installation of a fresh
unpinned block (`ensure_metrics`).

### Scores, ScenarioDataProofs - batches and the baseline

Batches of runs by `scenario run`, which loads truth and grader when it begins and the
list attempt by attempt (`StartRun`, `Attempt`, `Grade`, `Ungraded`, `EndRun`), by
`rescore`, the gradings for agreement (`StartAgreement`, `EndAgreement`), the table
against the baseline (`Table`, `Pinned` = `_world_changed`), `compare` (`Refuses`)
and `baseline`, while people record again, review, edit the list or change the grader.
`LikeWithLike`: what is compared was run on one capture and scored by one list
and grader. `BaselineAgreed`: a baseline that was not forced stands on gradings that
agreed, of its own list by its own grader; the files given with `--agreement` are judged
as one pool, which meets the bar only if one of them does (`Agrees`).
The exceptions are what the code does not notice: a file edited while a command runs
(`raced`: the checklist's digest is taken after the grading, cli.py:1209 says it is read
once); a rescore, which stamps a run with the pin of today's capture (`moved`), or takes
the verdicts of an older grader (`old`: the table asks only the baseline for its grader,
report.py:486-491, against its docstring at 207). Seen besides: an aggregate's pins are
its first run's; agreement on any answers is accepted, although "on the run's own
answers" is meant; a batch without a valid run can be promoted by the rubric's path.

### Grading, ScenarioDataProofs - from an answer to a verdict

The rubric: a panel (`StartGrade`, `GradeOnce`, `GradeFails`, `EndGrade`) each member of which
misreads or skips one thing (`Gradings`); `Settled`, `StandingOk`, `Calibrated`, `Restraint`
settle it by the truth, `Dimensions` and `Majority` make the verdict. The
checklist: `GradeList`, `Met`, `Score`, and `ScoreAgain`, which the view guards, while people
edit (`Revise`). `PassedOnMerit`: a dimension is passed only if the answer is right in
each thing the truth holds it to, or most of the panel misread that very thing.
`MetOnMerit`: an item is met only as the answer meets it in the scored wording, or the
grader misread the text it was shown. What the code lets pass, and the properties say
so: a skipped candidate is not placed but counts as calibrated; a trap or gap the
grader skips is not counted at all, so one vote among withheld ones decides, although
"a verdict half the panel withheld has not been shown" (grader.py:496).

### Mining, KnowledgeProofs - guides into knowledge

`kb mine` on one family: `Fetch*` in two steps per source, `Extract*`, `Merge*`, `Call` with its
price, the caches by key (`KeepAnswer`, `KeepMerge`), the limit (`Spent`), one repair,
`Check` of the draft beside the files that are there, `WriteDraft`; `Stop` anywhere,
`Publish` a new edition of the guide, `Edit` of the files beside. `Over`, `Clash`, `Kinds`,
`Reachable` (the least set that `Reached` closes), `Problems`, `Builds` are how layers combine and what the build refuses;
`Lookup`, `Refine`, `Offered` what the agent is offered of the result.
`QuotesHold`: whatever models invent and caches hold, a citation is a passage of
the text read. `PaidOnce`: an answered call is not made again. `DraftBuilds`: a
draft without problems builds, and hides no hypothesis of its alert from the agent.
The exemptions are what the code does: a merge that passes the limit is paid and lost
(it spends before it keeps, mine.py:702-705); a name that another mined file defines
passes the draft's checks and fails the build ("defined in both"), as the draft is
checked as a layer over those files and not among them (mine.py:636); a refresh
stopped between text and date leaves a new text under an old date (`torn`, mine.py:202).
Seen besides: a higher layer that redefines a claim hides that claim's own sub-causes,
against "refinements accumulate" (`load_layers`). Left out: the build's own write, a
half-written cache file, facts, actions, exclusions and prevalence (in `sound`).

## 3. Runs, bounds and fairness

| run | bounds | why they are enough |
| --- | --- | --- |
| `turn_stream` | 3 events per turn, 2 reconnects, both modes | two drops use up the budget inside a turn, after it was refilled by an event; three events put one before, at and after each drop |
| `fact_log` | 2 hosts, 1 script, 2 derived facts, 1 asserted, batches of 2, 3 calls in all | two containers and the script number at once, a batch is torn in the middle, a third call meets the outcome |
| `slack_turns` | scope *crashes*: a mention and a reply of one thread, each delivered twice, 2 workers, 1 crash; scope *pool*: these and a second thread's mention, delivered once; all faults in both | duplicates race on each message, jobs race on the lock and on the session, a crash meets every step; two messages of one thread can hold both workers while the third waits |
| `poller` | 2 items of one session and one of another type, 2 workers, 2 images, 1 restart, 1 failure | a session's second item meets the first one's late respawn, a restart with another image meets every step of `session_image`, and a failure leaves work to redo |
| `deploy` | 5 objects (environment, 2 skills, specialist, coordinator), 1 edit, 2 starts, 3 events: runs of a sync or of a scenario, and faults | three runs beside or after one another, or two and a fault: a sync that was cut is followed by one that repairs it or by a scenario; each process starts before or after each |
| `scenario_run` | scope *suite*: 2 runs with follow-up, 2 containers and 1 skill each, 1 failing call; scope *session*: 3 containers of one session, 2 skills, 3 calls | the second run meets what the first left at work; the watchdog meets every step of a turn and of the next; a third container resumes the record of two, of which one was killed |
| `bringup` | 2 networks, 2 clusters, 2 names of the certificate, 2 images, 5 events outside, 1 failing or killed step | each thing is right, wrong or gone when each step looks; a killed `up` is followed by a second and a change |
| `investigation`, `open_conflict` | all incidents of two nodes, 2 calls, 1 fact of the agent's | two partial views in either order, and a line that no tool stated, before and after `open` |
| `scenario_data` | scope *world*: 2 moments, 5 commands or edits, 1 run; scope *scores*: batches of 2, 2 versions of each thing, 2 edits, 3 commands | record, review, publish, fetch and a run fit, and one of them is stopped and repeated; an edit falls inside a command and one between two, and the third command compares |
| `world_publish` | as *world* | a stopped publish and its repetition |
| `model_answers` | scope *mining*: one guide in 2 editions, one alert with 2 hypotheses, 2 names of claims, 5 answers of the merge, 4 runs, a limit that one call uses up, 1 edit, 1 stop; scope *grading*: a panel of 3, 2 candidates, 1 trap, 2 items with 2 texts, 2 truths, 1 edit | a repair, a stop, a refresh and a repetition from the caches need four runs; a majority of three can be of members that misread different things |

Runs with two scopes choose one at the start and take its steps only: the scopes
share no behaviour, and each is a small instance of its own module.

Symmetry is used in `fact_log`, `investigation` and `open_conflict`, which have no
liveness property. Deadlock is not checked: a turn that was read, messages and items that
were all dealt with, a suite, an incident or a sequence of commands that is over are a
proper end.

Fairness. `EventuallyEnds` assumes that the session goes on with its turn
and that the reader takes the steps it can (one thread, whose every blocking
call ends, with an event or an error). Nothing is assumed of `Break`: the turn ends
however often connections break, because the budget is finite and each event
handed over is a new one. `EveryJobEnds` assumes that a worker that can go on does
and that sessions finish turns. The thread's lock need not be fair, as only
finitely many messages can overtake.

`EveryItemServed` assumes that the claim loop and the workers go on, that leases
lapse, that containers stop their item and exit, and that the platform does not
pass over an item that waits for ever (strong fairness of `Claim`, as the loop holds
one item at a time). Failures and restarts are finitely many: against a failure
that repeats for ever (a manifest that never matches) the code retries for ever too.

`EverySuiteEnds` assumes that the runner and the watchdog are threads that run (`Runner`,
`Mark`, `DogInterrupts`, `Close`) and that time passes (`Expire`: deadlines and grace
periods end). Nothing is assumed of the session or of the containers, which may be
silent for ever: that is what the watchdog is for.

The other modules have safety properties only. What they model is commands that a
person gives or leaves, so that nothing in the code makes a next one happen.

## 4. Proofs

Each theorem is `Spec => []P`, or `Spec => [][A]_v`, or a refinement, for every value
of the constants that meets the assumptions beside their declarations, and the
modules ending in `Proofs` hold them. Where one of these is about several modules, their
specifications have names of their own (`ScoresSpec`, `GradingSpec`, `MiningSpec`,
`SandboxSpec`, `InvestigationSpec`, beside the `Spec` of one). The runs `slack_turns`, `scenario_run`, `scenario_data`
and `model_answers` check their properties under a specification of their own that only
restricts those the theorems are about to one scope at a time. Every safety property that
a passing run checks is a theorem.

* **TurnStreamProofs**: type correctness, `NoLeak`, `GivesUpWhenSpent`, `ExactlyOnce`,
  `Faithful` and the refinement of `TurnReader`, for any log, budget and
  mode. `ExactlyOnce` needs only that `seen` covers what was
  handed over. `Faithful` needs `Order`: the turn's events begin at a known place of
  the log, `seen` is exactly the prefix handed over, and neither what is left of the
  replay nor the connection after it starts beyond the next event expected.
* **KnowledgeProofs**, of FactLog: type correctness, `OneFactPerId`, `Resolves`,
  `KeepsItsId` and the increasing numbers. The invariant says who holds the lock, that the
  holder has read the whole file (so that numbers past its highest are past everybody's),
  and that what a host remembers is in the file under the id it remembers. `Increasing`
  needs no assumption on faults; the other three hold until a line is lost or a host
  numbers without the file.
* **KnowledgeProofs**, of Mining: `QuotesHold`, `PaidOnce`, `DraftBuilds`, for any
  hypotheses, claims, models' answers and bounds. `MiningInv`: the two files of a source
  differ only between their writes or after a stop between them (`Dated`), what a run
  took from a source is in the text it read (`Quoting`), a paid call is in the cache of
  its kind or about to be (`Paying`), and a draft's problems are those of the draft
  beside the files of its time (`Checked`). For `DraftBuilds` besides, `Reachable` and
  `Offered` are least sets, and what closes the second closes the first.
* **KnowledgeProofs**, of Investigation: `FactsTrue`, `TrueCauseKept`, `RuledOutStays`, for
  any number of nodes and of calls, and any facts without a value that the agent may
  record. `ResultsRight`: every tool's result is lines that are right or contested, derivation
  by derivation. `InvestigationInv`: so is the log, `open` read a beginning of it, and the
  rows are what it then said (`Recorded`, `Read`, `Answered`). `CausesKept`: in each kind of
  incident, each alternative that would rule its cause out has a condition that no right
  store makes true; and the causes are within what `Visited` reaches (`CausesVisited`).
  `RuledOutStays`: a store that grows without contradiction keeps what it had
  (`StoreGrows`), so a condition that was true stays so (`ValueStays`), except
  one that asks what a container does not wait for, which holds because
  a container waits for one thing at a time (`WaitingStays`).
* **SlackTurnsProofs**: type correctness (with at most one revision), `RunsOnce`,
  `NeverSilent`, `OneReader`, `AnswersOwnMessage`, and the refinement of `Conversation`. The
  invariant: a message is queued or past its handler at most once (`Deduplicated`,
  `Queued`), jobs that hold a lock differ in their threads (`Exclusive`), a session
  belongs to one thread (`OwnSession`), and in a thread none of whose turns went
  unread, the session's queue is empty or holds exactly the message its
  reader waits for (`Attentive`), which is what makes the outcome its own.
* **PollerProofs**: type correctness, `OneJobPerItem` and `Pinned`. `Pinned` needs that the
  image handed on is the recorded one and that a marker is only ever made or
  written while nothing is recorded (`Recorded`). The latter holds because then no
  container of the session ran, so none of its items was stopped, so it has one
  active item, which one worker at most has (`FirstAlone`, from `OneJobPerItem` and the
  platform's one active item per session).
* **ScenarioRunProofs**, of Sandbox: type correctness, `RecordKept` and `LossIsReported`.
  `SandboxInv`: a skill the watcher saw was in the workspace (`SeenWereThere`), the number
  the count goes on from is past all that were used (`CountIsAhead`), and numbers follow
  the calls (`InOrder`). `CountIsAhead` survives a start because `evidence.py` counts
  from the files there are, and a result is complete when it has its name.
* **ScenarioRunProofs**, of ScenarioRun: type correctness, `GradedIsWhole` and
  `NextRunAlone`, over `SandboxInv` and two parts of `RunInv`: after a turn that was read in
  a run that is neither invalid nor in error, the session ended it properly and has been
  idle since (`TurnsWereRead`), and a run that closes told its session to stop or found it
  idle (`LeftAlone`).
* **BringupProofs**: type correctness, `UpMeansServing` and `NeverWorse`. `BringupInv`
  follows an `up` step by step: it aims at the network there is and the forward listens
  there (`Aimed`), the file was written for that network and, if the cluster answered, with
  a name it goes by (`Written`), a running container read the file as it is, unless that is
  known to be untrue or lost (`Loads`), and while the cluster does not answer the name stays
  the one that was read (`Kept`). What happens outside in between clears `quiet`.
* **DeployProofs**: type correctness, `NoneOrphaned`, `ScenarioIsolated` and `SessionsFit`.
  `DInv` keeps that every object is in a file, with a running sync, or hidden by a fault
  (`AllKnown`), that a sync which saves loses nothing its file names (`ProdKept`,
  `ScopedKept`; what a scenario's state has besides is production's or recorded elsewhere,
  `Borrowed`), and that a scenario's copies and production's originals are different objects
  (`Apart`), so that no step of one writes an object of the other. `FitInv` follows production's
  state through a sync: the revisions it notes are the API's (`Truthful`), the coordinator
  is dealt with after the specialists it pins and these after the skills (`Staged`), so a
  sync that went through leaves a coordinator that names what the file names (`WholeFits`); a
  process that knows the environment of a state file knows no other skills than the file
  (`Loads`: a file that was cut short brings a new environment). A version of an
  object never changes (`Immutable`), so what these name stays what it was, whatever a
  scenario does besides.
* **ScenarioDataProofs**, of World: type correctness, `OneMoment`, `GradedAsSeen`,
  `FetchedIsWhole`, `CommittedIsWhole`, `ScoredAsSealed`, for any number of moments, commands,
  edits and runs. The heart of `WorldInv` is that recording goes forward: at home the block's
  moment is at most the manifest's, and that at most the newest capture's (`AtHome`). A run
  knows after its first check that its truth is no newer than the newest capture
  (`Admitted`), what it replays is between the two (`Replayed`), and so is the manifest it
  read (`Measured`); the second check finds both ends equal, so everything between is one
  moment. `Skilled` and `Admissible` do the same for the skill and the seal, `Away` for
  a machine that fetches, `Authoring` and `Written` for the files a command has in hand.
* **ScenarioDataProofs**, of Scores: `LikeWithLike`, `BaselineAgreed`. `ScoresInv`: a record
  says of its run what happened to it (`Records`), results have the pins of every run they
  are of (`Files`), what a command loaded is still so unless a file was edited
  (`InCommand`), and a table that compared had the baseline's pins (`Compared`, `Agreed`).
* **ScenarioDataProofs**, of Grading: `PassedOnMerit`, `MetOnMerit`, for a panel of any size
  and any answers and truths. `GradingInv`: a verdict is the majority of whole gradings of one
  answer (`Cast`), a score is of verdicts given on the texts it names (`OnItsView`). The rest is
  counting: if more votes pass a dimension than fail it and at most half are
  withheld, and each member that passes it against the truth erred on it, most of the
  panel did (`MostErred`).

Left to TLC: the liveness properties (`EventuallyEnds`, `EveryJobEnds`, `EveryItemServed`,
`EverySuiteEnds`), which rest on fairness and are out of TLAPS's reach, and the two
violations, which are traces. The theorems rest on no assumption but the named ASSUMEs.

## 5. Findings

* `open_conflict` (`kb_query.py`, `status`): a comment says that strong support and a
  ruling-out together mean that a fact is wrong; the run has a pod for which every fact
  is right and the two meet.
* `world_publish` (`cli.py`): a publish that was stopped between creating a file and
  committing it is answered with "already published" when it is repeated.

Smaller disagreements between the code and its comments are named with the modules in
section 2, each as an exception of the property it concerns.

## 6. Not modelled

* `slack/check.py`, `config.py`, `settings.py`: read the configuration and ask Slack once;
  they keep no state and end in a report.
* `mcp_client.py`, and of `tools.py` all but the order in which a call is recorded and derived
  from: one blocking call each, without state.
* `facts/render.py`, the text checks of `review.py` and `skills/k8s-rca/answer_check.py`,
  `timing.py`, promtools' reductions: pure functions of text, a test reaches them as well.
* Of `facts/derive.py` and `src/docs/rca` the parts about pods that do not start and
  containers that restart are modelled, with the claims that weigh them; the other
  families have the same form (a guard on a result, a line) and other data.
* `arch/`, `core/`, `evals/`, kubewiki: sequential generation of documents; of these, what
  the scenario's files depend on is `BuildWiki` in World.
* `cli.py` beyond the commands World, Scores, Mining, Deploy, Bringup and ScenarioRun have
  as actions: parsing of arguments and printing.
* Text, prompts, models' answers as such: whatever a model says is a choice over the
  answers that differ for the code.
