# ModelScraper: a TLA+ verification project

ModelScraper compares the list of models a streaming site shows through a VPN
with the list it shows locally, verifies the difference page by page, and
publishes the pages that are provably blocked to a master list.  The hard part
is not scraping; it is that the program owns two things that outlive a crash:
the master list files, shared by every session of a workspace, and the
machine's VPN and Chrome routing, shared by every checkout on the machine.
This directory models the code that guards them, checks it with TLC and proves
part of it with TLAPS.

Paths below are relative to `src/`.

## Inventory

| Component | State it keeps | Operations | Who it talks to | What makes it correct |
|---|---|---|---|---|
| Master publication: `workflow_finalizer.py`, `master_repository.py`, the merge and projections of `stripchat_store.py`, `storage_utils.AtomicWriter` | live master JSON/TXT/metadata/backup; per run the staged files, `publication/journal.json`, `publication/commit.json`, checkpoint seal; root views | `finalize` (phases A and B), `recover`, `_roll_forward`, `prepare`, `validate_prepared`, `commit` | the run store for states and pointers; called by the runner's Step 4 | nothing shows before the witness; a witness can always be rolled forward; nobody's entries are lost; success means projected |
| Run store: `workflow_store.py` | `manifest.json` (steps, artifacts, publication, restoration, waiting), `run_state.json`, `checkpoint.json` | `create_run`, `record_step_attempt`, `set_publication_state`, `set_committed_generation`, waiting states, artifacts | every runner and the finalizer | states only move forward; two-file updates survive a crash between them |
| Stripchat adapter: `stripchat_adapter.py` | none of its own | `prepare_run`, `prepare_step`, `inspect_resume`, `run_*`, `record_restoration` | coordinator, run store, runner | resumes the run that was interrupted, at the right step |
| Machine policy: `machine_policy.py`, `mullvad_vpn.py`, `runtime_lock.py`, `manual_workflow.py` | `machine-policy.lock`, `active.json`, `transactions/<id>.json`, the VPN connection, Chrome's split-tunnel exclusion | lease, `begin`, `record_transition`, `restore`, `recover_pending`, `_mirror_origin`, `set_manifest_sync`, `clear_active` | both coordinators, the manual step, the service's restore and reconcile | a change to the machine is journaled until it is undone; one user at a time; only the owner repairs |
| Coordinators: `workflow_coordinator.py` | the leases for the length of a task; the run's outcome | `run`, `run_step`, the legacy `run` | adapter, machine policy, workspace lease | every exit restores; the outcome tells what happened |
| Verifiers: `workflow_verifier.py`, `ctb_verifier.py` | records per candidate, retry epoch, attempts, all in the checkpoint | `verify`, checkpointing, escalation | page verdict provider, run store, finalizer | no candidate skipped or tried beyond its budget; only confirmed pages published |
| Service: `modelscraper_service.py` | task desk (busy, task, platform, thread), sessions per platform, last outcome per platform, subscribers' queues | start, stop, settings, restore, reconcile, master edits | web and Qt front ends (events), coordinators | one task at a time; every task ends with an outcome; a stop reaches the running task |
| Snapshot clients: `stripchat_api.py`, `ctb_api.py`, the browser of `ctb_core.py` | passes collected so far | paging, passes until stable, retries | HTTP, websocket | an incomplete or unstable snapshot is never taken for a complete one |
| Browser runtime: `stripchat_core.py`, `stripchat_browser_runtime.py`, `temp_profile.py` | driver, profile lease, challenge deadline | open, restart, reveal, hide, quit | verifier (verdicts), run store (waiting) | one driver per profile; challenges end |
| Chaturbate runner and store: `ctb_core.py`, `ctb_store.py` | session lists, manifest, checkpoint, final list; the master folder | steps 1-4, compile, verify and edit the master | master repository, CTB verifier | the final list is what the pages showed last; the master forgets nothing it knows |
| MyFreeCams runner: `mfcscrape.py`, `mfc_verifier.py` | session lists, two snapshots in memory, the master folder | steps 1-4, snapshots, compile and edit the master | coordinator and service (who hold the references) | a confirmed page is one this connection is not offered; text and JSON agree |
| Legacy family: `legacy_stripchat_family.py`, `xhamsterlive_core.py` | lists in the session folder | steps 1-4 over Selenium | legacy coordinator | route per step |
| Classifiers: `stripchat_classifier.py`, `ctb_classifier.py` | none | page observation to verdict | verifiers | a page is BLOCKED only on evidence |
| Types and contracts: `workflow_types.py`, `platform_contracts.py`, `platform_workflow.py` | none | outcome aggregation, validation | coordinators | an outcome never claims more than its steps |
| Preferences: `app_settings.py`, `location_profiles.py`, `country_choices.py`, `external_search.py`, `session_registry.py` | settings file, session binding | validation, load, save | service | input is validated |
| Front ends: `web_app.py`, `gui_app.py`, `ui/`, `web_static/` | none shared | one call each | service | presentation |

Sessions of one workspace share one `WorkflowLease` (`runtime_lock.py`), taken
by the service's task thread or by the hardened coordinator, so two tasks of a
workspace never run at once; two processes of one checkout, and processes of
different checkouts, do meet at the machine policy.  What is hard here is
therefore what one task leaves behind for another: crashes between two writes,
writes that fail, and stale knowledge used after a lock was taken or released.
`PROJECT.json` lists those hazards at their lines.

## Modules

### Publication (`Publication.tla`, abstract: `MasterLedger.tla`)

One action per durable write of Step 4, from `create_run` to the recorded
success; `pc` is the next write of the process that holds the workspace lease
and `cur` its run.  `json`, `txt`, `meta` and `bak` are the live master files,
`pub`, `recovery`, `verify` and `artifacts` the manifest, `staged` and
`journal` the prepared revision, `witness` is `publication/commit.json`,
`active` and `pointer` are `run_state.json`, `roots` the compatibility views.
A master entry is a page together with the run that added it, because a
session number and a timestamp make two publications of one page differ in
their hash.  A verification is abstracted to the blocked set it ends with;
Steps 1-3 to one action.

`WriteFails` sends the process to the handler that catches the exception at
that write, `Crash` stops it anywhere, `LoseView` and `LoseJournal` remove
files between processes (the code checks for both).  Retry epochs of the
verifier are not in this module: a verification ends complete or incomplete.
Three defensive branches no reachable state can enter are left out; the
module's header names them.

`MasterLedger` is what a reader of the list is promised: a publication is
decided once, then absorbed, then published, and names never leave the list.

### Machine policy (`MachinePolicy.tla`, abstract: `PolicyFence.tla`)

Apps are processes, each of one checkout, running one task at a time: `flow`
(the hardened run or step), `legacy` (the coordinator without a journal),
`manual` (a manual step), `restore` and `reconcile` (the service's machine
policy operations) and `plain` (a task under the workspace lease only).  One
action per lock, journal write, VPN command or split-tunnel command; `machine`
is the real VPN connection and Chrome exclusion, `active` is `active.json`,
`docs` the transaction documents, `manifest` the restoration state in each
run's manifest.  `goal` is the relay of the controller the task was given when
it started.  The auxiliary `touched` names the transaction (or `Legacy`) that
has changed the machine and has not restored both of its parts.

A VPN command may fail after it took effect or before (`Command`), every write
may fail, and `Crash` drops the locks of the process but none of its files, as
the operating system does.  Nobody outside the program changes the VPN: the
repository's README asks for that ("Do not run another VPN-changing tool
alongside it").  The status `restoring` is never written by the code.

`PolicyFence` is the promise: one checkout at a time at the machine; an open
obligation keeps every other checkout from changing it; it is closed only with
the machine where it was promised to be.

### Verification (`Verifier.tla`, abstract: `Triage.tla`)

`GenericCheckpointedVerifier.verify` with the Stripchat runner around it.  On
disk are `checkpoint` (epoch and records), `retryEpoch` and `verify` of the
manifest, and `finalized`, what the finalizer accepted (its own writes are the
module Publication); in memory `records` and `epoch`, which are the
checkpoint's or, from reading it until the next write, those of the epoch
after it.  One action per durable write and per place where the code looks at
the stop flag: `Load` advances a spent epoch as `_maybe_advance_epoch` does,
`SetRetryEpoch` is the manifest's guard against going back, `Visit` and
`JudgePage` are one attempt (the verdict counts even if a stop arrived
meanwhile), `Escalate` is a browser that could not be restarted or a challenge
past its deadline, and the `Report...` actions record the attempt.  `LoadFails`
is everything that goes wrong before the first page (the comparison, the
policy, the artifact or the checkpoint is refused, no browser starts): a failed
attempt is recorded over whatever the manifest said, also over the request for a
new run, or the record is lost, since `_outcome` and `_failed` swallow a failed
write.  Such failures are taken to pass; a run whose candidates can never be
read again is out of sight.  `FinalizeLater` is a finalizer that was stopped,
failed, or found the master moved; its recovery of an earlier publication
belongs to `Publication`.

The page is reduced to what the verifier does with a verdict: blocked,
accessible, terminal unknown (disabled), unknown until confirmed often enough,
unknown.  Browser restarts inside one attempt, the waiting state of a
challenge and identity checks of URLs are left out.  The candidates of a
generation never change, because an artifact is registered once
(`workflow_store.py:476`).  A checkpoint write that fails ends the step with
the old file in place, as `Crash` does.

`Triage` is the promise: each page is judged at most once, the blocked ones
are handed on when all are judged, and a run given up judges no more.  Giving
up (`givenUp`, the epochs spent in the checkpoint) is for good; the request for
a new run (`told`, the flag in the manifest) may be lost to a failed attempt and
is made again, and only when no page will be judged any more.

### Service (`Service.tla`, abstract: `TaskDesk.tla`)

The task desk of `modelscraper_service.py`.  Clients are the threads that call
the service: the desktop window, and the worker threads of the web server's
synchronous endpoints.  `busy`, `current`, `desk`, `platform`, `view` and
`thread` are fields of the service under its lock; `registry` the session
registry; `runner` and `bound` the folders the runners and adapters work in;
`stopFlag` their stop flags; `outcome` the outcome shown per platform; `lease`
the workspace lease as far as this process holds it.  Each caller has a record
(`client`): where it is between two locked sections, and the local variables it
goes on with.  Each accepted task has its thread's place (`worker`).

One action per locked section and per call that changes state outside the lock.
What makes the module worth having is that nearly every operation reads under
the lock and acts after it: a start accepts a task (`Reserve`), then validates
or creates a session (`KeepSession`, `OpenLease`, `ChooseSession`, `Register`,
`ShowSession`, `SteerRunner`), clears the stop flag, stores the thread and
starts it, or fails anywhere (`FailStart`); `AskStop`, `Aim` and `SendStop` are
three looks at the desk; `_finish_task` frees the desk (`Finish`) before the
event (`Announce`) and the handle (`DropThread`).  A start reads its adapter or
runner before it takes the lock, so a task has the platform it counts for
(`home`) and the one it works on (`target`).

Another process that holds the lease shows only as a refusal, which may come at
any attempt.  A task's function is abstracted to how it ends: with a
`RunOutcome` or without (the stop flag is one of the things it looks at).  A
task is `typed` when the code calls it hardened, which must leave an outcome.
Left out: status texts, progress and the state events, an adapter that could
not be created, a thread that could not be started, and reloads of lists after
a task, which are taken not to fail.

`TaskDesk` is the promise: a task is accepted only when none is on the desk,
leaves it launched or dropped, and is announced once, after it left.

### Chaturbate runs (`Chaturbate.tla`)

A run in its session folder (`CTBRunner`, `ChaturbateRunStore`,
`ChaturbateVerifier`).  On disk are `active` (the run `run_state.json` points
at), per run the `manifest`, the `artifact` lists and the `checkpoint`, and
`view`, the lists in the session folder that readers use; in memory the
candidates `urls`, what is `known` of the master, the verdicts and tries so
far, the `round` and its `batch`.  Steps 1 to 3 fetch or compare, save the
artifact and record the step; Step 4 drops candidates that joined the master
from its checkpoint (`Prune`, which goes on in silence when it cannot read it),
reads it (`LoadCheckpoint`, or a mismatch), and
goes through rounds of batches, a checkpoint after each (`Visit`, `KeepBatch`).
`SaveFinal` and the three writes after it keep the code's order: the artifact,
the recorded success, the projected list, the compiled master, and a failure
after the success records the step again as failed.

What makes it hard is that a verification that was stopped or killed is taken
up again on a master list that has changed.  `Edit` is such a change, `Crash` a
death anywhere, `StepFails` the handler around Step 4.  The auxiliary `last` and
`visits` are what the pages really showed and how often they were opened,
`moved` and `missed` say why a checkpoint may not fit: candidates changed
otherwise than by joining the master, or this attempt failed to prune it.  A
verdict is one of four kinds: blocked, accessible, read without an answer, not
reached.

### Chaturbate master (`ChaturbateMaster.tla`)

The master list over many sessions (`CTBRunner` over
`GenericMasterRepository`): an entry is dated by the session that found it,
and carries profile matches, the operator's mark, the country, and how far its
verification is.  `Compiled` is `compile_master_list`, `Judged` and `AllJudged`
are `apply_verification_records`, `Batches` the order in which
`verify_master_list` takes its candidates.  One action per durable write: text
and JSON are two files, the ban of a removed page a third.  Sessions and
verification runs only leave results here (`Conclude`, `Look`); they are bound
to the location policy they began under (`bind_session_location_policy`).  A
file that cannot be read counts as empty in `PublishCompiled`, as it does in
the code.  `runsFree`, `buried`, `slipped`, `since` and `blind` are auxiliary: a
page is `buried` when a block is complete or a verification published the
master without it, and has `slipped` when that verification ended before it
wrote the ban, the one case besides an unreadable file in which it comes back.
Entries an older version dated "Manual", which a compilation dates anew
(`ctb_core.py:1620`), are taken not to exist.

### Snapshots (`Snapshot.tla`)

Listing who is online over a paged, cached feed that moves while it is read:
the Stripchat client (three equal passes of different cache generations, a
quarantine), the Chaturbate one (two passes that agree, counted by hits) and
the browser that takes over from it.  One action per request: a page arrives
whole or empty, a request fails and is retried, the feed is renewed (`Roll`)
in the middle of a pass.  `stuck` is a service that ignores the offset.  What a
pass makes of it (`LastPage`, `Loops`, `Whole`, `CapPages`) and what a
collection makes of its passes (`JudgeStripchat`, `JudgeChaturbate`) follow each
client's own rules; thresholds are fractions.  `now`, `online`, `steady` and
`sampled` record who was really listed.

### MyFreeCams (`MyFreeCams.tla`)

`MFCRunner` with the service and coordinator that drive it.  `air` is who is
on air, `Hidden` whom this connection is not offered.  A flow is a sequence of
stages (`Following`, `Onward`): two lists, their comparison, two snapshots that
are kept in memory only, the judgement, and the compilation of the master.
`Attempt` asks one server after the other and takes what it gets, a listing cut
short included.  `refs` are the references of the manual Steps 1 and 2, which
age, and are dropped when session or provider change.  Every file is truncated
and rewritten in place, so a failed write leaves a prefix of a list (`Remains`)
or a torn JSON.  The edits of the service (add, remove, ban, country) rewrite
one file after the other.  `slipped` records who was on air and offered, and
still missing from a snapshot.

## Runs

| Run | Instance | What it shows |
|---|---|---|
| `publication_safety` | 2 sessions, a run each, 3 pages, 2 views, 2 crashes, 1 fault, 2 stagings per run | the safety properties of publication between sessions |
| `publication_session` | 2 runs of one session, blacklist, shadow mode, 1 crash, 1 fault | `ImplementsLedger`; success is never partial although the newer run takes over the pointers |
| `publication_liveness` | 1 run, 2 crashes, 2 faults | the lease always comes back; a committed run is projected |
| `publication_wedge` | 2 sessions, 1 crash | violated: a committed run may meet a moved master |
| `policy_safety` | 3 processes of 2 checkouts, all six kinds of task, 1 transaction, 1 crash, 1 failure | `ImplementsFence`; changes stay journaled, steps keep their route, a manual route stands, only the owner writes |
| `policy_liveness` | 2 processes of one checkout, flows and restorations, 2 relays, 2 transactions, 2 crashes, 1 failure, 1 change of preference | the lease comes back; an open transaction is closed |
| `verifier` | 2 candidates, 3 epochs of 2 attempts, 2 crashes, 2 stops, 2 setbacks (failed attempts, lost browsers) | the manifest never refuses an epoch, resuming is possible whenever it is announced, `ImplementsTriage`; a verification that is started again until it is over ends |
| `service` | 2 callers, 2 platforms (one adapter, one runner), a session folder each, 2 tasks, 2 requests | `ImplementsDesk`; tasks keep their session, stop and outcome; no lease left behind; every accepted task is announced or dropped |
| `chaturbate` | 2 pages, 1 run, batches of one, 2 attempts, 5 steps, 1 crash, 1 failure, 1 stop, 1 edit | the recorded list is what the pages showed last; visits stay bounded; a checkpoint is refused only when candidates changed or pruning it failed; steps end |
| `master` | 2 pages, 2 sessions (one without a date), batches of two, 4 session or verification runs, 1 edit, 1 mishap | removal takes two looks, blocked and removed pages stay out unless a death came before the ban, compilation forgets nothing, pages get their turn |
| `snapshot` | 3 models in 3 feeds, pages of two, 2 renewals, 2 faults | a pass is exact over a feed that stands still; what is accepted was there twice; collections end |
| `myfreecams` | 3 pages (one hidden), 2 sessions, 2 servers, 4 events | confirmed entries are hidden pages or were missed by a snapshot; the two files agree; a compilation keeps what it overwrites |

**Bounds.**  Two sessions (or runs, or processes) are enough for every pairwise
interleaving the leases leave possible, and one more crash than a recovery
takes lets the recovery itself be interrupted.  Two stagings per run allow one
restaging after a lost journal.  `MaxCrashes`, `MaxFaults`, `MaxFailures`,
`MaxRelayChanges`, `MaxStagings`, `MaxStops`, `MaxSetbacks`, `MaxRolls`,
`MaxMishaps` and `MaxEdits` of `Chaturbate` bound what the environment does,
never what the code does; `MaxTasks`, `MaxCalls`, `MaxStarts`, `MaxRuns` and
`MaxEdits` of `ChaturbateMaster` bound what is asked of it, and `MaxEvents` of
`MyFreeCams` both together.  Two tasks let one be accepted while the other is
still ending, two requests let a session request or a stop meet a platform
switch.  Three epochs are the least with a first, a middle and a last one; two
attempts let an epoch be interrupted half-way, and two candidates differ in
where they stand.  Four runs of `master` are a session and three verification
runs, one more than a removal takes.  In `snapshot` a feed of three over pages of
two has a short last page, and one model that comes or goes shifts the others
across the page boundary, twice.  Four events of `myfreecams` are, say, a flow, a page that leaves between
its snapshots, a death and an edit; with five it holds as well, in more time
than the project's runs take.  The counters that the theorems need no bound for
are bounds of TLC only: the proofs hold for every value of these constants.
Deadlock checking is off throughout: once the runs, starts and transaction ids
of an instance are used up, the system may really stop.

**Fairness.**  `publication_liveness` assumes that the process keeps stepping
and that an operator whose run is not done starts Step 4 again; the lease is
released by the operating system when a process dies.  `policy_liveness`
assumes that tasks run on (commands have timeouts, locks never wait) and that
an operator who is told a recovery is required asks for it.  The `service` run
assumes that threads run on: a caller inside the service returns, a background
task comes to an end (its own waits have deadlines); no fairness is put on
calls.  The `verifier` run assumes that the step runs on (every wait in it has a
deadline) and that Step 4 is started again until it succeeded or asked for a
new run; no fairness is put on stops, crashes or verdicts.  `chaturbate` and
`snapshot` assume only that the step, or the collection, that runs goes on: its
loops never wait for anybody, requests and page loads time out, and no fairness
is put on starts, verdicts or the feed.  The faults are bounded, so each
liveness property says: once failures stop, it happens.  `myfreecams` and
`master` have no liveness property: their operations are straight lines.

**Findings.**  `publication_wedge` violates what a docstring says
(`PROJECT.json` has the line): after the witness, publication can still
conflict, when the process dies and another session publishes first.

Other disagreements that TLC shows are kept as notes of the hazards rather than
as runs, because nothing in the repository states what they break, or because
one line of the code already tells: the first publication has no base revision
to conflict with (`workflow_finalizer.py:355`); a projected run whose success
was not recorded can never succeed (`workflow_store.py:641`); recovery restores
the present relay preference, not the recorded one (`machine_policy.py:432`); a
failed probe counts as a new generation of the cache (`stripchat_api.py:497`);
a Chaturbate run whose pages stayed unreachable announces a resumption that has
nothing left to try (`ctb_verifier.py:192`); and repeating an earlier step
leaves the results of the later ones standing (`ctb_core.py:3225`,
`mfcscrape.py:440`).

## Proofs

Each proof module proves its theorems for every value of the constants, under
the `ASSUME` of its component's module, which TLC evaluates for every run; none
of the bounds above is used.  The properties are not inductive by themselves, so
each follows from a chain of invariants, proved with the help of the ones before.

**Publication** (`PublicationProofs.tla`): `TypeOK`,
`NothingVisibleBeforeWitness`, `CommittedStagingIsKept`,
`SuccessMeansProjected` and `OverwritesAreBackedUp`, and, assuming that a live
master exists at the beginning (`Seeded`), `NoEntryIsLost`,
`PublishedStaysInMaster`, `ImplementsLedger` and `TornMasterIsRepairable`.
`CommittedNeverConflicts`, which `publication_wedge` refutes, holds where there
is a single run.

1. `VisibleInv`: whoever is past the boundary holds a witness
   (`DecisionIsDurable`), and staged files contain only entries of the run
   itself or of runs with a witness; so committing them shows nothing early.
2. `StagingInv`: what the process holds in memory is what it has staged so
   far (`MemoryIsStaged`), a witness follows a prepared journal, and no action
   past it stages again.
3. `EntriesInv`: every revision merges its recorded base (`MergesItsBase`), and
   at the moment the live JSON is written, the live JSON still is that base.
4. `PublishedInv`: from the commit on, what the run wanted is in the live file;
   with 3 it stays there.
5. `SuccessInv`: what the process has made true on the way to `record_success`.
6. `RepairInv`: how far the three live files are written (`WritesInOrder`), and
   that what they name is decided and, once projecting, contained in the live
   JSON (`LiveIsDecided`), so that a second recovery writes nothing new.
7. `MovedByAnother`: where the master on disk is no longer the base of a decided
   revision, another decided run has put its own there; `DecidedInTime`: who
   finalizes writes over the master it has compared.  So a commit is refused
   only in a recovery, and only because another run published since
   (`OnlyRecoveryIsRefused`): the finding needs two runs.
8. `IntactInv`: what a recovery goes back to is still there.  So the branches
   the module leaves out (its header names them) are never taken, and no refusal
   leaves a step with nothing to do (`WorkGoesOn`).

The refinement follows from these: `StepLedger` maps each action to a step of
the ledger or a stutter.

**Machine policy** (`MachinePolicyProofs.tla`): every safety property,
for any processes, checkouts, crashes and failures; the refinement
`ImplementsFence` assuming that nobody edits the relay preferences (`Steady`).

1. `ContextInv`: the pointer, and every task past opening or picking up a
   transaction, name a document that exists.
2. `AppInv`, four facts about each process: whoever is past `AcquireMachine`
   holds the lease (`Leased`), which tasks come where (`Stage`), how the task
   stands to the journal (`Work`: who is about to open one finds none open, who
   is in the body of a flow has opened its own, who is about to close one has
   recorded its restoration), and how the machine stands to the step
   (`Route`).  `TouchedIsJournaled` is inductive only together with `Work`.
   `StepsAlone` and `OneAtATime` carry the argument: a step changes the machine
   or the journal only under the lease, and outside the lease the four facts
   claim nothing, so one process's step leaves the facts of all others alone.
3. `SteadyRelays`: controllers and documents have the relay of their checkout's
   preferences; `AtTarget`: a restoration that went well has put the machine
   where the open document says.
4. `AllArrive` and `RestoredIsRestored`, the part of 3 that holds under any
   edits: a restoration that went well leaves the VPN connected to a configured
   relay and Chrome excluded.  Hence `OnlyItsOwnerTouches`, the machine of an
   open transaction is changed by its own checkout only, and
   `NothingClosesUnrestored`, which are what is left of the fence where the
   preferences are edited.

`StepFence` maps each step to a step of the fence or a stutter.  `Steady` is
necessary: `recover_pending` restores the relay of the controller at hand, which
after an edit of the preference is not the one the document recorded.

**Verifier** (`VerifierProofs.tla`): every safety property, for any
candidates, budgets and epochs.  `MemoryInv` carries it: what the process
knows is the checkpoint (`Same`) or its next epoch (`Ahead`), which is enough
to see each write as one of four changes (`HowCheckpointsChange`).  On top of
it `EpochInv` bounds how far the manifest can be ahead of the checkpoint,
`SoundInv` ties a record's class to its flags, `SpentIsOpen` and
`GivenUpForGood` say that spent epochs leave a page open and stay spent,
`PromiseInv` that whoever is offered a resumption is not told to start anew, and
`PendingInv` that a step is only stopped while something is left to try.
`AttemptsAreBounded` is inductive with `MemoryInv`; the refinement follows from
`VerdictsStay` and `CompleteIsSettled`.  `Rounds`: a step that runs to its end
unhindered settles the run or has spent an epoch that was not the last.

**Service** (`ServiceProofs.tla`): every safety property, for any number
of threads, platforms, folders and tasks.  `TypeInv` adds to the types what a
caller's locals hold where they are used.  `DeskInv` says that the accepted
task is the only one on the desk and the latest (`DeskHolder`, `Numbered`), and
that at most one caller is launching it (`Starters`); most steps leave all of
that alone (`Quiet`).  On top of it the lease, the outcomes and the refinement
follow; `FolderInv` adds that a session about to be shown has passed the
registry, and `JoinInv` that whoever waits for a task waits for one whose thread
was started and that nobody drops.

**Chaturbate** (`ChaturbateProofs.tla`): `TypeOK`, `ResumeFits`,
`FinalIsLastVerdict` and `VisitsAreBounded`.  `TypeInv` and `ControlInv` say
which files a step that got somewhere has found; `RoundInv` that a batch is part
of its round; `CandidateInv` that the candidates of a checkpoint, together with
what joined the master, are those of the comparison unless `moved` or `missed`; and
`VerdictInv` relates what is known to what was seen: at rest the checkpoint
(`AtRest`), in a step the memory (`InHand`), and between a visit and the next
checkpoint the one may be ahead of the other (`Kept`, `Ahead`) by what a crash
would lose (`Bounded`, `Losses`).

**Chaturbate master** (`ChaturbateMasterProofs.tla`): `TypeOK` and all four
properties.  `TypingInv` includes that the text is the JSON's between
operations; `BanInv` that whatever was buried and has not slipped is banned, or
about to be by the verification that runs (`InTheAir`); `FreeInv` that an entry counts exactly the accessible
runs since it was last seen blocked; `TurnInv` is about clocks: every entry was
last looked at before the operation that runs began (`AtInv`), a batch is a
prefix of the candidates in order (`BatchInv`), and pages looked at since
another page went pending have a later time than it (`OrderInv`).
`KnowledgeIsKept` needs what the fold over the sessions yields.  `Scan` is the
fold, one value per number of sessions passed; by induction it stays at the
earliest session that has the page (`NoneEarlier`, `DiscoveryIsEarliest`).  The
induction is about a set, the numbers for which it fails, through
`WellFoundedInduction`'s minimal element.  `SessionAssumption` says that the
operator's mark is no session's name.

**Snapshot** (`SnapshotProofs.tla`): `TypeOK`, `PassIsExact` and
`AcceptsWhoIsOnline`.  `Reading` says that a pass over a feed that stands still
has met exactly the models up to its offset, `Reach` that it ends only where
the feed ends.  `MetInv` says that whoever a pass has met was listed while it
ran, `OpenInv` ties the pass under way to the collection, and `WindowInv`,
`HitsInv` and `GenInv` say what a client remembers of its
passes: the models each met, how often a model was met, and that the
generations of the cache they were read in increase.

**MyFreeCams** (`MyFreeCamsProofs.tla`): `TypeOK`, `MasterIsSound`,
`ListsAgree` and `CompileKeepsTrack`.  `DiskTyped`, `MemoryTyped` and
`ControlTyped` are the types; `PairInv` says of a pair of snapshots in memory,
and of references that still serve, that whoever is in the first and not in the
second is hidden or slipped; `FilesInv` carries that through the verified lists
into the entries that are confirmed; `AgreeInv` follows the two files through
each edit and compilation; `TrackInv` follows the dated copy.

**Getting on**, the safety half of termination: in `Publication`,
`MachinePolicy`, `Verifier`, `Service`, `Chaturbate` and `Snapshot`, the modules
with a liveness run, a theorem `Progress` says that every step leads whoever
makes it to a later stage, or uses up one of a bounded number of attempts, pages
or turns (`NoStepIsInVain`); nothing is done over for nothing.  Whoever keeps
taking steps therefore ends.  `MachinePolicy` needs an invariant for it: only
MyFreeCams takes a second look through the VPN (`SecondLook`); a flow restores
the machine at most twice, to recover before its own work and to finish after.

What is left to TLC is liveness, for TLAPS reasons about neither fairness nor
ENABLED: `LeaseIsReleased`, `CommittedIsProjected`, `LeaseComesBack`,
`PendingIsClosed`, `VerificationSettles`, `TaskIsSettled`, `StepEnds` and
`CollectionEnds`.  They add that a next step exists and is taken.  Every safety
property of a passing run is proved.

`AttemptsAreBounded`, `PublishedStaysInMaster`, the types of the proved modules
and a few more definitions are theorems only, without a run of their own.

## What is not modelled

- **Transport and pages**: Selenium, HTTP, websockets, the text of pages and
  their classifiers.  They decide which of a handful of outcomes a request or a
  visit has, and every outcome is possible in the models.
- **Stripchat Steps 1 to 3, the waiting state and the resume points of
  Steps 1 to 3**: one action of `Publication`.  They write each file once, under
  the workspace lease.  The snapshot they start from is `Snapshot`.
- **The legacy Stripchat family and XHamsterLive**: a sequential scrape; what it
  shares, the machine, is the `legacy` task of `MachinePolicy`.
- **Dead code**: the methods of `ctb_core.py` named `_legacy`,
  `_finalize_candidate_verification`, `adopt_legacy` (tests only),
  `MFCLiveVerifier`, `get_models_aggressive`.
- **Events and progress**: status texts, state events and their queues repeat
  fields the models have.
- **Outcome aggregation and contracts**: `RunOutcome.calculate` and the
  validation in `platform_contracts.py` are functions of a few lines; the
  models pass outcomes on as values.
- **Preferences**: tables of countries and search links, validation of input.
- **Front ends and packaging**: one call each.

Time is abstracted to nondeterminism: a timeout may or may not fire.
