----------------------------- MODULE Publication -----------------------------
(***************************************************************************)
(* Publication of a verified run to the live master list: the finalizer's  *)
(* two phases and its roll-forward recovery (workflow_finalizer.py), the   *)
(* master repository it commits to (master_repository.py), the part of the *)
(* run store they share (workflow_store.py) and the adapter's rules for    *)
(* which run a process may pick up (stripchat_adapter.py).                 *)
(*                                                                         *)
(* Sessions of one workspace share the live master files.  The workspace   *)
(* lease admits one process at a time, so the interleavings that matter    *)
(* are those of crashes, failed writes, cancellations and of one run being *)
(* left half way while another session publishes.  Every durable write is  *)
(* one step: AtomicWriter replaces a file whole or leaves it alone.        *)
(*                                                                         *)
(* Staged files that a witness names are not lost here, and no view is     *)
(* lost while a process runs, so the branches for committed staging that   *)
(* cannot be read and for a projection found broken at once never arise.   *)
(***************************************************************************)
EXTENDS Integers, FiniteSets

CONSTANTS
  Sessions,      \* session folders of the workspace
  Runs,          \* runs (one generation each) that may be created
  SessionOf,     \* the session a run belongs to
  NoRun,         \* "no run": an empty pointer, or a missing root view
  NoFile,        \* a file that does not exist
  Urls,          \* model pages
  Findings,      \* the blocked sets a verification may end with
  Manual,        \* MANUAL_MODELS.txt
  Blacklist,     \* GLOBAL_BLACKLIST.txt
  Views,         \* root compatibility files of a session
  Seeded,        \* is there a live master before the first run ...
  SeedUrls,      \* ... and which names it holds
  ShadowModes,   \* the modes MODEL_SCRAPER_STRIPCHAT_WORKFLOW may select
  MaxStagings,   \* bound: stagings of one run
  MaxCrashes,    \* bound: crashes of the process
  MaxFaults      \* bound: failed writes, lost views and lost journals

\* A master entry: the page and the run that added it.  Two publications that
\* add the same page differ in session number and timestamp, so their hashes do.
Entry == Urls \X (Runs \cup {NoRun})
Content == SUBSET Entry

ASSUME PublicationAssumption ==
  /\ SessionOf \in [Runs -> Sessions]
  /\ NoRun \notin Runs
  /\ \A c \in Content : c # NoFile
  /\ \A N \in SUBSET Urls : N # NoFile
  /\ Manual \subseteq Urls /\ Blacklist \subseteq Urls /\ SeedUrls \subseteq Urls
  /\ Findings \subseteq SUBSET Urls
  /\ Seeded \in BOOLEAN /\ ShadowModes \subseteq BOOLEAN

VARIABLES
  json, txt, meta, bak,  \* live master: data, names, revision id, backup
  pub,        \* manifest.publication.state, "absent" before create_run
  recovery,   \* manifest.publication.recovery_required
  verify,     \* manifest.steps.verify.current: status of the last attempt
  progress,   \* how far Steps 1-3 and the verification checkpoint got
  blocked,    \* urls the checkpoint classifies BLOCKED
  artifacts,  \* step 4 artifacts registered in the manifest
  staged,     \* staged json, txt and meta files
  journal,    \* publication/journal.json: the PreparedMasterRevision
  stagings,   \* how often the run was staged: the source of fresh uuids
  witness,    \* publication/commit.json: revision it names, 0 if absent
  sealed,     \* transaction the checkpoint is sealed with, 0 if none
  active,     \* run_state.json: active_run_id
  pointer,    \* run_state.json: committed_generation
  roots,      \* whose data each root view holds
  pc, cur,    \* what the process holding the lease does next, and its run
  mem,        \* the prepared revision it holds in memory
  via,        \* whether roll-forward was entered from finalize or recover
  shadow,     \* the finalizer's shadow flag
  crashes, faults

master  == <<json, txt, meta, bak>>
runDocs == <<pub, recovery, verify, progress, blocked, artifacts>>
staging == <<staged, journal, stagings>>
decided == <<witness, sealed>>
session == <<active, pointer, roots>>
bounds  == <<crashes, faults>>
vars == <<master, runDocs, staging, decided, session,
          pc, cur, mem, via, shadow, bounds>>

-----------------------------------------------------------------------------
(* Operators.                                                              *)

\* The order of PUBLICATION_STATES; "absent" stands for no manifest yet.
Rank(s) == CASE s = "absent" -> 0 [] s = "none" -> 1 [] s = "preparing" -> 2
             [] s = "prepared" -> 3 [] s = "committed" -> 4
             [] s = "projecting" -> 5 [] OTHER -> 6

Names(c) == {e[1] : e \in c}

\* Mutant: the blacklist also prunes entries that are already in the list.
MergePruning(existing, found, r) ==
  LET kept == {e \in existing : e[1] \notin Blacklist}
  IN kept \cup {<<u, r>> : u \in (found \cup Manual) \ (Blacklist \cup Names(kept))}

\* The union merge: existing entries stay, blacklisted names are not added.
Merge(existing, found, r) ==
  existing \cup {<<u, r>> : u \in (found \cup Manual) \ (Blacklist \cup Names(existing))}

Live == IF json = NoFile THEN {} ELSE json

NoRevision == [rev |-> 0, base |-> NoFile, json |-> {}]

\* _load_prepared succeeds; validate_prepared succeeds for revision p of run r.
Readable(r) == journal[r].rev # 0
Valid(r, p) == staged[r] = [json |-> p.json, txt |-> Names(p.json), meta |-> p.rev]

\* Mutant: nobody compares the live master with the base of the revision.
ConflictIgnored(p) == FALSE

\* The live master moved away from both the base and the staged revision.
Conflict(p) == p.base # NoFile /\ json # NoFile /\ json \notin {p.base, p.json}

\* _verify_projafter finds nothing wrong.
ProjectedIntact(r) ==
  /\ pointer[SessionOf[r]] = r
  /\ "final" \in artifacts[r]
  /\ \A v \in Views : roots[SessionOf[r]][v] # NoRun

\* inspect_resume: may an automatic run continue the active run r?
Resumable(r) ==
  \/ recovery[r]
  \/ /\ verify[r] # "new_generation"
     /\ \/ progress[r] = "partial"
        \/ progress[r] = "complete" /\ verify[r] \in {"cancelled", "incomplete"}

Goto(l) == pc' = l
At(l) == pc = l
\* The process ends and releases the lease: its memory is gone.
Stop == /\ pc' = "idle" /\ cur' = NoRun /\ mem' = NoRevision
        /\ via' = "finalize" /\ shadow' = FALSE

-----------------------------------------------------------------------------
Init ==
  /\ json = IF Seeded THEN {<<u, NoRun>> : u \in SeedUrls} ELSE NoFile
  /\ txt  = IF Seeded THEN SeedUrls ELSE NoFile
  /\ meta = <<NoRun, 0>>
  /\ bak = NoFile
  /\ pub = [r \in Runs |-> "absent"]
  /\ recovery = [r \in Runs |-> FALSE]
  /\ verify = [r \in Runs |-> "none"]
  /\ progress = [r \in Runs |-> "snapshots"]
  /\ blocked = [r \in Runs |-> {}]
  /\ artifacts = [r \in Runs |-> {}]
  /\ staged = [r \in Runs |-> [json |-> NoFile, txt |-> NoFile, meta |-> 0]]
  /\ journal = [r \in Runs |-> NoRevision]
  /\ stagings = [r \in Runs |-> 0]
  /\ witness = [r \in Runs |-> 0]
  /\ sealed = [r \in Runs |-> 0]
  /\ active = [s \in Sessions |-> NoRun]
  /\ pointer = [s \in Sessions |-> NoRun]
  /\ roots = [s \in Sessions |-> [v \in Views |-> NoRun]]
  /\ pc = "idle" /\ cur = NoRun /\ mem = NoRevision
  /\ via = "finalize" /\ shadow = FALSE
  /\ crashes = 0 /\ faults = 0

-----------------------------------------------------------------------------
(* A process takes the lease and picks a run.                              *)

\* create_run: the manifest of a fresh generation is written first ...
CreateManifest(r) ==
  /\ At("idle") /\ pub[r] = "absent"
  /\ pub' = [pub EXCEPT ![r] = "none"]
  /\ cur' = r /\ shadow' \in ShadowModes
  /\ Goto("create_run_state")
  /\ UNCHANGED <<master, recovery, verify, progress, blocked, artifacts,
                 staging, decided, session, mem, via, bounds>>

\* ... then run_state.json names it, keeping the committed pointer.
CreateRunState ==
  /\ At("create_run_state")
  /\ active' = [active EXCEPT ![SessionOf[cur]] = cur]
  /\ Goto("steps")
  /\ UNCHANGED <<master, runDocs, staging, decided, pointer, roots, cur, mem,
                 via, shadow, bounds>>

\* Steps 1-3 succeed, or one of them fails or is cancelled and ends the run.
CompleteSteps ==
  /\ At("steps")
  /\ progress' = [progress EXCEPT ![cur] = "compared"]
  /\ Goto("recover")
  /\ UNCHANGED <<master, pub, recovery, verify, blocked, artifacts, staging,
                 decided, session, cur, mem, via, shadow, bounds>>

EndBeforeVerify ==
  /\ At("steps") /\ Stop
  /\ UNCHANGED <<master, runDocs, staging, decided, session, bounds>>

\* prepare_run(RESUME or AUTO): full automatic mode re-enters Step 4 of the
\* active run when inspect_resume says there is something to resume.
ResumeRun(s) ==
  /\ At("idle") /\ active[s] # NoRun /\ Resumable(active[s])
  /\ cur' = active[s] /\ shadow' \in ShadowModes
  /\ Goto("recover")
  /\ UNCHANGED <<master, runDocs, staging, decided, session, mem, via, bounds>>

\* prepare_step(VERIFY): the user starts Step 4 of the active run by hand,
\* whatever state it is in.
ManualStep4(s) ==
  /\ At("idle") /\ active[s] # NoRun
  /\ cur' = active[s] /\ shadow' \in ShadowModes
  /\ Goto("recover")
  /\ UNCHANGED <<master, runDocs, staging, decided, session, mem, via, bounds>>

-----------------------------------------------------------------------------
(* WorkflowFinalizer.recover, called before every verification.            *)

\* Mutants: a prepared run is rolled forward without a commit decision; a run is
\* judged by its state alone although the witness is written first.
NothingUnlessPrepared(r) ==
  \/ pub[r] \in {"none", "preparing"}
  \/ Readable(r) /\ pub[r] = "projected" /\ ProjectedIntact(r)
NothingByState(r) ==
  \/ pub[r] \in {"none", "preparing", "prepared"}
  \/ Readable(r) /\ pub[r] = "projected" /\ ProjectedIntact(r)

NothingToRecover(r) ==
  \/ witness[r] = 0 /\ pub[r] \in {"none", "preparing", "prepared", "projected"}
  \/ Readable(r) /\ pub[r] = "projected" /\ ProjectedIntact(r)

RecoverNothing ==
  /\ At("recover") /\ NothingToRecover(cur)
  /\ Goto("verify")
  /\ UNCHANGED <<master, runDocs, staging, decided, session, cur, mem, via,
                 shadow, bounds>>

RecoverCommitted ==
  /\ At("recover") /\ ~NothingToRecover(cur) /\ Readable(cur)
  /\ mem' = journal[cur] /\ via' = "recover"
  /\ Goto("reconcile_pointer")
  /\ UNCHANGED <<master, runDocs, staging, decided, session, cur, shadow, bounds>>

-----------------------------------------------------------------------------
(* run_step4: the checkpointed verification, seen from the publication.    *)

VerifyWithoutSteps ==
  /\ At("verify") /\ progress[cur] = "snapshots"
  /\ Goto("record_failed")
  /\ UNCHANGED <<master, runDocs, staging, decided, session, cur, mem, via,
                 shadow, bounds>>

\* A first verdict is checkpointed while others remain.
VerifySome ==
  /\ At("verify") /\ progress[cur] = "compared"
  /\ progress' = [progress EXCEPT ![cur] = "partial"]
  /\ UNCHANGED <<master, pub, recovery, verify, blocked, artifacts, staging,
                 decided, session, pc, cur, mem, via, shadow, bounds>>

\* The remaining candidates stay unknown: INCOMPLETE, the finalizer not called.
VerifyIncomplete ==
  /\ At("verify") /\ progress[cur] = "partial"
  /\ verify' = [verify EXCEPT ![cur] = "incomplete"]
  /\ Stop
  /\ UNCHANGED <<master, pub, recovery, progress, blocked, artifacts, staging,
                 decided, session, bounds>>

\* The last candidate is settled; found is what the checkpoint calls BLOCKED.
VerifyComplete(found) ==
  /\ At("verify") /\ progress[cur] \in {"compared", "partial"}
  /\ progress' = [progress EXCEPT ![cur] = "complete"]
  /\ blocked' = [blocked EXCEPT ![cur] = found]
  /\ Goto("phase_a")
  /\ UNCHANGED <<master, pub, recovery, verify, artifacts, staging, decided,
                 session, cur, mem, via, shadow, bounds>>

\* A complete checkpoint needs no further attempt.
VerifyAgain ==
  /\ At("verify") /\ progress[cur] = "complete"
  /\ Goto("phase_a")
  /\ UNCHANGED <<master, runDocs, staging, decided, session, cur, mem, via,
                 shadow, bounds>>

-----------------------------------------------------------------------------
(* Phase A: stage everything inside the run directory.                     *)

Reusable(r) == /\ Rank(pub[r]) >= Rank("prepared")
               /\ Readable(r) /\ Valid(r, journal[r])

PhaseAReuse ==
  /\ At("phase_a") /\ Reusable(cur)
  /\ mem' = journal[cur] /\ via' = "finalize"
  /\ Goto("boundary")
  /\ UNCHANGED <<master, runDocs, staging, decided, session, cur, shadow, bounds>>

\* Mutant: every attempt stages anew.
MayAlwaysStage(r) == pub[r] # "absent"
MayStage(r) == \/ pub[r] \in {"none", "preparing"}
               \/ pub[r] = "prepared" /\ ~Reusable(r) /\ witness[r] = 0

PhaseACancel ==
  /\ At("phase_a") /\ MayStage(cur)
  /\ Goto("record_cancelled")
  /\ UNCHANGED <<master, runDocs, staging, decided, session, cur, mem, via,
                 shadow, bounds>>

StartPreparing ==
  /\ At("phase_a") /\ MayStage(cur) /\ stagings[cur] < MaxStagings
  /\ pub' = [pub EXCEPT ![cur] = IF @ = "none" THEN "preparing" ELSE @]
  /\ via' = "finalize"
  /\ Goto("artifacts")
  /\ UNCHANGED <<master, recovery, verify, progress, blocked, artifacts, staging,
                 decided, session, cur, mem, shadow, bounds>>

\* _artifact_json_once, then _artifact_lines_once.
RecordArtifact ==
  /\ At("artifacts") /\ artifacts[cur] # {"results", "final"}
  /\ artifacts' = [artifacts EXCEPT ![cur] =
       @ \cup {IF "results" \in @ THEN "final" ELSE "results"}]
  /\ UNCHANGED <<master, pub, recovery, verify, progress, blocked, staging,
                 decided, session, pc, cur, mem, via, shadow, bounds>>

\* master_entry_builder on the live entries; prepare() starts a transaction
\* with fresh uuids, notes the base hash and stages the JSON.
StageJson ==
  /\ At("artifacts") /\ artifacts[cur] = {"results", "final"}
  /\ stagings' = [stagings EXCEPT ![cur] = @ + 1]
  /\ mem' = [rev  |-> stagings[cur] + 1, base |-> json,
             json |-> Merge(Live, blocked[cur], cur)]
  /\ staged' = [staged EXCEPT ![cur].json = mem'.json]
  /\ Goto("stage_txt")
  /\ UNCHANGED <<master, runDocs, journal, decided, session, cur, via, shadow, bounds>>

StageTxt ==
  /\ At("stage_txt")
  /\ staged' = [staged EXCEPT ![cur].txt = Names(mem.json)]
  /\ Goto("stage_meta")
  /\ UNCHANGED <<master, runDocs, journal, stagings, decided, session, cur, mem,
                 via, shadow, bounds>>

StageMeta ==
  /\ At("stage_meta")
  /\ staged' = [staged EXCEPT ![cur].meta = mem.rev]
  /\ Goto("write_journal")
  /\ UNCHANGED <<master, runDocs, journal, stagings, decided, session, cur, mem,
                 via, shadow, bounds>>

WriteJournal ==
  /\ At("write_journal")
  /\ journal' = [journal EXCEPT ![cur] = mem]
  /\ Goto("set_prepared")
  /\ UNCHANGED <<master, runDocs, staged, stagings, decided, session, cur, mem,
                 via, shadow, bounds>>

SetPrepared ==
  /\ At("set_prepared")
  /\ pub' = [pub EXCEPT ![cur] = "prepared"]
  /\ Goto("boundary")
  /\ UNCHANGED <<master, recovery, verify, progress, blocked, artifacts, staging,
                 decided, session, cur, mem, via, shadow, bounds>>

-----------------------------------------------------------------------------
(* finalize: the boundary between the phases.                              *)

\* Shadow mode stops here and records a success that published nothing.
ShadowSuccess ==
  /\ At("boundary") /\ shadow
  /\ verify' = [verify EXCEPT ![cur] = "succeeded"]
  /\ Stop
  /\ UNCHANGED <<master, pub, recovery, progress, blocked, artifacts, staging,
                 decided, session, bounds>>

BoundaryCancel ==
  /\ At("boundary") /\ ~shadow
  /\ Goto("record_cancelled")
  /\ UNCHANGED <<master, runDocs, staging, decided, session, cur, mem, via,
                 shadow, bounds>>

\* _detect_base_revision_conflict: a stale revision must not be committed.
RejectStale ==
  /\ At("boundary") /\ ~shadow /\ Conflict(mem)
  /\ Goto("record_new_generation")
  /\ UNCHANGED <<master, runDocs, staging, decided, session, cur, mem, via,
                 shadow, bounds>>

(* Phase B: the commit witness is the point of no return.                  *)
WriteWitness ==
  /\ At("boundary") /\ ~shadow /\ ~Conflict(mem) /\ "final" \in artifacts[cur]
  /\ witness' = [witness EXCEPT ![cur] = mem.rev]
  /\ Goto("set_committed")
  /\ UNCHANGED <<master, runDocs, staging, sealed, session, cur, mem, via, shadow, bounds>>

SetCommitted ==
  /\ At("set_committed") /\ Rank(pub[cur]) <= Rank("committed")
  /\ pub' = [pub EXCEPT ![cur] = "committed"]
  /\ Goto("set_pointer")
  /\ UNCHANGED <<master, recovery, verify, progress, blocked, artifacts, staging,
                 decided, session, cur, mem, via, shadow, bounds>>

\* Mutant: the commit is tried again until the store accepts the state.
SetCommittedRetried ==
  /\ At("set_committed") /\ Rank(pub[cur]) > Rank("committed")
  /\ Goto("boundary")
  /\ UNCHANGED <<master, runDocs, staging, decided, session, cur, mem, via,
                 shadow, bounds>>

\* The store refuses to move the publication state backward.
SetCommittedRejected ==
  /\ At("set_committed") /\ Rank(pub[cur]) > Rank("committed")
  /\ Goto("require_recovery")
  /\ UNCHANGED <<master, runDocs, staging, decided, session, cur, mem, via,
                 shadow, bounds>>

SetPointer ==
  /\ At("set_pointer")
  /\ pointer' = [pointer EXCEPT ![SessionOf[cur]] = cur]
  /\ Goto("reconcile_pointer")
  /\ UNCHANGED <<master, runDocs, staging, decided, active, roots, cur, mem, via,
                 shadow, bounds>>

-----------------------------------------------------------------------------
(* _roll_forward.                                                          *)

\* _reconcile_committed_pointer: either durable record is the commit decision.
ReconcilePointer ==
  /\ At("reconcile_pointer")
  /\ pointer' = [pointer EXCEPT ![SessionOf[cur]] =
                   IF witness[cur] # 0 THEN cur ELSE @]
  /\ Goto("commit")
  /\ UNCHANGED <<master, runDocs, staging, decided, active, roots, cur, mem, via,
                 shadow, bounds>>

(* GenericMasterRepository.commit                                          *)

\* Mutant: the live JSON alone decides that the revision is committed.
JsonCommitted(p) == json = p.json
AlreadyCommitted(p) ==
  json = p.json /\ txt = Names(p.json) /\ meta = <<cur, p.rev>>

CommitUnneeded ==
  /\ At("commit") /\ Valid(cur, mem) /\ AlreadyCommitted(mem)
  /\ Goto("projecting")
  /\ UNCHANGED <<master, runDocs, staging, decided, session, cur, mem, via,
                 shadow, bounds>>

\* Staging no longer validates, or the live master moved since the decision.
CommitRefused ==
  /\ At("commit")
  /\ ~Valid(cur, mem) \/ (~AlreadyCommitted(mem) /\ Conflict(mem))
  /\ Goto("require_recovery")
  /\ UNCHANGED <<master, runDocs, staging, decided, session, cur, mem, via,
                 shadow, bounds>>

\* Mutant: a backup is made once and kept.
BackupOnce == IF bak = NoFile THEN json ELSE bak
\* backup_path takes the live JSON, if there is one.
Backup == IF json = NoFile THEN bak ELSE json

BackupMaster ==
  /\ At("commit") /\ Valid(cur, mem)
  /\ ~AlreadyCommitted(mem) /\ ~Conflict(mem)
  /\ bak' = Backup
  /\ Goto("live_json")
  /\ UNCHANGED <<json, txt, meta, runDocs, staging, decided, session, cur, mem,
                 via, shadow, bounds>>

WriteLiveJson ==
  /\ At("live_json")
  /\ json' = staged[cur].json
  /\ Goto("live_txt")
  /\ UNCHANGED <<txt, meta, bak, runDocs, staging, decided, session, cur, mem,
                 via, shadow, bounds>>

WriteLiveTxt ==
  /\ At("live_txt")
  /\ txt' = staged[cur].txt
  /\ Goto("live_meta")
  /\ UNCHANGED <<json, meta, bak, runDocs, staging, decided, session, cur, mem,
                 via, shadow, bounds>>

WriteLiveMeta ==
  /\ At("live_meta")
  /\ meta' = <<cur, staged[cur].meta>>
  /\ Goto("projecting")
  /\ UNCHANGED <<json, txt, bak, runDocs, staging, decided, session, cur, mem,
                 via, shadow, bounds>>

\* _advance_publication_state never moves backward.
Advance(s) == pub' = [pub EXCEPT ![cur] = IF Rank(s) < Rank(@) THEN @ ELSE s]

SetProjecting ==
  /\ At("projecting") /\ Advance("projecting")
  /\ Goto("project")
  /\ UNCHANGED <<master, recovery, verify, progress, blocked, artifacts, staging,
                 decided, session, cur, mem, via, shadow, bounds>>

\* _project rewrites every root view; the order of the views is left open.
Project(v) ==
  /\ At("project") /\ roots[SessionOf[cur]][v] # cur
  /\ roots' = [roots EXCEPT ![SessionOf[cur]][v] = cur]
  /\ UNCHANGED <<master, runDocs, staging, decided, active, pointer, pc, cur,
                 mem, via, shadow, bounds>>

SealCheckpoint ==
  /\ At("project") /\ \A v \in Views : roots[SessionOf[cur]][v] = cur
  /\ sealed' = [sealed EXCEPT ![cur] = mem.rev]
  /\ Goto("set_projected")
  /\ UNCHANGED <<master, runDocs, staging, witness, session, cur, mem, via, shadow, bounds>>

SetProjected ==
  /\ At("set_projected") /\ Advance("projected")
  /\ Goto("verify_after")
  /\ UNCHANGED <<master, recovery, verify, progress, blocked, artifacts, staging,
                 decided, session, cur, mem, via, shadow, bounds>>

ClearRecovery ==
  /\ At("verify_after") /\ ProjectedIntact(cur)
  /\ recovery' = [recovery EXCEPT ![cur] = FALSE]
  /\ Goto("record_success")
  /\ UNCHANGED <<master, pub, verify, progress, blocked, artifacts, staging,
                 decided, session, cur, mem, via, shadow, bounds>>

-----------------------------------------------------------------------------
(* record_step_attempt: how an attempt ends.                               *)

\* Mutant: an attempt cancelled between the phases counts as done.
RecordedDone == [record_success |-> "succeeded", record_failed |-> "failed",
                 record_new_generation |-> "new_generation",
                 record_cancelled |-> "succeeded"]
Recorded == [record_success |-> "succeeded", record_failed |-> "failed",
             record_new_generation |-> "new_generation",
             record_cancelled |-> "cancelled"]

RecordOutcome ==
  /\ pc \in DOMAIN Recorded
  /\ verify' = [verify EXCEPT ![cur] = Recorded[pc]]
  /\ Stop
  /\ UNCHANGED <<master, pub, recovery, progress, blocked, artifacts, staging,
                 decided, session, bounds>>

\* set_recovery_required(True), then the failed outcome.
RequireRecovery ==
  /\ At("require_recovery")
  /\ recovery' = [recovery EXCEPT ![cur] = TRUE]
  /\ Goto("record_failed")
  /\ UNCHANGED <<master, pub, verify, progress, blocked, artifacts, staging,
                 decided, session, cur, mem, via, shadow, bounds>>

-----------------------------------------------------------------------------
(* Failures and the environment.                                           *)

PhaseAWrites == {"phase_a", "artifacts", "stage_txt", "stage_meta",
                 "write_journal", "set_prepared"}
PhaseBWrites == {"boundary", "set_committed", "set_pointer"}
RollForwardWrites == {"reconcile_pointer", "commit", "live_json", "live_txt",
                      "live_meta", "projecting", "project", "set_projected"}

\* Where the exception of a failed write is caught.
Handlers ==
  CASE pc \in PhaseAWrites -> {"record_failed"}
    [] pc = "boundary" /\ shadow -> {"abandon"}
    [] pc \in PhaseBWrites -> IF witness[cur] = 0 THEN {"record_failed"}
                                                  ELSE {"require_recovery"}
    [] pc \in RollForwardWrites -> {"require_recovery"}
    [] pc \in {"verify_after", "record_success"} ->
         IF via = "finalize" THEN {"require_recovery"} ELSE {"abandon"}
    [] pc = "require_recovery" -> {"record_failed", "abandon"}
    [] OTHER -> {"abandon"}

\* A write raises: the file keeps its old content and a handler takes over;
\* where none does the process gives the run up without recording anything.
WriteFails ==
  /\ pc \notin {"idle", "recover"} /\ faults < MaxFaults
  /\ pc = "phase_a" => pub[cur] = "none"
  /\ faults' = faults + 1
  /\ \E h \in Handlers : IF h = "abandon" THEN Stop
                                          ELSE Goto(h) /\ UNCHANGED <<cur, mem, via, shadow>>
  /\ UNCHANGED <<master, runDocs, staging, decided, session, crashes>>

Crash ==
  /\ pc # "idle" /\ crashes < MaxCrashes
  /\ crashes' = crashes + 1
  /\ Stop
  /\ UNCHANGED <<master, runDocs, staging, decided, session, faults>>

\* A root view, or a staged journal that is not committed yet, disappears
\* while no process runs.
LoseView(s, v) ==
  /\ At("idle") /\ roots[s][v] # NoRun /\ faults < MaxFaults
  /\ roots' = [roots EXCEPT ![s][v] = NoRun]
  /\ faults' = faults + 1
  /\ UNCHANGED <<master, runDocs, staging, decided, active, pointer, pc, cur,
                 mem, via, shadow, crashes>>

LoseJournal(r) ==
  /\ At("idle") /\ Readable(r) /\ witness[r] = 0 /\ faults < MaxFaults
  /\ journal' = [journal EXCEPT ![r] = NoRevision]
  /\ faults' = faults + 1
  /\ UNCHANGED <<master, runDocs, staged, stagings, decided, session, pc, cur,
                 mem, via, shadow, crashes>>

-----------------------------------------------------------------------------
PickRun == \/ \E r \in Runs : CreateManifest(r)
           \/ \E s \in Sessions : ResumeRun(s) \/ ManualStep4(s)

Prepare == \/ CreateRunState \/ CompleteSteps \/ EndBeforeVerify
           \/ RecoverNothing \/ RecoverCommitted
           \/ VerifyWithoutSteps \/ VerifySome \/ VerifyIncomplete \/ VerifyAgain
           \/ \E found \in Findings : VerifyComplete(found)

PhaseA == \/ PhaseAReuse \/ PhaseACancel \/ StartPreparing
          \/ RecordArtifact \/ StageJson \/ StageTxt \/ StageMeta
          \/ WriteJournal \/ SetPrepared

PhaseB == \/ ShadowSuccess \/ BoundaryCancel \/ RejectStale \/ WriteWitness
          \/ SetCommitted \/ SetCommittedRejected \/ SetPointer

RollForward == \/ ReconcilePointer \/ CommitUnneeded \/ CommitRefused
               \/ BackupMaster \/ WriteLiveJson \/ WriteLiveTxt \/ WriteLiveMeta
               \/ SetProjecting \/ (\E v \in Views : Project(v)) \/ SealCheckpoint
               \/ SetProjected \/ ClearRecovery

Finish == RecordOutcome \/ RequireRecovery

Environment == \/ WriteFails \/ Crash
               \/ \E s \in Sessions, v \in Views : LoseView(s, v)
               \/ \E r \in Runs : LoseJournal(r)

Next == PickRun \/ Prepare \/ PhaseA \/ PhaseB \/ RollForward \/ Finish \/ Environment

Spec == Init /\ [][Next]_vars

\* The process keeps stepping, and a user whose run is not done starts Step 4
\* of it again.
Step == Prepare \/ PhaseA \/ PhaseB \/ RollForward \/ Finish
FairSpec == Spec /\ WF_vars(Step) /\ \A s \in Sessions : WF_vars(ManualStep4(s))

-----------------------------------------------------------------------------
(* Properties.                                                             *)

PCs == {"idle", "create_run_state", "steps", "recover", "verify"}
         \cup PhaseAWrites \cup PhaseBWrites \cup RollForwardWrites
         \cup {"verify_after", "require_recovery"} \cup DOMAIN Recorded
StagedFiles == [json : {NoFile} \cup Content, txt : {NoFile} \cup SUBSET Urls,
                meta : Nat]
Revision == [rev : Nat, base : {NoFile} \cup Content, json : Content]

\* Type correctness of every file and of the process (workflow_finalizer.py).
TypeOK ==
  /\ json \in {NoFile} \cup Content /\ bak \in {NoFile} \cup Content
  /\ txt \in {NoFile} \cup SUBSET Urls
  /\ meta \in (Runs \cup {NoRun}) \X Nat
  /\ pub \in [Runs -> {"absent", "none", "preparing", "prepared", "committed",
                       "projecting", "projected"}]
  /\ recovery \in [Runs -> BOOLEAN]
  /\ verify \in [Runs -> {"none", "succeeded", "failed", "new_generation",
                          "cancelled", "incomplete"}]
  /\ progress \in [Runs -> {"snapshots", "compared", "partial", "complete"}]
  /\ blocked \in [Runs -> SUBSET Urls]
  /\ artifacts \in [Runs -> SUBSET {"results", "final"}]
  /\ staged \in [Runs -> StagedFiles]
  /\ journal \in [Runs -> Revision] /\ mem \in Revision
  /\ stagings \in [Runs -> Nat] /\ witness \in [Runs -> Nat] /\ sealed \in [Runs -> Nat]
  /\ active \in [Sessions -> Runs \cup {NoRun}]
  /\ pointer \in [Sessions -> Runs \cup {NoRun}]
  /\ roots \in [Sessions -> [Views -> Runs \cup {NoRun}]]
  /\ pc \in PCs /\ cur \in Runs \cup {NoRun} /\ (pc # "idle" => cur \in Runs)
  /\ via \in {"finalize", "recover"} /\ shadow \in BOOLEAN
  /\ crashes \in Nat /\ faults \in Nat

\* Nothing of a run shows outside its own directory - no entry in the live
\* master, no root view, no committed pointer, no committed state, no call for
\* recovery - before its commit witness is durable (_phase_b).
NothingVisibleBeforeWitness ==
  \A r \in Runs : witness[r] = 0 =>
    /\ \A e \in Live : e[2] # r
    /\ \A s \in Sessions : pointer[s] # r /\ \A v \in Views : roots[s][v] # r
    /\ Rank(pub[r]) <= Rank("prepared") /\ ~recovery[r] /\ sealed[r] = 0

\* Once the witness is durable the staged revision it names is what stays on
\* disk: no retry, cancellation or failed write restages it (_phase_a 141-153).
CommittedStagingIsKept ==
  \A r \in Runs : witness[r] # 0 =>
    witness[r] = journal[r].rev /\ Valid(r, journal[r])

\* Whenever the three live master files disagree, a committed run that is not
\* yet projecting holds the staged files that make them agree again: a crash
\* inside GenericMasterRepository.commit leaves something to roll forward.
TornMasterIsRepairable ==
  json # NoFile /\ (txt # Names(json) \/ (meta[1] # NoRun /\ journal[meta[1]].json # json)) =>
    \E r \in Runs : /\ witness[r] # 0 /\ pub[r] \in {"prepared", "committed"}
                    /\ journal[r].json = json

\* The master holds every page a run found blocked, from the moment the run is
\* projecting on and through everything other runs do to the shared files.
PublishedStaysInMaster ==
  \A r \in Runs : Rank(pub[r]) >= Rank("projecting") =>
    blocked[r] \ Blacklist \subseteq Names(Live)

\* "Initial rollout policy: never remove an existing entry"
\* (merge_blocked_into_master): no step takes an entry out of the live master.
NoEntryIsLost == [][Live \subseteq Live']_vars

\* The live JSON is only overwritten when the backup holds what it held
\* (GenericMasterRepository.commit: backup first).
OverwritesAreBackedUp == [][json' # json /\ json # NoFile => bak = json]_vars

\* A run that publishes records success only when its state is projected, the
\* session pointer names it, every root view holds its data and no recovery is
\* pending - never a partial publication mistaken for success.
SuccessMeansProjected ==
  [][\A r \in Runs : verify[r] # "succeeded" /\ verify'[r] = "succeeded" /\ ~shadow =>
       /\ pub[r] = "projected" /\ pointer[SessionOf[r]] = r /\ ~recovery[r]
       /\ \A v \in Views : roots[SessionOf[r]][v] = r]_vars

\* The lease is always released: whatever failed, the process stops.
LeaseIsReleased == pc # "idle" ~> pc = "idle"

\* A committed run whose Step 4 is started again after crashes and failed
\* writes ends up projected (recover and _roll_forward).
CommittedIsProjected == \A r \in Runs : witness[r] # 0 ~> pub[r] = "projected"

\* Every check that can still fail happens before the witness
\* (_phase_b 286-291): a committed run never meets a moved master.
CommittedNeverConflicts ==
  \A r \in Runs : witness[r] # 0 /\ Rank(pub[r]) < Rank("projecting") => ~Conflict(journal[r])

\* What the master list promises (MasterLedger), read off the files: the names
\* of the live JSON, what a run still has to add, the runs with a witness, and
\* those that are projecting or projected.
Ledger == INSTANCE MasterLedger WITH
  names     <- Names(Live),
  wanted    <- [r \in Runs |-> IF progress[r] = "complete"
                               THEN (blocked[r] \cup Manual) \ Blacklist ELSE {}],
  decided   <- {r \in Runs : witness[r] # 0},
  published <- {r \in Runs : Rank(pub[r]) >= Rank("projecting")}

\* The two-phase publication implements the ledger.
ImplementsLedger == Ledger!Spec
=============================================================================
