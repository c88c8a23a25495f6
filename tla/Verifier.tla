------------------------------ MODULE Verifier ------------------------------
(***************************************************************************)
(* Checkpointed verification of the candidate pages of one run             *)
(* (GenericCheckpointedVerifier.verify with the Stripchat runner around    *)
(* it): bounded attempts in bounded retry epochs, one checkpoint after     *)
(* every page, stops, browsers that are lost or wait for a challenge too   *)
(* long, and processes that die anywhere and are started again.            *)
(*                                                                         *)
(* The candidates are an artifact of the run, which its generation never   *)
(* registers twice, and they are taken in the order of their numbers.  A   *)
(* checkpoint write that fails leaves the step with nothing recorded and   *)
(* the file as it was, which is what dying at that point does.  What goes  *)
(* wrong before the first page is recorded as a failed attempt, whatever   *)
(* was recorded before; it is taken to pass: a run whose candidates can    *)
(* never be read again is out of sight.                                    *)
(***************************************************************************)
EXTENDS Naturals

CONSTANTS
  Candidates,     \* the pages of step3.candidates, numbered in their order
  MaxEpochs,      \* max_retry_epochs
  Budget,         \* attempt_budget_per_epoch
  Confirmations,  \* NONTARGET_CONFIRMATION_ATTEMPTS
  NoCheckpoint,   \* checkpoint.json is not there
  Nothing,        \* nothing was finalized yet
  MaxCrashes,     \* bound on deaths and failed writes
  MaxStops,       \* bound on stop requests
  MaxSetbacks     \* bound on attempts that fail, browsers lost, deadlines

ASSUME VerifierAssumption ==
  /\ Candidates \subseteq Nat
  /\ MaxEpochs \in Nat \ {0} /\ Budget \in Nat \ {0} /\ Confirmations \in Nat
  /\ MaxCrashes \in Nat /\ MaxStops \in Nat /\ MaxSetbacks \in Nat

Classes == {"untried", "blocked", "accessible", "unknown"}
Record == [class : Classes, terminal : BOOLEAN, tries : Nat, lifetime : Nat]
Checkpoint == [epoch : 0..(MaxEpochs - 1), records : [Candidates -> Record]]

\* NoCheckpoint is a model value, apart from every checkpoint.
ASSUME NoCheckpointAssumption == NoCheckpoint \notin Checkpoint

VARIABLES
  \* --- on disk
  checkpoint,   \* checkpoint.json
  retryEpoch,   \* manifest.retry.epoch
  verify,       \* manifest.steps.verify.current
  finalized,    \* the blocked pages the finalizer accepted, or Nothing
  \* --- the process in Step 4
  pc,
  records,      \* what it knows of every candidate
  epoch,        \* the epoch it works in
  stop,         \* the stop token
  used          \* [crashes, stops, setbacks] so far

disk == <<checkpoint, retryEpoch, verify, finalized>>
memory == <<records, epoch>>
vars == <<disk, pc, memory, stop, used>>

Untried == [class |-> "untried", terminal |-> FALSE, tries |-> 0, lifetime |-> 0]
NoRecords == [u \in Candidates |-> Untried]
Outcomes == [status : {"none", "succeeded", "failed", "cancelled", "incomplete"},
             resumable : BOOLEAN, newGeneration : BOOLEAN]
Outcome(status, resumable, newGeneration) ==
  [status |-> status, resumable |-> resumable, newGeneration |-> newGeneration]

-----------------------------------------------------------------------------
(* Records and epochs.                                                     *)

\* _needs_attempt: no record yet, or an open one with budget left.
NeedsAttempt(r) == ~r.terminal /\ r.tries < Budget

Pending(rs) == {u \in Candidates : NeedsAttempt(rs[u])}
Next1(rs, u) == u \in Pending(rs) /\ \A v \in Pending(rs) : u <= v

\* _summary: attempted and still open.
Transient(rs) == {u \in Candidates : rs[u].class = "unknown" /\ ~rs[u].terminal}
Unattempted(rs) == {u \in Candidates : rs[u].class = "untried"}
Remaining(rs) == Transient(rs) \cup Unattempted(rs)
Blocked(rs) == {u \in Candidates : rs[u].class = "blocked"}

\* Mutant: a spent budget does not count as spent, so no epoch ever ends.
AdvancesNever(c) == /\ Transient(c.records) # {}
                    /\ \A u \in Candidates : c.records[u].terminal
                         \/ c.records[u].tries > Budget
\* _maybe_advance_epoch: only when every open record has used its budget.
Advances(c) == Pending(c.records) = {} /\ Transient(c.records) # {}
Exhausts(c) == Advances(c) /\ c.epoch + 1 >= MaxEpochs
Renewed(rs) == [u \in Candidates |-> IF rs[u].terminal THEN rs[u]
                                     ELSE [rs[u] EXCEPT !.tries = 0]]

\* classify_stripchat_page, by what the verifier does with the verdict: a page
\* that shows it is no target ends after enough attempts of any kind; a page
\* read while stopping, or not at all, is unclear.
Observations == {"blocked", "accessible", "disabled", "nontarget", "unclear"}
Classify(seen, attempt) ==
  CASE seen \in {"blocked", "accessible"} -> [class |-> seen, terminal |-> TRUE]
    [] seen = "disabled" -> [class |-> "unknown", terminal |-> TRUE]
    [] seen = "nontarget" ->
         [class |-> "unknown", terminal |-> attempt >= Confirmations]
    [] OTHER -> [class |-> "unknown", terminal |-> FALSE]

Attempted(r, seen) ==
  LET c == Classify(seen, r.lifetime + 1)
  IN [class |-> c.class, terminal |-> c.terminal,
      tries |-> r.tries + 1, lifetime |-> r.lifetime + 1]

\* inspect_resume, as far as verification goes.
Resumable ==
  /\ ~verify.newGeneration
  /\ checkpoint # NoCheckpoint
  /\ \/ verify.status \in {"cancelled", "incomplete"}
     \/ Remaining(checkpoint.records) # {}

-----------------------------------------------------------------------------
Init ==
  /\ checkpoint = NoCheckpoint /\ retryEpoch = 0
  /\ verify = Outcome("none", FALSE, FALSE)
  /\ finalized = Nothing
  /\ pc = "idle" /\ records = NoRecords /\ epoch = 0 /\ stop = FALSE
  /\ used = [crashes |-> 0, stops |-> 0, setbacks |-> 0]

Goto(place) == pc' = place
Save(rs, e) == checkpoint' = [epoch |-> e, records |-> rs]

\* The process leaves Step 4.
Leave == Goto("idle") /\ records' = NoRecords /\ epoch' = 0

\* Step 4 returns: the attempt's outcome goes into the manifest.
Report(outcome) ==
  /\ verify' = outcome /\ Leave
  /\ UNCHANGED <<checkpoint, retryEpoch, used>>

\* The full flow or its resumption reaches Step 4, or it is started by hand;
\* the service clears the stop flag first.
Start ==
  /\ pc = "idle"
  /\ Goto("load") /\ stop' = FALSE
  /\ UNCHANGED <<disk, memory, used>>

Setback == /\ used.setbacks < MaxSetbacks
           /\ used' = [used EXCEPT !.setbacks = @ + 1]

\* The comparison, its artifact or the checkpoint is not what it should be, the
\* policy is not confirmed, or there is no browser: the attempt is recorded as
\* failed over whatever was there, unless writing that fails too, which is
\* swallowed.
LoadFails ==
  /\ pc = "load" /\ Setback
  /\ verify' \in {Outcome("failed", FALSE, FALSE), verify}
  /\ Leave
  /\ UNCHANGED <<checkpoint, retryEpoch, finalized, stop>>

\* The checkpoint is read or a first one written; a spent epoch makes way for
\* the next one, in memory only.
Load ==
  /\ pc = "load"
  /\ \/ /\ checkpoint = NoCheckpoint
        /\ Save(NoRecords, 0) /\ records' = NoRecords /\ epoch' = 0
        /\ Goto("set_epoch")
     \/ /\ checkpoint # NoCheckpoint /\ ~Advances(checkpoint)
        /\ records' = checkpoint.records /\ epoch' = checkpoint.epoch
        /\ Goto("set_epoch") /\ UNCHANGED checkpoint
     \/ /\ checkpoint # NoCheckpoint /\ Advances(checkpoint)
        /\ ~Exhausts(checkpoint)
        /\ records' = Renewed(checkpoint.records)
        /\ epoch' = checkpoint.epoch + 1
        /\ Goto("set_epoch") /\ UNCHANGED checkpoint
     \/ /\ checkpoint # NoCheckpoint /\ Exhausts(checkpoint)
        /\ records' = checkpoint.records /\ epoch' = MaxEpochs - 1
        /\ Save(checkpoint.records, MaxEpochs - 1)
        /\ Goto("exhausted")
  /\ UNCHANGED <<retryEpoch, verify, finalized, stop, used>>

ReportExhausted ==
  /\ pc = "exhausted"
  /\ Report(Outcome("incomplete", FALSE, TRUE))
  /\ UNCHANGED <<finalized, stop>>

\* set_retry_epoch; the store refuses to go back, which would end the step.
SetRetryEpoch ==
  /\ pc = "set_epoch"
  /\ IF epoch < retryEpoch
     THEN Leave /\ UNCHANGED retryEpoch
     ELSE retryEpoch' = epoch /\ Goto("page") /\ UNCHANGED memory
  /\ UNCHANGED <<checkpoint, verify, finalized, stop, used>>

\* A page is opened unless the task was told to stop.
Visit ==
  /\ pc = "page" /\ Pending(records) # {} /\ ~stop
  /\ Goto("observe")
  /\ UNCHANGED <<disk, memory, stop, used>>

\* Mutant: the checkpoint keeps the epoch it was loaded with.
JudgePageStale ==
  /\ pc = "observe"
  /\ \E u \in Candidates, seen \in Observations :
       /\ Next1(records, u)
       /\ records' = [records EXCEPT ![u] = Attempted(@, seen)]
  /\ Save(records', checkpoint.epoch)
  /\ Goto("page")
  /\ UNCHANGED <<retryEpoch, verify, finalized, epoch, stop, used>>
\* The page is judged, whatever has become of the stop flag meanwhile, and the
\* checkpoint written.
JudgePage ==
  /\ pc = "observe"
  /\ \E u \in Candidates, seen \in Observations :
       /\ Next1(records, u)
       /\ records' = [records EXCEPT ![u] = Attempted(@, seen)]
  /\ Save(records', epoch)
  /\ Goto("page")
  /\ UNCHANGED <<retryEpoch, verify, finalized, epoch, stop, used>>

\* The browser is lost for good, or a challenge is not solved in time: the
\* page stays as it was.
Escalate ==
  /\ pc = "observe" /\ Setback
  /\ Save(records, epoch)
  /\ Goto("escalated")
  /\ UNCHANGED <<retryEpoch, verify, finalized, memory, stop>>

ReportEscalated ==
  /\ pc = "escalated"
  /\ Report(Outcome("incomplete", TRUE, FALSE))
  /\ UNCHANGED <<finalized, stop>>

Cancel ==
  /\ pc = "page" /\ Pending(records) # {} /\ stop
  /\ Save(records, epoch)
  /\ Goto("cancelled")
  /\ UNCHANGED <<retryEpoch, verify, finalized, memory, stop, used>>

ReportCancelled ==
  /\ pc = "cancelled"
  /\ Report(Outcome("cancelled", TRUE, FALSE))
  /\ UNCHANGED <<finalized, stop>>

\* Mutant: the last epoch still promises another one.
ReportIncompleteResumable ==
  /\ pc = "page" /\ Pending(records) = {} /\ Transient(records) # {}
  /\ Report(Outcome("incomplete", epoch < MaxEpochs, epoch >= MaxEpochs))
  /\ UNCHANGED <<finalized, stop>>
\* Every page had its attempts and some are still open.
ReportIncomplete ==
  /\ pc = "page" /\ Pending(records) = {} /\ Transient(records) # {}
  /\ Report(Outcome("incomplete", epoch + 1 < MaxEpochs, epoch + 1 >= MaxEpochs))
  /\ UNCHANGED <<finalized, stop>>

\* Mutant: pages that were tried in vain do not stand in the way.
FinalizeAttempted ==
  /\ pc = "page" /\ Unattempted(records) = {}
  /\ Report(Outcome("succeeded", FALSE, FALSE))
  /\ finalized' = Blocked(records) /\ UNCHANGED stop
\* Every page is settled: the finalizer publishes (module Publication) ...
Finalize ==
  /\ pc = "page" /\ Pending(records) = {} /\ Transient(records) = {}
  /\ Report(Outcome("succeeded", FALSE, FALSE))
  /\ finalized' = Blocked(records) /\ UNCHANGED stop

\* ... or is cancelled at its boundary, or fails, which may not be recorded; the
\* master having moved meanwhile it asks for a new run.
FinalizeLater ==
  /\ pc = "page" /\ Pending(records) = {} /\ Transient(records) = {}
  /\ Setback
  /\ verify' \in {Outcome("cancelled", TRUE, FALSE), Outcome("failed", FALSE, FALSE),
                 Outcome("failed", TRUE, FALSE), Outcome("failed", TRUE, TRUE), verify}
  /\ Leave
  /\ UNCHANGED <<checkpoint, retryEpoch, finalized, stop>>

RequestStop ==
  /\ pc # "idle" /\ ~stop /\ used.stops < MaxStops
  /\ stop' = TRUE
  /\ used' = [used EXCEPT !.stops = @ + 1]
  /\ UNCHANGED <<disk, pc, memory>>

Crash ==
  /\ pc # "idle" /\ used.crashes < MaxCrashes
  /\ used' = [used EXCEPT !.crashes = @ + 1]
  /\ Leave
  /\ UNCHANGED <<disk, stop>>

Step == \/ Load \/ LoadFails \/ ReportExhausted \/ SetRetryEpoch \/ Visit \/ JudgePage
        \/ Escalate \/ ReportEscalated \/ Cancel \/ ReportCancelled
        \/ ReportIncomplete \/ Finalize \/ FinalizeLater

Next == Start \/ Step \/ RequestStop \/ Crash

Spec == Init /\ [][Next]_vars

Settled == verify.status = "succeeded" \/ verify.newGeneration

\* The process runs on (every wait has a deadline), and whoever is not told
\* that the run is over starts Step 4 again.
FairSpec == Spec /\ WF_vars(Step) /\ WF_vars(Start /\ ~Settled)

-----------------------------------------------------------------------------
(* Properties.                                                             *)

\* Type correctness of the checkpoint, the manifest and the process.
TypeOK ==
  /\ checkpoint \in Checkpoint \cup {NoCheckpoint}
  /\ retryEpoch \in 0..(MaxEpochs - 1)
  /\ verify \in Outcomes
  /\ finalized \in (SUBSET Candidates) \cup {Nothing}
  /\ pc \in {"idle", "load", "exhausted", "set_epoch", "page", "observe",
             "escalated", "cancelled"}
  /\ records \in [Candidates -> Record]
  /\ epoch \in 0..(MaxEpochs - 1)
  /\ stop \in BOOLEAN
  /\ used \in [crashes : 0..MaxCrashes, stops : 0..MaxStops,
               setbacks : 0..MaxSetbacks]

\* No page is tried more often than the epochs so far allow, however often the
\* step is stopped, killed and resumed; hence never more than MaxEpochs * Budget
\* times (_needs_attempt with _maybe_advance_epoch).
AttemptsAreBounded ==
  checkpoint # NoCheckpoint =>
    \A u \in Candidates :
      LET r == checkpoint.records[u] IN
        r.tries <= Budget /\ r.lifetime <= Budget * checkpoint.epoch + r.tries

\* The checkpoint and the manifest are written one after the other, yet a
\* resumed process never asks the store for an earlier epoch than the manifest
\* has (set_retry_epoch would refuse and end the step).
EpochIsNeverRefused == pc = "set_epoch" => retryEpoch <= epoch

\* record_step_attempt: the run state names Step 4 as the one to resume.
Promised == verify.status \in {"cancelled", "incomplete"} /\ verify.resumable

\* Whoever is told "Resume is available" can resume: the adapter offers it and
\* the resumed step has budget left for an open page, or none open.  (What fails
\* before the first page tells nobody so.)
ResumeIsPossible ==
  [][pc \notin {"idle", "load"} /\ pc' = "idle" /\ used'.crashes = used.crashes
       /\ Promised' =>
     Resumable' /\ ~Exhausts(checkpoint')]_vars

\* What the checkpoint holds of a page, for whoever publishes.
VerdictOf(r) == CASE r.class = "blocked" -> "blocked"
                  [] r.terminal /\ r.class # "blocked" -> "cleared"
                  [] OTHER -> "open"
OnRecord == [u \in Candidates |->
               IF checkpoint = NoCheckpoint THEN "open"
               ELSE VerdictOf(checkpoint.records[u])]

TriageOf == INSTANCE Triage WITH
  Pages    <- Candidates,
  verdict  <- OnRecord,
  handedOn <- finalized,
  givenUp  <- checkpoint # NoCheckpoint /\ Exhausts(checkpoint),
  told     <- verify.newGeneration

\* What is on disk implements the triage: no verdict is ever revised or lost,
\* the finalizer gets exactly what the disk says and only when it is complete,
\* and a run that has used up its epochs never judges another page, even when a
\* failed attempt has overwritten the request for a new run.
ImplementsTriage == TriageOf!Triaging

\* Started again as long as it is not over, the verification ends: with a
\* finalized list, or with the request for a new run.
VerificationSettles == pc # "idle" ~> Settled
=============================================================================
