------------------------------ MODULE Chaturbate ------------------------------
(***************************************************************************)
(* A Chaturbate run in its session folder: the two snapshots, their        *)
(* comparison and the checkpointed verification (ctb_core.CTBRunner,       *)
(* ctb_store.ChaturbateRunStore, ctb_verifier.ChaturbateVerifier).  One    *)
(* action per durable write and per place where a step looks at the stop   *)
(* flag; a step may die anywhere, and in between the master list changes,  *)
(* which decides what a verification that is started again works on.       *)
(*                                                                         *)
(* run_state.json repeats the status of the manifest, which nobody reads   *)
(* there; an exception that no handler of the step catches ends it as a    *)
(* crash does (one in writing the pruned checkpoint, for instance).        *)
(***************************************************************************)
EXTENDS Naturals, FiniteSets

CONSTANTS
  Pages,        \* the model URLs of interest, among others that are online
  Online,       \* what of them each side may list, by step
  YoungLists,   \* which of them may have come online just now
  Runs,         \* run ids
  NoFile,       \* a file, an entry or a run that is not there
  MaxAttempts,  \* max_attempts
  BatchSize,    \* batch_size
  MaxStarts,    \* bound on the steps that are asked for
  MaxCrashes,   \* bound on deaths and uncaught failures
  MaxFaults,    \* bound on failures the step catches
  MaxStops,     \* bound on stop requests
  MaxEdits      \* bound on changes of the master list between steps

Steps == {"vpn", "local", "compare", "verify"}
Outcomes == {"none", "succeeded", "unpublished", "incomplete", "cancelled",
             "failed", "mismatch"}
Statuses == {"none", "succeeded", "incomplete", "cancelled", "failed"}

\* unclear: the page was read and cannot answer; unreachable: one of
\* TRANSIENT_REASONS, the page was never really judged.
Verdicts == {"blocked", "accessible", "unclear", "unreachable"}
Found == Verdicts \cup {"none"}

List == (SUBSET Pages) \cup {NoFile}
Manifest == [status : Statuses, step : [Steps -> Statuses],
             record : [Steps -> List]]
Checkpoint == [urls : SUBSET Pages, verdict : [Pages -> Found],
               tries : [Pages -> 0..MaxAttempts]]

ASSUME ChaturbateAssumption ==
  /\ MaxAttempts \in Nat \ {0} /\ BatchSize \in Nat \ {0}
  /\ MaxStarts \in Nat /\ MaxCrashes \in Nat /\ MaxFaults \in Nat
  /\ MaxStops \in Nat /\ MaxEdits \in Nat
  /\ IsFiniteSet(Pages) /\ NoFile \notin Runs
  /\ \A s \in SUBSET Pages : NoFile # s
  /\ NoFile \notin Manifest /\ NoFile \notin Checkpoint
  /\ Online \in [{"vpn", "local"} -> SUBSET SUBSET Pages]
  /\ YoungLists \subseteq SUBSET Pages

VARIABLES
  \* --- in the session folder
  active,      \* run_state.active_run_id
  manifest,    \* runs/<id>/manifest.json
  artifact,    \* runs/<id>/step<n>/<list>
  checkpoint,  \* runs/<id>/verification_checkpoint.json
  view,        \* the lists in the session folder itself
  young,       \* pages cb_metadata says were online for less than a minute
  \* --- the master list, and what it is compiled from
  master, shelf, banned,
  \* --- the step that runs
  pc, task, run, urls, known, verdict, tries, round, batch, outcome, stop,
  \* --- auxiliary
  last,        \* the last thing each page showed in the active run
  visits,      \* how often it was opened
  moved,       \* candidates changed otherwise than by joining the master, after
               \* the checkpoint was made
  missed,      \* this attempt could not read the checkpoint it meant to prune
  used         \* [starts, crashes, faults, stops, edits] so far

disk == <<active, manifest, artifact, checkpoint, view, young>>
list == <<master, shelf, banned>>
work == <<urls, known, verdict, tries, round, batch>>
seen == <<last, visits>>
vars == <<disk, list, pc, task, run, work, outcome, stop, seen, moved, missed, used>>

NoVerdicts == [u \in Pages |-> "none"]
NoTries == [u \in Pages |-> 0]
NewManifest == [status |-> "incomplete", step |-> [s \in Steps |-> "none"],
                record |-> [s \in Steps |-> NoFile]]

-----------------------------------------------------------------------------
(* What the code computes from its files.                                  *)

\* Mutant: a page is tried once more than allowed.
IsPendingLonger(v, n) ==
  v = "none" \/ (v \in {"unclear", "unreachable"} /\ n <= MaxAttempts)
\* _is_pending.
IsPending(v, n) ==
  v = "none" \/ (v \in {"unclear", "unreachable"} /\ n < MaxAttempts)
Pending(us, vs, ns) == {u \in us : IsPending(vs[u], ns[u])}

\* Mutant: pages never reached count as judged.
UnreachedNever(us, vs) == {}
\* is_transient_unknown, over the candidates.
Unreached(us, vs) == {u \in us : vs[u] = "unreachable"}

\* _publish_success: blocked pages of this run and those known before.
Final == {u \in urls : verdict[u] = "blocked"} \cup known

\* The master is compiled from the final lists of all sessions and the manual
\* list, without the blacklisted pages.
Compiled(s, b, final) == (s \cup (IF final = NoFile THEN {} ELSE final)) \ b

InOrder(r, s) == /\ manifest[r].record[s] # NoFile
                 /\ artifact[r][s] = manifest[r].record[s]

\* Mutant: the checkpoint keeps its candidates.
PrunableNever(c, keep) == FALSE
\* prune_checkpoint: something to drop, and nothing to add.
Prunable(c, keep) == c # NoFile /\ c.urls # keep /\ keep \subseteq c.urls
Pruned(c, keep) ==
  [urls |-> keep,
   verdict |-> [u \in Pages |-> IF u \in keep THEN c.verdict[u] ELSE "none"],
   tries |-> [u \in Pages |-> IF u \in keep THEN c.tries[u] ELSE 0]]

Status(o) == CASE o = "mismatch" -> "failed"
               [] o = "unpublished" -> "failed"
               [] OTHER -> o

\* record_step.
Recorded(m, s, o, file) ==
  [status |-> IF o # "succeeded" THEN Status(o)
              ELSE IF s = "verify" THEN "succeeded" ELSE m.status,
   step |-> [m.step EXCEPT ![s] = Status(o)],
   record |-> IF o \in {"succeeded", "unpublished"}
                THEN [m.record EXCEPT ![s] = file] ELSE m.record]

-----------------------------------------------------------------------------
Init ==
  /\ active = NoFile /\ manifest = [r \in Runs |-> NoFile]
  /\ artifact = [r \in Runs |-> [s \in Steps |-> NoFile]]
  /\ checkpoint = [r \in Runs |-> NoFile]
  /\ view = [s \in Steps |-> NoFile] /\ young = {}
  /\ master = {} /\ shelf = {} /\ banned = {}
  /\ pc = "idle" /\ task = "vpn" /\ run = NoFile
  /\ urls = {} /\ known = {} /\ verdict = NoVerdicts /\ tries = NoTries
  /\ round = {} /\ batch = {} /\ outcome = "none" /\ stop = FALSE
  /\ last = NoVerdicts /\ visits = NoTries /\ moved = FALSE /\ missed = FALSE
  /\ used = [starts |-> 0, crashes |-> 0, faults |-> 0, stops |-> 0, edits |-> 0]

\* How a step begins: whoever asked for it holds the workspace lease.
Begin(s) ==
  /\ pc = "idle" /\ used.starts < MaxStarts
  /\ task' = s /\ stop' = FALSE /\ missed' = FALSE
  /\ used' = [used EXCEPT !.starts = @ + 1]
  /\ UNCHANGED <<list, seen>>

Ends(o) == outcome' = o /\ pc' = "record"

\* The step returns: its locals are gone.
Return ==
  /\ pc' = "idle"
  /\ urls' = {} /\ known' = {} /\ verdict' = NoVerdicts /\ tries' = NoTries
  /\ round' = {} /\ batch' = {}

\* step_vpn_list: create_run writes the manifest, then run_state.json.
BeginVpn ==
  /\ Begin("vpn")
  /\ \E r \in Runs :
       /\ manifest[r] = NoFile
       /\ manifest' = [manifest EXCEPT ![r] = NewManifest] /\ run' = r
  /\ pc' = "point" /\ outcome' = "none"
  /\ UNCHANGED <<active, artifact, checkpoint, view, young, work, moved>>

PointAtRun ==
  /\ pc = "point"
  /\ active' = run /\ pc' = "fetch"
  /\ last' = NoVerdicts /\ visits' = NoTries /\ moved' = FALSE
  /\ UNCHANGED <<manifest, artifact, checkpoint, view, young, list, task, run,
                 work, outcome, stop, missed, used>>

\* step_local_list.
BeginLocal ==
  /\ Begin("local") /\ active # NoFile /\ run' = active
  /\ IF manifest[active].step["vpn"] = "succeeded"
       THEN pc' = "fetch" /\ outcome' = "none"
       ELSE Ends("failed")
  /\ UNCHANGED <<disk, work, moved>>

\* fetch_models_via_api and what the step makes of its answer, which may be
\* empty.  Step 1 keeps how long each model was online.
Fetch ==
  /\ pc = "fetch"
  /\ \/ Ends(IF stop THEN "cancelled" ELSE "incomplete") /\ UNCHANGED <<urls, young>>
     \/ \E online \in Online[task] :
          /\ IF task = "vpn" THEN young' \in YoungLists ELSE UNCHANGED young
          /\ IF stop THEN Ends("cancelled") /\ UNCHANGED urls
             ELSE urls' = online /\ pc' = "save" /\ UNCHANGED outcome
  /\ UNCHANGED <<active, manifest, artifact, checkpoint, view, list, task, run,
                 known, verdict, tries, round, batch, stop, seen, moved, missed, used>>

\* compare_lists: both snapshots of this run, recorded and unchanged.
BeginCompare ==
  /\ Begin("compare") /\ active # NoFile /\ run' = active
  /\ LET m == manifest[active]
         missing == m.record["vpn"] \ m.record["local"]
     IN IF /\ \A s \in {"vpn", "local"} : m.step[s] = "succeeded"
           /\ \A s \in {"vpn", "local"} : InOrder(active, s)
          THEN /\ urls' = missing \ young
               /\ pc' = "save" /\ outcome' = "none"
          ELSE Ends("failed") /\ UNCHANGED urls
  /\ UNCHANGED <<disk, known, verdict, tries, round, batch, moved>>

\* The run has a checkpoint.
Underway == active # NoFile /\ checkpoint[active] # NoFile

\* artifact_lines of steps 1 to 3.
SaveList ==
  /\ pc = "save"
  /\ artifact' = [artifact EXCEPT ![run][task] = urls]
  /\ moved' = (moved \/ (task = "compare" /\ Underway /\ artifact[run][task] # urls))
  /\ Ends("succeeded")
  /\ UNCHANGED <<active, manifest, checkpoint, view, young, list, task, run,
                 work, stop, seen, missed, used>>

RecordStep ==
  /\ pc = "record"
  /\ manifest' = [manifest EXCEPT ![run] =
                    Recorded(@, task, outcome, artifact[run][task])]
  /\ IF outcome = "succeeded" THEN pc' = "publish" /\ UNCHANGED work ELSE Return
  /\ UNCHANGED <<active, artifact, checkpoint, view, young, list, task, run,
                 outcome, stop, seen, moved, missed, used>>

\* publish_lines: the list shows in the session folder.
Publish ==
  /\ pc = "publish"
  /\ view' = [view EXCEPT ![task] = artifact[run][task]]
  /\ IF task = "verify" THEN pc' = "compile" /\ UNCHANGED work ELSE Return
  /\ UNCHANGED <<active, manifest, artifact, checkpoint, young, list, task,
                 run, outcome, stop, seen, moved, missed, used>>

-----------------------------------------------------------------------------
(* Step 4.                                                                 *)

\* verify_candidates, up to the candidates and what is known of them already.
BeginVerify ==
  /\ Begin("verify") /\ active # NoFile /\ run' = active
  /\ IF /\ manifest[active].step["compare"] = "succeeded"
        /\ InOrder(active, "compare")
        /\ view["compare"] = manifest[active].record["compare"]
       THEN /\ urls' = view["compare"] \ master
            /\ known' = view["compare"] \cap master
            /\ pc' = IF known' # {} THEN "prune" ELSE "browser"
            /\ outcome' = "none"
       ELSE Ends("failed") /\ UNCHANGED <<urls, known>>
  /\ UNCHANGED <<disk, verdict, tries, round, batch, moved>>

\* A checkpoint that cannot be read is left as it is, without a word.
Prune ==
  /\ pc = "prune" /\ pc' = "browser"
  /\ \/ /\ checkpoint' = IF Prunable(checkpoint[run], urls)
            THEN [checkpoint EXCEPT ![run] = Pruned(@, urls)] ELSE checkpoint
        /\ UNCHANGED <<missed, used>>
     \/ /\ checkpoint[run] # NoFile /\ used.faults < MaxFaults
        /\ missed' = TRUE /\ used' = [used EXCEPT !.faults = @ + 1]
        /\ UNCHANGED checkpoint
  /\ UNCHANGED <<active, manifest, artifact, view, young, list, task, run,
                 work, outcome, stop, seen, moved>>

\* The browser, which nobody needs without candidates, is up and past the terms
\* splash, or a stop or a deadline ended the wait for it.
OpenBrowser ==
  /\ pc = "browser"
  /\ pc' = "load"
  /\ UNCHANGED <<disk, list, task, run, work, outcome, stop, seen, moved, missed, used>>

\* The verifier reads the checkpoint.
LoadCheckpoint ==
  /\ pc = "load"
  /\ LET c == checkpoint[run]
     IN \/ /\ c = NoFile
           /\ verdict' = NoVerdicts /\ tries' = NoTries /\ pc' = "fresh"
           /\ UNCHANGED outcome
        \/ /\ c # NoFile /\ c.urls = urls
           /\ verdict' = c.verdict /\ tries' = c.tries /\ pc' = "rounds"
           /\ UNCHANGED outcome
        \/ /\ c # NoFile /\ c.urls # urls
           /\ Ends("mismatch") /\ UNCHANGED <<verdict, tries>>
  /\ UNCHANGED <<disk, list, task, run, urls, known, round, batch, stop, seen,
                 moved, missed, used>>

\* _checkpoint.
Keep ==
  checkpoint' = [checkpoint EXCEPT ![run] =
                   [urls |-> urls, verdict |-> verdict, tries |-> tries]]

FirstCheckpoint ==
  /\ pc = "fresh"
  /\ Keep /\ pc' = "rounds"
  /\ UNCHANGED <<active, manifest, artifact, view, young, list, task, run,
                 work, outcome, stop, seen, moved, missed, used>>

\* A round takes what is pending now; without any, the verifier settles.
NextRound ==
  /\ pc = "rounds"
  /\ round' = Pending(urls, verdict, tries)
  /\ IF round' # {} THEN pc' = "batch" /\ UNCHANGED outcome
     ELSE IF Unreached(urls, verdict) # {} THEN Ends("incomplete")
     ELSE pc' = "final" /\ UNCHANGED outcome
  /\ UNCHANGED <<disk, list, task, run, urls, known, verdict, tries, batch,
                 stop, seen, moved, missed, used>>

NextBatch ==
  /\ pc = "batch"
  /\ IF stop THEN pc' = "halt" /\ UNCHANGED <<round, batch>>
     ELSE LET size == IF Cardinality(round) < BatchSize THEN Cardinality(round)
                                                        ELSE BatchSize
          IN \E some \in SUBSET round :
               /\ Cardinality(some) = size
               /\ batch' = some /\ round' = round \ some /\ pc' = "visit"
  /\ UNCHANGED <<disk, list, task, run, urls, known, verdict, tries, outcome,
                 stop, seen, moved, missed, used>>

Counted(ns, u) == [ns EXCEPT ![u] = @ + 1]

\* One page: the provider waits out challenges (until a stop or its deadline)
\* and reads the page; whatever goes wrong leaves a transient unknown.
Visit ==
  /\ pc = "visit"
  /\ IF stop THEN pc' = "halt" /\ UNCHANGED <<verdict, tries, batch, seen>>
     ELSE \E u \in batch, v \in Verdicts :
            /\ verdict' = [verdict EXCEPT ![u] = v]
            /\ tries' = Counted(tries, u)
            /\ last' = [last EXCEPT ![u] = v]
            /\ visits' = [visits EXCEPT ![u] = @ + 1]
            /\ batch' = batch \ {u}
            /\ pc' = IF batch' = {} THEN "keep" ELSE "visit"
  /\ UNCHANGED <<disk, list, task, run, urls, known, round, outcome, stop,
                 moved, missed, used>>

KeepBatch ==
  /\ pc = "keep"
  /\ Keep /\ pc' = IF round = {} THEN "rounds" ELSE "batch"
  /\ UNCHANGED <<active, manifest, artifact, view, young, list, task, run,
                 work, outcome, stop, seen, moved, missed, used>>

\* Mutant: a stop ends the batch, not the rounds.
HaltsBatchOnly ==
  /\ pc = "halt"
  /\ Keep /\ pc' = "rounds"
  /\ UNCHANGED <<active, manifest, artifact, view, young, list, task, run,
                 work, outcome, stop, seen, moved, missed, used>>
\* Stopped: what is known is kept, the pages of the batch without a visit too.
Halt ==
  /\ pc = "halt"
  /\ Keep /\ Ends("cancelled")
  /\ UNCHANGED <<active, manifest, artifact, view, young, list, task, run,
                 work, stop, seen, moved, missed, used>>

SaveFinal ==
  /\ pc = "final"
  /\ artifact' = [artifact EXCEPT ![run]["verify"] = Final]
  /\ Ends("succeeded")
  /\ UNCHANGED <<active, manifest, checkpoint, view, young, list, task, run,
                 work, stop, seen, moved, missed, used>>

\* A page that leaves the master is a candidate again.
SetMaster(m) == /\ master' = m
                /\ moved' = (moved \/ (Underway /\ ~(master \subseteq m)))

\* compile_master_list, after the success is recorded and shown.
Compile ==
  /\ pc = "compile"
  /\ SetMaster(Compiled(shelf, banned, view["verify"]))
  /\ Return
  /\ UNCHANGED <<disk, shelf, banned, task, run, outcome, stop, seen, missed, used>>

\* A failure inside Step 4: its own publication is recorded as failed with
\* the artifact, anything else as a crash of the step, also when the step was
\* recorded as a success before.
StepFails ==
  /\ task = "verify" /\ used.faults < MaxFaults
  /\ \/ /\ pc = "publish" /\ Ends("unpublished")
     \/ /\ \/ pc \in {"load", "fresh", "keep", "halt", "final", "compile"}
           \/ pc = "browser" /\ urls # {}
        /\ Ends("failed")
     \/ /\ pc = "record"
        /\ outcome \in {"succeeded", "unpublished", "incomplete", "cancelled"}
        /\ Ends("failed")
  /\ used' = [used EXCEPT !.faults = @ + 1]
  /\ UNCHANGED <<disk, list, task, run, work, stop, seen, moved, missed>>

-----------------------------------------------------------------------------
(* The world around a step.                                                *)

Crash ==
  /\ pc # "idle" /\ used.crashes < MaxCrashes
  /\ Return /\ outcome' = "none" /\ stop' = FALSE
  /\ used' = [used EXCEPT !.crashes = @ + 1]
  /\ UNCHANGED <<disk, list, task, run, seen, moved, missed>>

RequestStop ==
  /\ pc # "idle" /\ ~stop /\ used.stops < MaxStops
  /\ stop' = TRUE /\ used' = [used EXCEPT !.stops = @ + 1]
  /\ UNCHANGED <<disk, list, pc, task, run, work, outcome, seen, moved, missed>>

\* Master edits take the workspace lease: add_manual or another session's
\* publication with its compilation, block_model, remove_from_master_list.
Edit(u) ==
  /\ pc = "idle" /\ used.edits < MaxEdits
  /\ \/ /\ shelf' = shelf \cup {u} /\ UNCHANGED banned
        /\ SetMaster(Compiled(shelf', banned, view["verify"]))
     \/ /\ banned' = banned \cup {u} /\ UNCHANGED shelf
        /\ SetMaster(master \ {u})
     \/ SetMaster(master \ {u}) /\ UNCHANGED <<shelf, banned>>
  /\ used' = [used EXCEPT !.edits = @ + 1]
  /\ UNCHANGED <<disk, pc, task, run, work, outcome, stop, seen, missed>>

Step ==
  \/ PointAtRun \/ Fetch \/ SaveList \/ RecordStep \/ Publish
  \/ Prune \/ OpenBrowser \/ LoadCheckpoint \/ FirstCheckpoint \/ NextRound \/ NextBatch
  \/ Visit \/ KeepBatch \/ Halt \/ SaveFinal \/ Compile

Next ==
  \/ BeginVpn \/ BeginLocal \/ BeginCompare \/ BeginVerify
  \/ Step \/ StepFails \/ Crash \/ RequestStop
  \/ \E u \in Pages : Edit(u)

Spec == Init /\ [][Next]_vars
\* Waits inside a step have deadlines, so a step that runs goes on.
FairSpec == Spec /\ WF_vars(Step)

-----------------------------------------------------------------------------
(* Properties.                                                             *)

\* The files hold what their readers expect, and attempts stay in the budget.
TypeOK ==
  /\ active \in Runs \cup {NoFile} /\ run \in Runs \cup {NoFile}
  /\ manifest \in [Runs -> Manifest \cup {NoFile}]
  /\ artifact \in [Runs -> [Steps -> List]] /\ view \in [Steps -> List]
  /\ checkpoint \in [Runs -> Checkpoint \cup {NoFile}]
  /\ young \subseteq Pages /\ task \in Steps /\ outcome \in Outcomes
  /\ pc \in {"idle", "point", "fetch", "save", "record", "publish", "prune",
             "browser", "load", "fresh", "rounds", "batch", "visit", "keep", "halt",
             "final", "compile"}
  /\ urls \subseteq Pages /\ known \subseteq Pages
  /\ master \subseteq Pages /\ shelf \subseteq Pages /\ banned \subseteq Pages
  /\ verdict \in [Pages -> Found] /\ tries \in [Pages -> 0..MaxAttempts]
  /\ round \subseteq Pages /\ batch \subseteq Pages /\ stop \in BOOLEAN
  /\ last \in [Pages -> Found] /\ visits \in [Pages -> Nat]
  /\ moved \in BOOLEAN /\ missed \in BOOLEAN

\* The list Step 4 is about to record as its success agrees with the last look
\* at every candidate, however often the step was interrupted: what is on it
\* was blocked then or known, what is not was read and found otherwise
\* (_publish_success, with prune_checkpoint and the resumed verdicts).
FinalIsLastVerdict ==
  (pc = "record" /\ task = "verify" /\ outcome = "succeeded") =>
    \A u \in view["compare"] :
      IF u \in artifact[run]["verify"]
        THEN last[u] = "blocked" \/ u \in known
        ELSE last[u] \in {"accessible", "unclear"}

\* A page is opened at most MaxAttempts times in a run, and once more for every
\* batch that was lost before its checkpoint (ChaturbateVerifier.verify).
VisitsAreBounded ==
  \A u \in Pages : visits[u] <= MaxAttempts + used.crashes + used.faults

\* Step 4 refuses its own checkpoint only when the candidates changed otherwise
\* than by joining the master list, since those that did are dropped from it, or
\* when this very attempt could not read what it had to drop them from: the next
\* one that can is not refused (prune_checkpoint, ChaturbateVerifier.verify).
ResumeFits == outcome = "mismatch" => moved \/ missed

\* A step that was started comes to an end, also over pages that can never be
\* classified (the rounds of ChaturbateVerifier.verify).
StepEnds == pc # "idle" ~> pc = "idle"
=============================================================================
