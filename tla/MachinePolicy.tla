---------------------------- MODULE MachinePolicy ----------------------------
(***************************************************************************)
(* The machine-wide VPN and Chrome policy (machine_policy.py) and everyone *)
(* who changes it or waits for it: the hardened coordinator's run and      *)
(* run_step, the legacy coordinator, the manual step, the service's        *)
(* restore and reconcile, and tasks that hold the workspace lease only.    *)
(*                                                                         *)
(* An app is one process of one checkout running one task at a time.  Each *)
(* action is one durable write, one VPN command or one lock, so a crash    *)
(* can fall between any two.  Locks never wait: a busy one turns the task  *)
(* away, and the operating system drops a dead process's locks.            *)
(***************************************************************************)
EXTENDS Naturals, FiniteSets

CONSTANTS
    Apps,          \* processes
    Checkouts,     \* installations: workspaces sharing the machine
    Relays,        \* relay codes a checkout may be configured with
    Runs,          \* runs with a manifest
    Tx,            \* transaction ids (each used once)
    Off,           \* the VPN is disconnected
    None,          \* no lease holder, no transaction, no run
    Legacy,        \* a change made by a coordinator that keeps no journal
    home,          \* [Apps -> Checkouts]
    runHome,       \* [Runs -> Checkouts]
    firstRelay,    \* [Checkouts -> Relays], the preferences to begin with
    Kinds,         \* the tasks operators start
    MaxCrashes,    \* bound on crashes
    MaxFailures,   \* bound on failed writes, commands and reads
    MaxRelayChanges \* bound on edits of the relay preference

AllKinds == {"flow", "legacy", "manual", "restore", "reconcile", "plain"}

ASSUME ConstantsAssumption ==
    /\ home \in [Apps -> Checkouts]
    /\ runHome \in [Runs -> Checkouts]
    /\ firstRelay \in [Checkouts -> Relays]
    /\ None \notin Apps \cup Checkouts \cup Runs \cup Tx \cup Relays
    /\ Legacy \notin Tx \cup {None}
    /\ Off \notin Relays
    /\ Kinds \subseteq AllKinds
    /\ MaxCrashes \in Nat /\ MaxFailures \in Nat /\ MaxRelayChanges \in Nat

VARIABLES
    \* --- the machine and its files
    machine,       \* [vpn, excluded]: the connection and the Chrome exclusion
    active,        \* active.json: the transaction it points to, or None
    docs,          \* transactions/<id>.json, or None before it is written
    manifest,      \* restoration state in each run's manifest.json
    relay,         \* each checkout's vpnRelayLocation preference
    \* --- locks
    machineLease,  \* the app holding machine-policy.lock
    workspace,     \* the app holding each checkout's workspace lock
    \* --- each app's call stack
    pc, task,      \* where it is, in which task
    goal,          \* relay_location of the VPN controller it was given
    tx,            \* the transaction it works on
    run,           \* the run it prepared
    phase,         \* restoring in recover_pending or in the final block
    ok,            \* results["ok"] of the restoration under way
    seen,          \* manifest sync status it is about to write
    \* --- auxiliary
    touched,       \* who changed the machine and has not restored it in full
    used           \* [crashes, failures, relays] so far

files == <<docs, manifest>>
locks == <<machineLease, workspace>>
locals == <<task, goal, tx, run, phase, ok, seen>>
vars == <<machine, active, docs, manifest, relay, machineLease, workspace,
          pc, task, goal, tx, run, phase, ok, seen, touched, used>>

\* policy.to_dict(): the code only ever builds the default end policy, VPN
\* connected and Chrome excluded, so a target is its relay.
Target(r) == [vpn |-> r, excluded |-> TRUE]

TransactionStatuses == {"pending", "restored", "restored_manifest_pending", "failed"}
SyncStatuses == {"pending", "synced", "origin_busy", "origin_missing", "invalid_origin"}
RestorationStates == {"none", "pending", "restored", "failed", "missing"}

Documents == [origin : Checkouts, run : Runs, target : Relays,
              status : TransactionStatuses, sync : SyncStatuses]

\* A transaction file that is not there is no document.
ASSUME DocumentsAssumption == None \notin Documents

Restoring == {"vpn", "chrome", "record"}
\* Places where a step collects or verifies under the route it asked for.
OnVpn == {"routed", "rerouted"}
OnLocal == {"local", "relocal"}
Working == OnVpn \cup OnLocal \cup {"manual"}

PlacesUnderMachineLease ==
    {"guard", "recover", "mirror", "sync", "defer", "clear", "workspace",
     "prepare", "doc", "pointer", "open", "routing", "manifest"}
    \cup Restoring \cup Working
Places == {"idle", "start", "plain"} \cup PlacesUnderMachineLease

\* Type correctness of the machine, its files, the locks and the call stacks: a
\* running task has its VPN controller, one about to open a transaction its run.
TypeOK ==
    /\ machine \in [vpn : Relays \cup {Off}, excluded : BOOLEAN]
    /\ active \in Tx \cup {None}
    /\ docs \in [Tx -> Documents \cup {None}]
    /\ manifest \in [Runs -> RestorationStates]
    /\ relay \in [Checkouts -> Relays]
    /\ machineLease \in Apps \cup {None}
    /\ workspace \in [Checkouts -> Apps \cup {None}]
    /\ pc \in [Apps -> Places]
    /\ task \in [Apps -> AllKinds]
    /\ goal \in [Apps -> Relays \cup {None}]
    /\ \A a \in Apps : pc[a] # "idle" => goal[a] # None
    /\ \A a \in Apps : pc[a] = "doc" => run[a] # None
    /\ tx \in [Apps -> Tx \cup {None}]
    /\ run \in [Apps -> Runs \cup {None}]
    /\ phase \in [Apps -> {"recover", "finish"}]
    /\ ok \in [Apps -> BOOLEAN]
    /\ seen \in [Apps -> SyncStatuses]
    /\ touched \in Tx \cup {Legacy, None}
    /\ used \in [crashes : 0..MaxCrashes, failures : 0..MaxFailures,
                 relays : 0..MaxRelayChanges]

Init ==
    /\ relay = firstRelay
    /\ machine \in [vpn : Relays \cup {Off}, excluded : BOOLEAN]
    /\ active = None
    /\ docs = [t \in Tx |-> None]
    /\ manifest = [r \in Runs |-> "none"]
    /\ machineLease = None
    /\ workspace = [c \in Checkouts |-> None]
    /\ pc = [a \in Apps |-> "idle"]
    /\ task = [a \in Apps |-> "plain"]
    /\ goal = [a \in Apps |-> None]
    /\ tx = [a \in Apps |-> None]
    /\ run = [a \in Apps |-> None]
    /\ phase = [a \in Apps |-> "recover"]
    /\ ok = [a \in Apps |-> TRUE]
    /\ seen = [a \in Apps |-> "pending"]
    /\ touched = None
    /\ used = [crashes |-> 0, failures |-> 0, relays |-> 0]

-----------------------------------------------------------------------------
(***************************************************************************)
(* Leaving, failing, dying                                                 *)
(***************************************************************************)
At(a, place) == pc[a] = place
Goto(a, place) == pc' = [pc EXCEPT ![a] = place]

FreeWorkspace(a) ==
    workspace' = [c \in Checkouts |->
                    IF workspace[c] = a THEN None ELSE workspace[c]]
\* Mutants: the machine lease is not given back; whoever leaves frees it.
FreeWorkspaceOnly(a) == FreeWorkspace(a) /\ machineLease' = machineLease
FreeWhoever(a) == FreeWorkspace(a) /\ machineLease' = None
Free(a) ==
    /\ FreeWorkspace(a)
    /\ machineLease' = IF machineLease = a THEN None ELSE machineLease

\* The end of a task, however it ends: the with statements release the leases
\* and the call stack is gone.
Leave(a) ==
    /\ Goto(a, "idle")
    /\ Free(a)
    /\ goal' = [goal EXCEPT ![a] = None]
    /\ tx' = [tx EXCEPT ![a] = None]
    /\ run' = [run EXCEPT ![a] = None]
    /\ phase' = [phase EXCEPT ![a] = "recover"]
    /\ ok' = [ok EXCEPT ![a] = TRUE]
    /\ seen' = [seen EXCEPT ![a] = "pending"]
    /\ task' = [task EXCEPT ![a] = "plain"]

Fails ==
    /\ used.failures < MaxFailures
    /\ used' = [used EXCEPT !.failures = @ + 1]

\* The process dies: its locks go with it, its files and the VPN stay.
Crash(a) ==
    /\ ~At(a, "idle")
    /\ used.crashes < MaxCrashes
    /\ used' = [used EXCEPT !.crashes = @ + 1]
    /\ Leave(a)
    /\ UNCHANGED <<machine, active, docs, manifest, relay, touched>>

-----------------------------------------------------------------------------
(***************************************************************************)
(* Starting                                                                *)
(***************************************************************************)
\* A task starts: the service builds a VPN controller from the preferences
\* of this moment.  Reconciling reads the pointer now, before any lease.
Start(a, k) ==
    /\ At(a, "idle") /\ k \in Kinds
    /\ k = "reconcile" => active # None
    /\ Goto(a, "start")
    /\ task' = [task EXCEPT ![a] = k]
    /\ goal' = [goal EXCEPT ![a] = relay[home[a]]]
    /\ tx' = [tx EXCEPT ![a] = IF k = "reconcile" THEN active ELSE None]
    /\ UNCHANGED <<machine, files, active, relay, locks, run, phase, ok, seen,
                   touched, used>>

\* Mutant: the lock does not exclude.
AcquireMachineShared(a) ==
    /\ At(a, "start") /\ task[a] # "plain"
    /\ machineLease' = a
    /\ Goto(a, CASE task[a] \in {"flow", "restore"} -> "recover"
                 [] task[a] \in {"legacy", "manual"} -> "guard"
                 [] OTHER -> "mirror")
    /\ UNCHANGED <<machine, files, active, relay, workspace, locals, touched,
                   used>>

AcquireMachine(a) ==
    /\ At(a, "start") /\ task[a] # "plain"
    /\ machineLease = None
    /\ machineLease' = a
    /\ Goto(a, CASE task[a] \in {"flow", "restore"} -> "recover"
                 [] task[a] \in {"legacy", "manual"} -> "guard"
                 [] OTHER -> "mirror")
    /\ UNCHANGED <<machine, files, active, relay, workspace, locals, touched,
                   used>>

\* machine_lease_busy, or workflow_already_running for the workspace lock.
TurnedAway(a) ==
    /\ \/ At(a, "start") /\ task[a] # "plain" /\ machineLease # None
       \/ At(a, "start") /\ task[a] = "plain" /\ workspace[home[a]] # None
       \/ At(a, "workspace") /\ workspace[home[a]] # None
    /\ Leave(a)
    /\ UNCHANGED <<machine, files, active, relay, touched, used>>

\* The legacy coordinator and the manual step refuse any open transaction,
\* their own checkout's included.
Guard(a) ==
    /\ At(a, "guard")
    /\ \/ active = None /\ Goto(a, "workspace")
          /\ UNCHANGED <<locks, locals>>
       \/ active # None /\ Leave(a)
    /\ UNCHANGED <<machine, files, active, relay, touched, used>>

AcquireWorkspace(a) ==
    /\ At(a, "workspace") \/ (At(a, "start") /\ task[a] = "plain")
    /\ workspace[home[a]] = None
    /\ workspace' = [workspace EXCEPT ![home[a]] = a]
    /\ Goto(a, CASE task[a] = "plain" -> "plain"
                 [] task[a] = "legacy" -> "open"
                 [] OTHER -> "prepare")
    /\ UNCHANGED <<machine, files, active, relay, machineLease, locals,
                   touched, used>>

-----------------------------------------------------------------------------
(***************************************************************************)
(* recover_pending, up to the restoration                                  *)
(***************************************************************************)
\* Mutant: a journal without a workspace owns every document.
OwnedByAnyone(a, t) == t \in Tx
\* owns_document.
Owned(a, t) == docs[t].origin = home[a]

NothingPending(a) ==
    /\ At(a, "recover") /\ active = None
    /\ \/ task[a] = "flow" /\ Goto(a, "workspace") /\ UNCHANGED <<locks, locals>>
       \/ task[a] = "restore" /\ Leave(a)
    /\ UNCHANGED <<machine, files, active, relay, touched, used>>

\* machine_policy_foreign_workspace: the machine is left as it is.
ForeignPending(a) ==
    /\ At(a, "recover") /\ active # None
    /\ ~Owned(a, active)
    /\ Leave(a)
    /\ UNCHANGED <<machine, files, active, relay, touched, used>>

AlreadyRestored(t) ==
    docs[t].status \in {"restored", "restored_manifest_pending"}

\* Mutant: a failed restoration is not tried again.
RecoverPendingOnce(a) ==
    /\ At(a, "recover") /\ active # None
    /\ Owned(a, active) /\ docs[active].status # "failed"
    /\ tx' = [tx EXCEPT ![a] = active]
    /\ Goto(a, IF AlreadyRestored(active) THEN "clear" ELSE "vpn")
    /\ UNCHANGED <<machine, files, active, relay, locks, task, goal, run, phase,
                   ok, seen, touched, used>>
RecoverPending(a) ==
    /\ At(a, "recover") /\ active # None
    /\ Owned(a, active)
    /\ tx' = [tx EXCEPT ![a] = active]
    /\ Goto(a, IF AlreadyRestored(active) THEN "clear" ELSE "vpn")
    /\ UNCHANGED <<machine, files, active, relay, locks, task, goal, run, phase,
                   ok, seen, touched, used>>

-----------------------------------------------------------------------------
(***************************************************************************)
(* begin                                                                   *)
(***************************************************************************)
\* prepare_run / prepare_step: a new run, or one to resume whose manifest
\* keeps the restoration state of its last attempt; or a refusal.
\* Transaction ids are bounded: a flow without an unused one is refused.
Prepare(a) ==
    /\ At(a, "prepare")
    /\ \/ \E r \in Runs :
            /\ runHome[r] = home[a] /\ manifest[r] # "missing"
            /\ task[a] = "flow" => \E t \in Tx : docs[t] = None
            /\ manifest' = [manifest EXCEPT ![r] =
                              IF @ = "none" THEN "pending" ELSE @]
            /\ run' = [run EXCEPT ![a] = r]
            /\ Goto(a, IF task[a] = "flow" THEN "doc" ELSE "manual")
            /\ UNCHANGED <<locks, task, goal, tx, phase, ok, seen, used>>
       \/ Leave(a) /\ UNCHANGED <<manifest, used>>
    /\ UNCHANGED <<machine, docs, active, relay, touched>>

WriteDocument(a) ==
    /\ At(a, "doc")
    /\ \/ \E t \in Tx :
            /\ docs[t] = None
            /\ active # None => Owned(a, active)
            /\ docs' = [docs EXCEPT ![t] =
                          [origin |-> home[a], run |-> run[a],
                           target |-> goal[a],
                           status |-> "pending", sync |-> "pending"]]
            /\ tx' = [tx EXCEPT ![a] = t]
            /\ Goto(a, "pointer")
            /\ UNCHANGED <<locks, task, goal, run, phase, ok, seen, used>>
       \/ Fails /\ Leave(a) /\ UNCHANGED docs
    /\ UNCHANGED <<machine, active, manifest, relay, touched>>

WritePointer(a) ==
    /\ At(a, "pointer")
    /\ \/ active' = tx[a] /\ Goto(a, "open")
          /\ UNCHANGED <<locks, locals, used>>
       \/ Fails /\ Leave(a) /\ UNCHANGED active
    /\ UNCHANGED <<machine, files, relay, touched>>

-----------------------------------------------------------------------------
(***************************************************************************)
(* The steps of the workflow and the routes they ask for                   *)
(***************************************************************************)
Finally(a) ==
    /\ Goto(a, "vpn")
    /\ phase' = [phase EXCEPT ![a] = "finish"]

Touched(a) == touched' = IF task[a] = "legacy" THEN Legacy ELSE tx[a]

\* A command that changes the machine, then the transition recorded in the
\* journal: either may fail, after which the machine is anyone's guess.
Command(a, place, change) ==
    /\ Touched(a)
    /\ \/ machine' = change /\ Goto(a, place)
          /\ UNCHANGED <<phase, used>>
       \/ Fails /\ Finally(a)
          /\ \/ machine' = change
             \/ UNCHANGED machine
    /\ UNCHANGED <<files, active, relay, locks, task, goal, tx, run, ok, seen>>

\* ensure_chrome_not_in_split_tunnel, before the VPN snapshot.
RouteChrome(a) ==
    /\ At(a, "open")
    /\ Command(a, "routing", [machine EXCEPT !.excluded = FALSE])

\* connect_relay; MyFreeCams connects a second time for its live reference.
ConnectRelay(a) ==
    /\ At(a, "routing") \/ (At(a, "local") /\ task[a] = "legacy")
    /\ Command(a, IF At(a, "local") THEN "rerouted" ELSE "routed",
               [machine EXCEPT !.vpn = goal[a]])

\* disconnect: after the VPN snapshot, or at once when the run resumes later
\* (a resumed legacy flow has its live reference already).
DisconnectForLocal(a) ==
    /\ pc[a] \in {"open"} \cup OnVpn
    /\ Command(a, IF At(a, "routed") \/ task[a] # "legacy"
                  THEN "local" ELSE "relocal",
               [machine EXCEPT !.vpn = Off])

\* The last step succeeded, or a step failed, stopped short or was cancelled:
\* the finally block restores in every case.
EndSteps(a) ==
    /\ pc[a] \in {"open", "routing"} \cup OnVpn \cup OnLocal
    /\ Finally(a)
    /\ UNCHANGED <<machine, files, active, relay, locks, task, goal, tx, run,
                   ok, seen, touched, used>>

\* The manual step and the workspace-only tasks never touch the machine.
EndUnrestored(a) ==
    /\ pc[a] \in {"manual", "plain"}
    /\ Leave(a)
    /\ UNCHANGED <<machine, files, active, relay, touched, used>>

-----------------------------------------------------------------------------
(***************************************************************************)
(* restore: VPN and Chrome each on their own, then the journal             *)
(***************************************************************************)
\* ensure_connected_relay connects the relay of the controller at hand.
RestoreVpn(a) ==
    /\ At(a, "vpn") /\ Goto(a, "chrome")
    /\ \/ machine' = [machine EXCEPT !.vpn = goal[a]]
          /\ UNCHANGED <<ok, used>>
       \/ Fails /\ ok' = [ok EXCEPT ![a] = FALSE] /\ UNCHANGED machine
    /\ UNCHANGED <<files, active, relay, locks, task, goal, tx, run, phase, seen,
                   touched>>

RestoreChrome(a) ==
    /\ At(a, "chrome") /\ Goto(a, "record")
    /\ \/ /\ machine' = [machine EXCEPT !.excluded = TRUE]
          /\ touched' = IF ok[a] THEN None ELSE touched
          /\ UNCHANGED <<ok, used>>
       \/ Fails /\ ok' = [ok EXCEPT ![a] = FALSE] /\ UNCHANGED <<machine, touched>>
    /\ UNCHANGED <<files, active, relay, locks, task, goal, tx, run, phase, seen>>

\* The legacy coordinator records nothing; its outcome alone says it failed.
RestoredUnrecorded(a) ==
    /\ At(a, "record") /\ task[a] = "legacy"
    /\ Leave(a)
    /\ UNCHANGED <<machine, files, active, relay, touched, used>>

\* record_restoration_attempt; a failed write makes the result not ok.
RecordAttempt(a) ==
    /\ At(a, "record") /\ task[a] # "legacy"
    /\ Owned(a, tx[a])
    /\ \/ /\ docs' = [docs EXCEPT ![tx[a]].status =
                        IF ok[a] THEN "restored" ELSE "failed"]
          /\ UNCHANGED <<ok, used>>
       \/ Fails /\ ok' = [ok EXCEPT ![a] = FALSE] /\ UNCHANGED docs
    /\ Goto(a, IF phase[a] = "finish" THEN "manifest" ELSE "mirror")
    /\ UNCHANGED <<machine, active, manifest, relay, locks, task, goal, tx, run,
                   phase, seen, touched>>

\* Mutant: the transaction is closed whatever the restoration's result.
RecordAndClose(a) ==
    /\ At(a, "manifest")
    /\ manifest' = [manifest EXCEPT ![run[a]] =
                      IF ok[a] THEN "restored" ELSE "failed"]
    /\ Goto(a, "sync")
    /\ seen' = [seen EXCEPT ![a] = "synced"]
    /\ UNCHANGED <<machine, docs, active, relay, locks, task, goal, tx, run,
                   phase, ok, touched, used>>
\* adapter.record_restoration in the run's manifest; its failure is swallowed
\* and the sync status is "synced" all the same.
RecordRestoration(a) ==
    /\ At(a, "manifest")
    /\ \/ /\ manifest' = [manifest EXCEPT ![run[a]] =
                            IF ok[a] THEN "restored" ELSE "failed"]
          /\ UNCHANGED used
       \/ Fails /\ UNCHANGED manifest
    /\ \/ /\ ok[a] /\ Goto(a, "sync")
          /\ seen' = [seen EXCEPT ![a] = "synced"]
          /\ UNCHANGED <<locks, task, goal, tx, run, phase, ok>>
       \/ ~ok[a] /\ Leave(a)
    /\ UNCHANGED <<machine, docs, active, relay, touched>>

-----------------------------------------------------------------------------
(***************************************************************************)
(* The origin's manifest and the end of the transaction                    *)
(***************************************************************************)
\* recover_pending gives up when the restoration did not succeed.
RecoveryFailed(a) ==
    /\ At(a, "mirror") /\ ~ok[a]
    /\ Leave(a)
    /\ UNCHANGED <<machine, files, active, relay, touched, used>>

\* _mirror_origin: takes the origin's workspace lock, writes, releases it.
MirrorOrigin(a) ==
    /\ At(a, "mirror") /\ ok[a]
    /\ LET doc == docs[tx[a]] IN
       \/ /\ ~Owned(a, tx[a])
          /\ seen' = [seen EXCEPT ![a] = "invalid_origin"]
          /\ UNCHANGED <<manifest, used>>
       \/ /\ Owned(a, tx[a]) /\ manifest[doc.run] = "missing"
          /\ seen' = [seen EXCEPT ![a] = "origin_missing"]
          /\ UNCHANGED <<manifest, used>>
       \/ /\ Owned(a, tx[a]) /\ manifest[doc.run] # "missing"
          /\ \/ /\ workspace[doc.origin] # None
                /\ seen' = [seen EXCEPT ![a] = "origin_busy"]
                /\ UNCHANGED <<manifest, used>>
             \/ /\ workspace[doc.origin] = None
                /\ manifest' = [manifest EXCEPT ![doc.run] = "restored"]
                /\ seen' = [seen EXCEPT ![a] = "synced"]
                /\ UNCHANGED used
             \/ /\ workspace[doc.origin] = None /\ Fails
                /\ seen' = [seen EXCEPT ![a] = "invalid_origin"]
                /\ UNCHANGED manifest
    /\ Goto(a, "sync")
    /\ UNCHANGED <<machine, docs, active, relay, locks, task, goal, tx, run,
                   phase, ok, touched>>

AfterSync(a) ==
    IF phase[a] = "recover" /\ seen[a] # "synced" THEN "defer" ELSE "clear"

\* Mutant: the sync status is written without the ownership check.
SetManifestSyncOfAny(a) ==
    /\ At(a, "sync")
    /\ docs' = [docs EXCEPT ![tx[a]].sync = seen[a]]
    /\ IF task[a] = "reconcile"
       THEN Leave(a)
       ELSE Goto(a, AfterSync(a)) /\ UNCHANGED <<locks, locals>>
    /\ UNCHANGED <<machine, active, manifest, relay, touched, used>>
\* set_manifest_sync: refuses another checkout's document.
SetManifestSync(a) ==
    /\ At(a, "sync")
    /\ \/ /\ Owned(a, tx[a])
          /\ docs' = [docs EXCEPT ![tx[a]].sync = seen[a]]
          /\ IF task[a] = "reconcile"
             THEN Leave(a)
             ELSE /\ Goto(a, AfterSync(a))
                  /\ UNCHANGED <<locks, locals>>
          /\ UNCHANGED used
       \/ ~Owned(a, tx[a]) /\ Leave(a) /\ UNCHANGED <<docs, used>>
       \/ Owned(a, tx[a]) /\ Fails /\ Leave(a) /\ UNCHANGED docs
    /\ UNCHANGED <<machine, active, manifest, relay, touched>>

\* The machine is right, its record is not: restored_manifest_pending.
DeferMirror(a) ==
    /\ At(a, "defer")
    /\ \/ /\ docs' = [docs EXCEPT ![tx[a]].status = "restored_manifest_pending"]
          /\ Goto(a, "clear")
          /\ UNCHANGED <<locks, locals, used>>
       \/ Fails /\ Leave(a) /\ UNCHANGED docs
    /\ UNCHANGED <<machine, active, manifest, relay, touched>>

\* clear_active, then on to the flow's own work, or home.
ClearActive(a) ==
    /\ At(a, "clear")
    /\ \/ /\ active' = IF active \in {tx[a], None} THEN None ELSE active
          /\ UNCHANGED used
          /\ \/ /\ task[a] = "flow" /\ phase[a] = "recover"
                /\ Goto(a, "workspace")
                /\ tx' = [tx EXCEPT ![a] = None]
                /\ seen' = [seen EXCEPT ![a] = "pending"]
                /\ UNCHANGED <<locks, task, goal, run, phase, ok>>
             \/ ~(task[a] = "flow" /\ phase[a] = "recover") /\ Leave(a)
       \/ Fails /\ Leave(a) /\ UNCHANGED active
    /\ UNCHANGED <<machine, files, relay, touched>>

-----------------------------------------------------------------------------
(***************************************************************************)
(* The operator's preferences and files                                    *)
(***************************************************************************)
\* The relay preference is edited under the workspace lock, by a service
\* that runs no task.
ChangeRelay(c, r) ==
    /\ workspace[c] = None
    /\ \E a \in Apps : home[a] = c /\ At(a, "idle")
    /\ r # relay[c]
    /\ used.relays < MaxRelayChanges
    /\ used' = [used EXCEPT !.relays = @ + 1]
    /\ relay' = [relay EXCEPT ![c] = r]
    /\ UNCHANGED <<machine, files, active, locks, pc, locals, touched>>

\* A session folder is deleted while nobody works in it.
DeleteRun(r) ==
    /\ manifest[r] \notin {"none", "missing"}
    /\ workspace[runHome[r]] = None
    /\ Fails
    /\ manifest' = [manifest EXCEPT ![r] = "missing"]
    /\ UNCHANGED <<machine, docs, active, relay, locks, pc, locals, touched>>

Proceed(a) ==
    \/ AcquireMachine(a) \/ TurnedAway(a) \/ Guard(a) \/ AcquireWorkspace(a)
    \/ NothingPending(a) \/ ForeignPending(a) \/ RecoverPending(a)
    \/ Prepare(a) \/ WriteDocument(a) \/ WritePointer(a)
    \/ RouteChrome(a) \/ ConnectRelay(a) \/ DisconnectForLocal(a)
    \/ EndSteps(a) \/ EndUnrestored(a)
    \/ RestoreVpn(a) \/ RestoreChrome(a)
    \/ RestoredUnrecorded(a) \/ RecordAttempt(a) \/ RecordRestoration(a)
    \/ RecoveryFailed(a) \/ MirrorOrigin(a) \/ SetManifestSync(a)
    \/ DeferMirror(a) \/ ClearActive(a)

Next ==
    \/ \E a \in Apps : Proceed(a) \/ Crash(a)
    \/ \E a \in Apps, k \in AllKinds : Start(a, k)
    \/ \E c \in Checkouts, r \in Relays : ChangeRelay(c, r)
    \/ \E r \in Runs : DeleteRun(r)

Spec == Init /\ [][Next]_vars

\* While a transaction is open its operator asks for its repair.
RepairAsked(a, k) == active # None /\ Start(a, k)

\* Every task runs on: commands and writes have timeouts and locks never wait.
FairSpec ==
    /\ Spec
    /\ \A a \in Apps :
        /\ WF_vars(Proceed(a))
        /\ \A k \in {"restore", "reconcile"} : WF_vars(RepairAsked(a, k))

-----------------------------------------------------------------------------
(***************************************************************************)
(* Properties                                                              *)
(***************************************************************************)
\* Demand-driven recovery can only repair what is written down: as long as a
\* transaction has changed the machine and not restored both the VPN and
\* Chrome, active.json points to it and its status asks for recovery, through
\* crashes, failed writes and other checkouts' attempts.
TouchedIsJournaled ==
    touched \in Tx =>
        /\ active = touched
        /\ docs[touched].status \in {"pending", "failed"}

\* A snapshot or verification runs under the route it asked for: with the
\* relay connected for the VPN side, disconnected for the local side, whatever
\* other processes, recoveries and operators do meanwhile.
StepsKeepTheirRoute ==
    \A a \in Apps :
        /\ pc[a] \in OnVpn => machine.vpn = goal[a]
        /\ pc[a] \in OnVpn => ~machine.excluded
        /\ pc[a] \in OnLocal => machine.vpn = Off

\* A manual step's operator declared the network by hand: nothing changes the
\* machine until the step has ended.
ManualRouteStands ==
    [][\A a \in Apps : At(a, "manual") => machine' = machine]_vars

\* A transaction's journal is changed only by a process of its own checkout,
\* and only under the machine lease, stale readers included.
OnlyItsOwnerWrites ==
    [][\A t \in Tx : docs[t] # None /\ docs'[t] # docs[t] =>
          machineLease # None /\ home[machineLease] = docs[t].origin]_vars

\* The journal, the leases and the recovery together implement the fence: no
\* foreign checkout touches the machine of an open transaction, and none is
\* closed before the machine is at its target.
MachineFence == INSTANCE PolicyFence WITH
    user  <- IF machineLease = None THEN None ELSE home[machineLease],
    owner <- IF active = None THEN None ELSE docs[active].origin,
    goal  <- IF active = None THEN None ELSE docs[active].target

ImplementsFence == MachineFence!Fence

\* The machine lease comes back after every task, failure and crash.
LeaseComesBack == machineLease # None ~> machineLease = None

\* A transaction left behind is restored and closed when its operator keeps
\* asking and commands fail only so often.
PendingIsClosed == active # None ~> active = None
=============================================================================
