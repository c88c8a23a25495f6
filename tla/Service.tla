------------------------------- MODULE Service -------------------------------
(***************************************************************************)
(* The task desk of modelscraper_service.py.  The desktop window and the   *)
(* worker threads of the Web server call one service object: they start    *)
(* one of the workflow steps as a background task, stop it, wait for it,   *)
(* choose a session and switch platforms.  One RLock makes each short      *)
(* section atomic; everything between two sections may interleave.  The    *)
(* workspace lease (runtime_lock.py) is shared with other processes.       *)
(* Nobody waits for it, so another holder shows only as a refusal, which   *)
(* may come at any attempt.                                                *)
(***************************************************************************)
EXTENDS Naturals, FiniteSets

CONSTANTS
  Clients,        \* threads that call the service
  Platforms,      \* the platforms it serves
  Hardened,       \* those driven by an adapter, the others by their runner
  Sessions,       \* session folders
  root,           \* root[s]: the platform whose session root holds folder s
  firstPlatform,  \* the platform shown at startup
  MaxTasks,       \* bound: starts that are accepted
  MaxCalls,       \* bound: stop, session and platform requests
  None            \* no task, no folder, no platform, nobody

ASSUME ServiceAssumption ==
  /\ Hardened \subseteq Platforms
  /\ root \in [Sessions -> Platforms]
  /\ firstPlatform \in Platforms
  /\ MaxTasks \in Nat
  /\ MaxCalls \in Nat
  /\ None \notin Sessions \cup Platforms \cup Clients \cup Nat
  /\ Clients \cap Nat = {}

Tasks == 1 .. MaxTasks
Kinds == {"typed", "untyped"}

VARIABLES
  busy,       \* _busy
  current,    \* _current_task: the accepted task
  desk,       \* _task_platform: the platform the accepted task counts for
  platform,   \* _platform: the platform shown
  view,       \* _session_path: the session shown
  registry,   \* registry[p]: the session the registry holds for p
  runner,     \* runner[p]: the session folder runner p works in
  bound,      \* bound[p]: the session adapter p is bound to
  stopFlag,   \* stopFlag[p]: 0 while p's adapter or runner is not asked to stop,
              \* otherwise the task the request was made for
  outcome,    \* outcome[p]: _outcomes_by_platform, the task it came from
  thread,     \* _thread: the handle wait_for_current_task joins
  lease,      \* the thread of this service that holds the workspace lease
  client,     \* client[c]: where a caller is, and its local variables
  worker,     \* worker[t]: where the background task is
  task,       \* task[t]: its kind, its platform, and the one its closure uses
  gave,       \* gave[t]: its function returned a RunOutcome
  nextTask,   \* the next task number
  calls       \* requests made so far (bounded by MaxCalls)

taskVars == <<busy, current, desk>>
sessionVars == <<view, registry, runner, bound>>
workVars == <<worker, task, gave, nextTask, outcome>>
vars == <<busy, current, desk, platform, view, registry, runner, bound,
          stopFlag, outcome, thread, lease, client, worker, task, gave,
          nextTask, calls>>

ClientSteps == {"idle", "asked", "reserved", "choosing", "adopting", "showing",
                "steering", "clearing", "storing", "launching", "failing",
                "started", "waiting", "waited", "aiming", "sending",
                "picking", "placing", "switching", "moving"}

WorkerSteps == {"new", "accepted", "ready", "running", "ran", "recorded",
                "finished", "announced", "dead", "dropped"}

AtRest == [pc |-> "idle", task |-> None, join |-> None, platform |-> None,
           session |-> None]

\* Where a caller is, and its local variables: the task it starts or stops,
\* the thread it joins, the platform and the folder it goes on with.
Callers == [pc : ClientSteps, task : Tasks \cup {None}, join : Tasks \cup {None},
            platform : Platforms \cup {None}, session : Sessions \cup {None}]

FoldersOf(p) == {s \in Sessions : root[s] = p}

TypeOK ==
  /\ busy \in BOOLEAN
  /\ current \in Tasks \cup {None}
  /\ desk \in Platforms \cup {None}
  /\ platform \in Platforms
  /\ view \in Sessions \cup {None}
  /\ registry \in [Platforms -> Sessions \cup {None}]
  /\ runner \in [Platforms -> Sessions \cup {None}]
  /\ bound \in [Platforms -> Sessions \cup {None}]
  /\ stopFlag \in [Platforms -> 0 .. MaxTasks]
  /\ outcome \in [Platforms -> Tasks \cup {None}]
  /\ thread \in Tasks \cup {None}
  /\ lease \in Clients \cup Tasks \cup {None}
  /\ client \in [Clients -> Callers]
  /\ worker \in [Tasks -> WorkerSteps]
  /\ task \in [Tasks -> [kind : Kinds, home : Platforms, target : Platforms]]
  /\ gave \in [Tasks -> BOOLEAN]
  /\ nextTask \in 1 .. MaxTasks + 1
  /\ calls \in 0 .. MaxCalls

Init ==
  /\ busy = FALSE
  /\ current = None
  /\ desk = None
  /\ platform = firstPlatform
  /\ view = None
  /\ registry = [p \in Platforms |-> None]
  /\ runner = [p \in Platforms |-> None]
  /\ bound = [p \in Platforms |-> None]
  /\ stopFlag = [p \in Platforms |-> 0]
  /\ outcome = [p \in Platforms |-> None]
  /\ thread = None
  /\ lease = None
  /\ client = [c \in Clients |-> AtRest]
  /\ worker = [t \in Tasks |-> "new"]
  /\ task = [t \in Tasks |-> [kind |-> "typed", home |-> firstPlatform,
                              target |-> firstPlatform]]
  /\ gave = [t \in Tasks |-> FALSE]
  /\ nextTask = 1
  /\ calls = 0

At(c, step) == client[c].pc = step

Become(c, caller) == client' = [client EXCEPT ![c] = caller]

Goto(c, step) == Become(c, [client[c] EXCEPT !.pc = step])

\* The caller returns; its local variables are gone.
Return(c) == Become(c, AtRest)

\* create_session / use_latest_session of the adapter, or of the runner where
\* there is none: the chosen folder becomes the one it works in.
Select(p, s) ==
  IF p \in Hardened
  THEN bound' = [bound EXCEPT ![p] = s] /\ UNCHANGED runner
  ELSE runner' = [runner EXCEPT ![p] = s] /\ UNCHANGED bound

----------------------------------------------------------------------------
(* Starting a task *)

\* start_*: the platform, and with it the adapter or runner the task will
\* use, is read before _start_task takes the lock.
AskStart(c) ==
  /\ At(c, "idle")
  /\ nextTask <= MaxTasks
  /\ Become(c, [client[c] EXCEPT !.pc = "asked", !.platform = platform])
  /\ UNCHANGED <<taskVars, platform, sessionVars, stopFlag, thread, lease, workVars,
                 calls>>

\* Mutant: busy was looked at before the lock was taken.
ReserveUnchecked(c, kind) ==
  /\ At(c, "asked")
  /\ nextTask <= MaxTasks
  /\ busy' = TRUE
  /\ current' = nextTask
  /\ desk' = platform
  /\ task' = [task EXCEPT ![nextTask] = [kind |-> kind, home |-> platform,
                                         target |-> client[c].platform]]
  /\ worker' = [worker EXCEPT ![nextTask] = "accepted"]
  /\ nextTask' = nextTask + 1
  /\ Become(c, [client[c] EXCEPT !.pc = "reserved", !.task = nextTask,
                                 !.platform = platform])
  /\ UNCHANGED <<platform, sessionVars, stopFlag, thread, lease, gave, outcome,
                 calls>>

\* _start_task, first locked section.
Reserve(c, kind) ==
  /\ At(c, "asked")
  /\ ~busy
  /\ nextTask <= MaxTasks
  /\ busy' = TRUE
  /\ current' = nextTask
  /\ desk' = platform
  /\ task' = [task EXCEPT ![nextTask] = [kind |-> kind, home |-> platform,
                                         target |-> client[c].platform]]
  /\ worker' = [worker EXCEPT ![nextTask] = "accepted"]
  /\ nextTask' = nextTask + 1
  /\ Become(c, [client[c] EXCEPT !.pc = "reserved", !.task = nextTask,
                                 !.platform = platform])
  /\ UNCHANGED <<platform, sessionVars, stopFlag, thread, lease, gave, outcome,
                 calls>>

\* "Another task is running."
TurnAway(c) ==
  /\ At(c, "asked")
  /\ busy
  /\ Return(c)
  /\ UNCHANGED <<taskVars, platform, sessionVars, stopFlag, thread, lease, workVars,
                 calls>>

\* The runner has a session already: it is validated again.
KeepSession(c) ==
  /\ At(c, "reserved")
  /\ runner[client[c].platform] # None
  /\ Become(c, [client[c] EXCEPT !.pc = "adopting",
                                 !.session = runner[client[c].platform]])
  /\ UNCHANGED <<taskVars, platform, sessionVars, stopFlag, thread, lease, workVars,
                 calls>>

\* Without a session, one is reserved under the lease, if nobody holds it.
OpenLease(c) ==
  /\ At(c, "reserved")
  /\ runner[client[c].platform] = None
  /\ \/ lease = None /\ lease' = c /\ Goto(c, "choosing")
     \/ UNCHANGED lease /\ Goto(c, "failing")
  /\ UNCHANGED <<taskVars, platform, sessionVars, stopFlag, thread, workVars, calls>>

\* Mutant: the lease survives a failed choice.
ChooseSessionKeepingLease(c) ==
  /\ At(c, "choosing")
  /\ \/ \E s \in FoldersOf(client[c].platform) :
          /\ Select(client[c].platform, s)
          /\ lease' = None
          /\ Become(c, [client[c] EXCEPT !.pc = "adopting", !.session = s])
     \/ Goto(c, "failing") /\ UNCHANGED <<lease, runner, bound>>
  /\ UNCHANGED <<taskVars, platform, view, registry, stopFlag, thread, workVars,
                 calls>>

\* The session is created or found under the lease, which is then released.
ChooseSession(c) ==
  /\ At(c, "choosing")
  /\ lease' = None
  /\ \/ \E s \in FoldersOf(client[c].platform) :
          /\ Select(client[c].platform, s)
          /\ Become(c, [client[c] EXCEPT !.pc = "adopting", !.session = s])
     \/ Goto(c, "failing") /\ UNCHANGED <<runner, bound>>
  /\ UNCHANGED <<taskVars, platform, view, registry, stopFlag, thread, workVars,
                 calls>>

\* _set_session gives up: a task start fails, a session request just returns.
Refused(c) == IF client[c].task # None THEN Goto(c, "failing") ELSE Return(c)

\* _set_session: the registry takes only folders below the platform's own
\* root; then the adapter is bound, which may be refused.
Register(c) ==
  /\ At(c, "adopting")
  /\ LET p == client[c].platform
         s == client[c].session
     IN \/ /\ root[s] # p
           /\ Refused(c)
           /\ UNCHANGED <<registry, bound>>
        \/ /\ root[s] = p
           /\ registry' = [registry EXCEPT ![p] = s]
           /\ \/ /\ bound' = IF p \in Hardened THEN [bound EXCEPT ![p] = s] ELSE bound
                 /\ Goto(c, "showing")
              \/ p \in Hardened /\ UNCHANGED bound /\ Refused(c)
  /\ UNCHANGED <<taskVars, platform, view, runner, stopFlag, thread, lease, workVars,
                 calls>>

\* Mutant: the session is shown whatever platform is.
ShowAnySession(c) ==
  /\ At(c, "showing")
  /\ view' = client[c].session
  /\ Goto(c, "steering")
  /\ UNCHANGED <<taskVars, platform, registry, runner, bound, stopFlag, thread, lease,
                 workVars, calls>>

\* _set_session, locked section: shown only if its platform is the one shown.
ShowSession(c) ==
  /\ At(c, "showing")
  /\ view' = IF client[c].platform = platform THEN client[c].session ELSE view
  /\ Goto(c, "steering")
  /\ UNCHANGED <<taskVars, platform, registry, runner, bound, stopFlag, thread, lease,
                 workVars, calls>>

SteerRunner(c) ==
  /\ At(c, "steering")
  /\ runner' = [runner EXCEPT ![client[c].platform] = client[c].session]
  /\ IF client[c].task # None THEN Goto(c, "clearing") ELSE Return(c)
  /\ UNCHANGED <<taskVars, platform, view, registry, bound, stopFlag, thread, lease,
                 workVars, calls>>

ClearStop(c) ==
  /\ At(c, "clearing")
  /\ stopFlag' = [stopFlag EXCEPT ![client[c].platform] = 0]
  /\ Goto(c, "storing")
  /\ UNCHANGED <<taskVars, platform, sessionVars, thread, lease, workVars, calls>>

StoreThread(c) ==
  /\ At(c, "storing")
  /\ thread' = client[c].task
  /\ Goto(c, "launching")
  /\ UNCHANGED <<taskVars, platform, sessionVars, stopFlag, lease, workVars, calls>>

\* thread.start(), after the state event; the caller gets True.
Launch(c) ==
  /\ At(c, "launching")
  /\ worker' = [worker EXCEPT ![client[c].task] = "ready"]
  /\ Become(c, [AtRest EXCEPT !.pc = "started", !.task = client[c].task])
  /\ UNCHANGED <<taskVars, platform, sessionVars, stopFlag, thread, lease, task, gave,
                 nextTask, outcome, calls>>

\* _start_task, exception handler; the caller gets False.
FailStart(c) ==
  /\ At(c, "failing")
  /\ busy' = FALSE
  /\ current' = None
  /\ desk' = None
  /\ thread' = None
  /\ worker' = [worker EXCEPT ![client[c].task] = "dropped"]
  /\ Return(c)
  /\ UNCHANGED <<platform, sessionVars, stopFlag, lease, task, gave, nextTask, outcome,
                 calls>>

----------------------------------------------------------------------------
(* Waiting for a task *)

\* wait_for_current_task reads the handle; None means there is nothing to wait
\* for, and a handle whose thread was never started cannot be joined.
AskWait(c) ==
  /\ At(c, "started")
  /\ \/ thread = None /\ Goto(c, "waited")
     \/ /\ thread # None
        /\ worker[thread] # "accepted"
        /\ Become(c, [client[c] EXCEPT !.pc = "waiting", !.join = thread])
     \/ thread # None /\ worker[thread] = "accepted" /\ Return(c)
  /\ UNCHANGED <<taskVars, platform, sessionVars, stopFlag, thread, lease, workVars,
                 calls>>

\* join returns: the joined thread has ended.
Joined(c) ==
  /\ At(c, "waiting")
  /\ worker[client[c].join] = "dead"
  /\ Goto(c, "waited")
  /\ UNCHANGED <<taskVars, platform, sessionVars, stopFlag, thread, lease, workVars,
                 calls>>

Leave(c) ==
  /\ At(c, "started") \/ At(c, "waited")
  /\ Return(c)
  /\ UNCHANGED <<taskVars, platform, sessionVars, stopFlag, thread, lease, workVars,
                 calls>>

----------------------------------------------------------------------------
(* Stopping a task *)

\* stop_current_task looks at busy first.
AskStop(c) ==
  /\ At(c, "idle")
  /\ calls < MaxCalls
  /\ busy
  /\ calls' = calls + 1
  /\ Become(c, [client[c] EXCEPT !.pc = "aiming", !.task = current])
  /\ UNCHANGED <<taskVars, platform, sessionVars, stopFlag, thread, lease, workVars>>

Aim(c) ==
  /\ At(c, "aiming")
  /\ Become(c, [client[c] EXCEPT !.pc = "sending",
                                 !.platform = IF desk # None THEN desk ELSE platform])
  /\ UNCHANGED <<taskVars, platform, sessionVars, stopFlag, thread, lease, workVars,
                 calls>>

SendStop(c) ==
  /\ At(c, "sending")
  /\ stopFlag' = [stopFlag EXCEPT ![client[c].platform] = client[c].task]
  /\ Return(c)
  /\ UNCHANGED <<taskVars, platform, sessionVars, thread, lease, workVars, calls>>

----------------------------------------------------------------------------
(* Choosing a session, switching the platform *)

\* create_session / use_latest_session: under the lease, whatever is running.
AskSession(c) ==
  /\ At(c, "idle")
  /\ calls < MaxCalls
  /\ lease = None
  /\ lease' = c
  /\ calls' = calls + 1
  /\ Goto(c, "picking")
  /\ UNCHANGED <<taskVars, platform, sessionVars, stopFlag, thread, workVars>>

\* The folder is chosen for the platform shown now, and the lease released.
PickSession(c) ==
  /\ At(c, "picking")
  /\ lease' = None
  /\ \/ \E s \in FoldersOf(platform) :
          /\ Select(platform, s)
          /\ Become(c, [client[c] EXCEPT !.pc = "placing", !.session = s])
     \/ Return(c) /\ UNCHANGED <<runner, bound>>
  /\ UNCHANGED <<taskVars, platform, view, registry, stopFlag, thread, workVars, calls>>

\* _set_session without a platform takes the one shown by now.
PlaceSession(c) ==
  /\ At(c, "placing")
  /\ Become(c, [client[c] EXCEPT !.pc = "adopting", !.platform = platform])
  /\ UNCHANGED <<taskVars, platform, sessionVars, stopFlag, thread, lease, workVars,
                 calls>>

\* set_platform, locked section: refused while a task is on the desk.
AskPlatform(c, p) ==
  /\ At(c, "idle")
  /\ calls < MaxCalls
  /\ ~busy
  /\ p # platform
  /\ platform' = p
  /\ view' = registry[p]
  /\ calls' = calls + 1
  /\ Goto(c, "switching")
  /\ UNCHANGED <<taskVars, registry, runner, bound, stopFlag, thread, lease, workVars>>

\* The session to restore is read after the lock is released.
ReadView(c) ==
  /\ At(c, "switching")
  /\ IF view = None
     THEN Return(c)
     ELSE Become(c, [client[c] EXCEPT !.pc = "moving", !.session = view])
  /\ UNCHANGED <<taskVars, platform, sessionVars, stopFlag, thread, lease, workVars,
                 calls>>

\* The runner of the platform shown by now takes the folder as it is; an
\* adapter takes only a folder below its own root.
MoveRunner(c) ==
  /\ At(c, "moving")
  /\ runner' = [runner EXCEPT ![platform] = client[c].session]
  /\ bound' = IF platform \in Hardened /\ root[client[c].session] = platform
              THEN [bound EXCEPT ![platform] = client[c].session]
              ELSE bound
  /\ Return(c)
  /\ UNCHANGED <<taskVars, platform, view, registry, stopFlag, thread, lease, workVars,
                 calls>>

----------------------------------------------------------------------------
(* The background thread *)

\* A task without managed leases opens the workspace lease around its
\* function; one with managed leases opens it inside.
TakeLease(t) ==
  /\ worker[t] = "ready"
  /\ lease = None
  /\ lease' = t
  /\ worker' = [worker EXCEPT ![t] = "running"]
  /\ UNCHANGED <<taskVars, platform, sessionVars, stopFlag, thread, client, task, gave,
                 nextTask, outcome, calls>>

\* WorkflowBusyError, and whatever else fails before the function runs.
FindLeaseHeld(t) ==
  /\ worker[t] = "ready"
  /\ worker' = [worker EXCEPT ![t] = "ran"]
  /\ UNCHANGED <<taskVars, platform, sessionVars, stopFlag, thread, lease, client, task,
                 gave, nextTask, outcome, calls>>

\* The function is over, and with it the lease.  How it ends is its own
\* business, the stop flag being one thing it looks at; seen from here it
\* returned a RunOutcome, or it raised or returned something else.
EndRun(t) ==
  /\ worker[t] = "running"
  /\ lease' = None
  /\ worker' = [worker EXCEPT ![t] = "ran"]
  /\ \E g \in BOOLEAN : gave' = [gave EXCEPT ![t] = g]
  /\ UNCHANGED <<taskVars, platform, sessionVars, stopFlag, thread, client, task,
                 nextTask, outcome, calls>>

\* Mutant: a task that gave no outcome leaves none.
LeavesWhatItGave(t) == gave[t]

\* A RunOutcome is published; where a typed task gave none, a synthesized
\* failure is.
LeavesOutcome(t) == gave[t] \/ task[t].kind = "typed"

Record(t) ==
  /\ worker[t] = "ran"
  /\ outcome' = IF LeavesOutcome(t)
                THEN [outcome EXCEPT ![task[t].home] = t]
                ELSE outcome
  /\ gave' = [gave EXCEPT ![t] = FALSE]
  /\ worker' = [worker EXCEPT ![t] = "recorded"]
  /\ UNCHANGED <<taskVars, platform, sessionVars, stopFlag, thread, lease, client, task,
                 nextTask, calls>>

\* Mutant: the desk is given back only by tasks that published an outcome.
FinishWithOutcome(t) ==
  /\ worker[t] = "recorded"
  /\ outcome[task[t].home] = t
  /\ busy' = FALSE
  /\ current' = None
  /\ desk' = None
  /\ worker' = [worker EXCEPT ![t] = "finished"]
  /\ UNCHANGED <<platform, sessionVars, stopFlag, thread, lease, client, task, gave,
                 nextTask, outcome, calls>>

\* _finish_task, first locked section: the desk is free again.
Finish(t) ==
  /\ worker[t] = "recorded"
  /\ busy' = FALSE
  /\ current' = None
  /\ desk' = None
  /\ worker' = [worker EXCEPT ![t] = "finished"]
  /\ UNCHANGED <<platform, sessionVars, stopFlag, thread, lease, client, task, gave,
                 nextTask, outcome, calls>>

\* taskFinished reaches the subscribers after the reloads.
Announce(t) ==
  /\ worker[t] = "finished"
  /\ worker' = [worker EXCEPT ![t] = "announced"]
  /\ UNCHANGED <<taskVars, platform, sessionVars, stopFlag, thread, lease, client, task,
                 gave, nextTask, outcome, calls>>

\* _finish_task, last locked section: whatever handle is there is cleared.
DropThread(t) ==
  /\ worker[t] = "announced"
  /\ thread' = None
  /\ worker' = [worker EXCEPT ![t] = "dead"]
  /\ UNCHANGED <<taskVars, platform, sessionVars, stopFlag, lease, client, task, gave,
                 nextTask, outcome, calls>>

----------------------------------------------------------------------------
\* What a caller that has entered the service goes on to do.
Proceed(c) ==
  \/ \E kind \in Kinds : Reserve(c, kind)
  \/ TurnAway(c) \/ KeepSession(c) \/ OpenLease(c) \/ ChooseSession(c)
  \/ Register(c) \/ ShowSession(c) \/ SteerRunner(c) \/ ClearStop(c)
  \/ StoreThread(c) \/ Launch(c) \/ FailStart(c)
  \/ Joined(c) \/ Leave(c)
  \/ Aim(c) \/ SendStop(c)
  \/ PickSession(c) \/ PlaceSession(c) \/ ReadView(c) \/ MoveRunner(c)

Call(c) ==
  \/ AskStart(c) \/ AskWait(c) \/ AskStop(c) \/ AskSession(c)
  \/ \E p \in Platforms : AskPlatform(c, p)

Work(t) ==
  \/ TakeLease(t) \/ FindLeaseHeld(t) \/ EndRun(t)
  \/ Record(t) \/ Finish(t) \/ Announce(t) \/ DropThread(t)

Next ==
  \/ \E c \in Clients : Call(c) \/ Proceed(c)
  \/ \E t \in Tasks : Work(t)

Spec == Init /\ [][Next]_vars

\* Threads of the service run on: a caller inside it returns, and the work of
\* a background task comes to an end.
FairSpec ==
  /\ Spec
  /\ \A c \in Clients : WF_vars(Proceed(c))
  /\ \A t \in Tasks : WF_vars(Work(t))

----------------------------------------------------------------------------
(* Properties *)

Announced(t) == worker[t] \in {"announced", "dead"}
OnDesk(t) == worker[t] \in {"accepted", "ready", "running", "ran", "recorded"}

\* A folder never crosses to another platform, however session requests,
\* task starts and platform switches interleave: the session on display
\* belongs to the platform on display, and registry and adapters hold folders
\* of their own root only (SessionRegistry.set, validate_session_containment).
SessionsStayHome ==
  /\ view # None => root[view] = platform
  /\ \A p \in Platforms : registry[p] # None => root[registry[p]] = p
  /\ \A p \in Platforms : bound[p] # None => root[bound[p]] = p

\* Once a typed task is over, its platform shows the outcome of that task or
\* of a later one, never an earlier run's: also when the worker raised or
\* returned nothing, or the lease was held (comment in _run_task_thread).
NoStaleOutcome ==
  \A t \in Tasks :
    /\ task[t].kind = "typed"
    /\ worker[t] \in {"recorded", "finished", "announced", "dead"}
    => outcome[task[t].home] \in t .. MaxTasks

\* The desk is busy exactly while one task is on it, so two background tasks
\* never work at the same time, in whatever order threads call the service
\* and tasks finish or fail to start, and it counts for the platform shown
\* (_start_task, _finish_task, set_platform).
OneTaskOnDesk ==
  /\ busy <=> \E t \in Tasks : OnDesk(t)
  /\ \A t, u \in Tasks : OnDesk(t) /\ OnDesk(u) => t = u
  /\ \A t \in Tasks : OnDesk(t) => task[t].home = platform

\* A task works under the workspace lease, and a lease the service took is
\* never left behind.
LeaseHasItsHolder ==
  /\ \A t \in Tasks : lease = t <=> worker[t] = "running"
  /\ \A c \in Clients : lease = c <=> client[c].pc \in {"choosing", "picking"}

\* A stop request that is about to be delivered while the task it was made for
\* is still on the desk goes to the platform that task counts for, although the
\* desk was read in steps and may have changed hands (stop_current_task).
StopReachesItsTask ==
  \A c \in Clients :
    At(c, "sending") /\ client[c].task # None /\ OnDesk(client[c].task)
    => client[c].platform = task[client[c].task].home

\* The service as a task desk.
deskPhase ==
  [t \in Tasks |->
    CASE worker[t] = "new" -> "new"
      [] worker[t] = "accepted" -> "accepted"
      [] worker[t] \in {"ready", "running", "ran", "recorded"} -> "running"
      [] worker[t] = "finished" -> "ended"
      [] worker[t] \in {"announced", "dead"} -> "told"
      [] worker[t] = "dropped" -> "dropped"]

Desk == INSTANCE TaskDesk WITH phase <- deskPhase

\* Every step of the service is a step of the task desk: one task at a time,
\* announced once, after it has left the desk.
ImplementsDesk == Desk!Spec

\* An accepted task comes to an end: it is announced, or its start failed;
\* so the desk is given back and no subscriber waits for taskFinished forever
\* (_start_task, _run_task_thread, _finish_task).
TaskIsSettled ==
  \A t \in Tasks : OnDesk(t) ~> Announced(t) \/ worker[t] = "dropped"
=============================================================================
