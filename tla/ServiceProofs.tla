---------------------------- MODULE ServiceProofs ----------------------------
(***************************************************************************)
(* Theorems about Service, for any callers, platforms, folders and tasks.  *)
(* A caller's step replaces its record by Become, Goto or Return; the      *)
(* lemmas about these say where the caller gets and what it takes along,   *)
(* and nothing later opens them.                                           *)
(***************************************************************************)
EXTENDS Service, TLAPS

-----------------------------------------------------------------------------
(* Callers and their steps *)

CallersTyped == client \in [Clients -> Callers]

\* Only caller c moves.
Alone(c) == /\ client' \in [Clients -> Callers]
            /\ \A d \in Clients : d # c => client'[d] = client[d]

LEMMA RestIsTyped ==
  AtRest \in Callers /\ AtRest.pc = "idle" /\ AtRest.task = None /\ AtRest.join = None
  BY DEF AtRest, Callers, ClientSteps

\* The fields of a caller's record.
LEMMA CallerFields ==
  ASSUME NEW r \in Callers
  PROVE  /\ r.pc \in ClientSteps
         /\ r.task \in Tasks \cup {None}
         /\ r.join \in Tasks \cup {None}
         /\ r.platform \in Platforms \cup {None}
         /\ r.session \in Sessions \cup {None}
  BY DEF Callers

\* A caller that moves on stays a caller, and leaves the others where they are.
LEMMA BecomeLeads ==
  ASSUME CallersTyped, NEW c \in Clients, NEW r \in Callers, Become(c, r)
  PROVE  Alone(c) /\ client'[c] = r
  BY DEF Become, CallersTyped, Alone

\* Where a step leads, and what the caller takes along.
LEMMA GotoLeads ==
  ASSUME CallersTyped, NEW c \in Clients, NEW step \in ClientSteps, Goto(c, step)
  PROVE  /\ Alone(c)
         /\ client'[c].pc = step
         /\ client'[c].task = client[c].task
         /\ client'[c].join = client[c].join
         /\ client'[c].platform = client[c].platform
         /\ client'[c].session = client[c].session
<1> DEFINE r == [client[c] EXCEPT !.pc = step]
<1>1. client[c] \in Callers
  BY DEF CallersTyped
<1>2. /\ r \in Callers
      /\ r.pc = step /\ r.task = client[c].task /\ r.join = client[c].join
      /\ r.platform = client[c].platform /\ r.session = client[c].session
  BY <1>1 DEF Callers
<1>3. Become(c, r)
  BY DEF Goto
<1> HIDE DEF r
<1> QED
  BY <1>2, <1>3, BecomeLeads

LEMMA ReturnLeads ==
  ASSUME CallersTyped, NEW c \in Clients, Return(c)
  PROVE  Alone(c) /\ client'[c] = AtRest
  BY RestIsTyped, BecomeLeads DEF Return

TakeSession(c, step, s) ==
  Become(c, [client[c] EXCEPT !.pc = step, !.session = s])

\* The same for a caller that goes on with a folder.
LEMMA TakeSessionLeads ==
  ASSUME CallersTyped, NEW c \in Clients, NEW step \in ClientSteps,
         NEW s \in Sessions \cup {None},
         TakeSession(c, step, s)
  PROVE  /\ Alone(c)
         /\ client'[c].pc = step
         /\ client'[c].task = client[c].task
         /\ client'[c].join = client[c].join
         /\ client'[c].platform = client[c].platform
         /\ client'[c].session = s
<1> DEFINE r == [client[c] EXCEPT !.pc = step, !.session = s]
<1>1. client[c] \in Callers
  BY DEF CallersTyped
<1>2. /\ r \in Callers
      /\ r.pc = step /\ r.task = client[c].task /\ r.join = client[c].join
      /\ r.platform = client[c].platform /\ r.session = s
  BY <1>1 DEF Callers
<1> HIDE DEF r
<1> QED
  BY <1>2, BecomeLeads DEF r, TakeSession

TakeJoin(c, step, t) ==
  Become(c, [client[c] EXCEPT !.pc = step, !.join = t])

\* The same for a caller that goes on with a thread to join.
LEMMA TakeJoinLeads ==
  ASSUME CallersTyped, NEW c \in Clients, NEW step \in ClientSteps,
         NEW t \in Tasks \cup {None},
         TakeJoin(c, step, t)
  PROVE  /\ Alone(c)
         /\ client'[c].pc = step
         /\ client'[c].task = client[c].task
         /\ client'[c].join = t
         /\ client'[c].platform = client[c].platform
         /\ client'[c].session = client[c].session
<1> DEFINE r == [client[c] EXCEPT !.pc = step, !.join = t]
<1>1. client[c] \in Callers
  BY DEF CallersTyped
<1>2. /\ r \in Callers
      /\ r.pc = step /\ r.task = client[c].task /\ r.join = t
      /\ r.platform = client[c].platform /\ r.session = client[c].session
  BY <1>1 DEF Callers
<1> HIDE DEF r
<1> QED
  BY <1>2, BecomeLeads DEF r, TakeJoin

\* The same for the calls that change other locals.
LEMMA AskStartLeads ==
  ASSUME TypeOK, NEW c \in Clients, AskStart(c)
  PROVE  /\ Alone(c)
         /\ client'[c].pc = "asked"
         /\ client'[c].task = client[c].task
         /\ client'[c].join = client[c].join
         /\ client'[c].platform = platform
         /\ client'[c].session = client[c].session
<1> DEFINE r == [client[c] EXCEPT !.pc = "asked", !.platform = platform]
<1>1. client[c] \in Callers /\ CallersTyped
  BY DEF TypeOK, CallersTyped
<1>2. /\ r \in Callers
      /\ r.pc = "asked"
      /\ r.task = client[c].task
      /\ r.join = client[c].join
      /\ r.platform = platform
      /\ r.session = client[c].session
  BY <1>1, ServiceAssumption DEF AskStart, TypeOK, Callers, ClientSteps, AtRest, Tasks
<1>3. Become(c, r)
  BY DEF AskStart
<1> HIDE DEF r
<1> QED
  BY <1>1, <1>2, <1>3, BecomeLeads

LEMMA AimLeads ==
  ASSUME TypeOK, NEW c \in Clients, Aim(c)
  PROVE  /\ Alone(c)
         /\ client'[c].pc = "sending"
         /\ client'[c].task = client[c].task
         /\ client'[c].join = client[c].join
         /\ client'[c].platform = (IF desk # None THEN desk ELSE platform)
         /\ client'[c].session = client[c].session
<1> DEFINE r == [client[c] EXCEPT !.pc = "sending", !.platform = IF desk # None THEN desk ELSE platform]
<1>1. client[c] \in Callers /\ CallersTyped
  BY DEF TypeOK, CallersTyped
<1>2. /\ r \in Callers
      /\ r.pc = "sending"
      /\ r.task = client[c].task
      /\ r.join = client[c].join
      /\ r.platform = (IF desk # None THEN desk ELSE platform)
      /\ r.session = client[c].session
  BY <1>1, ServiceAssumption DEF Aim, TypeOK, Callers, ClientSteps, AtRest, Tasks
<1>3. Become(c, r)
  BY DEF Aim
<1> HIDE DEF r
<1> QED
  BY <1>1, <1>2, <1>3, BecomeLeads

LEMMA AskStopLeads ==
  ASSUME TypeOK, NEW c \in Clients, AskStop(c)
  PROVE  /\ Alone(c)
         /\ client'[c].pc = "aiming"
         /\ client'[c].task = current
         /\ client'[c].join = client[c].join
         /\ client'[c].platform = client[c].platform
         /\ client'[c].session = client[c].session
<1> DEFINE r == [client[c] EXCEPT !.pc = "aiming", !.task = current]
<1>1. client[c] \in Callers /\ CallersTyped
  BY DEF TypeOK, CallersTyped
<1>2. /\ r \in Callers
      /\ r.pc = "aiming"
      /\ r.task = current
      /\ r.join = client[c].join
      /\ r.platform = client[c].platform
      /\ r.session = client[c].session
  BY <1>1, ServiceAssumption DEF AskStop, TypeOK, Callers, ClientSteps, AtRest, Tasks
<1>3. Become(c, r)
  BY DEF AskStop
<1> HIDE DEF r
<1> QED
  BY <1>1, <1>2, <1>3, BecomeLeads

LEMMA PlaceSessionLeads ==
  ASSUME TypeOK, NEW c \in Clients, PlaceSession(c)
  PROVE  /\ Alone(c)
         /\ client'[c].pc = "adopting"
         /\ client'[c].task = client[c].task
         /\ client'[c].join = client[c].join
         /\ client'[c].platform = platform
         /\ client'[c].session = client[c].session
<1> DEFINE r == [client[c] EXCEPT !.pc = "adopting", !.platform = platform]
<1>1. client[c] \in Callers /\ CallersTyped
  BY DEF TypeOK, CallersTyped
<1>2. /\ r \in Callers
      /\ r.pc = "adopting"
      /\ r.task = client[c].task
      /\ r.join = client[c].join
      /\ r.platform = platform
      /\ r.session = client[c].session
  BY <1>1, ServiceAssumption DEF PlaceSession, TypeOK, Callers, ClientSteps, AtRest, Tasks
<1>3. Become(c, r)
  BY DEF PlaceSession
<1> HIDE DEF r
<1> QED
  BY <1>1, <1>2, <1>3, BecomeLeads

LEMMA ReserveLeads ==
  ASSUME TypeOK, NEW c \in Clients, NEW kind \in Kinds, Reserve(c, kind)
  PROVE  /\ Alone(c)
         /\ client'[c].pc = "reserved"
         /\ client'[c].task = nextTask
         /\ client'[c].join = client[c].join
         /\ client'[c].platform = platform
         /\ client'[c].session = client[c].session
<1> DEFINE r == [client[c] EXCEPT !.pc = "reserved", !.task = nextTask, !.platform = platform]
<1>1. client[c] \in Callers /\ CallersTyped
  BY DEF TypeOK, CallersTyped
<1>a. nextTask \in Tasks
  BY ServiceAssumption DEF Reserve, TypeOK, Tasks
<1>2. /\ r \in Callers
      /\ r.pc = "reserved"
      /\ r.task = nextTask
      /\ r.join = client[c].join
      /\ r.platform = platform
      /\ r.session = client[c].session
  BY <1>1, <1>a DEF TypeOK, Callers, ClientSteps
<1>3. Become(c, r)
  BY DEF Reserve
<1> HIDE DEF r
<1> QED
  BY <1>1, <1>2, <1>3, BecomeLeads

LEMMA LaunchLeads ==
  ASSUME TypeOK, NEW c \in Clients, Launch(c)
  PROVE  /\ Alone(c)
         /\ client'[c].pc = "started"
         /\ client'[c].task = client[c].task
         /\ client'[c].join = None
         /\ client'[c].platform = None
         /\ client'[c].session = None
<1> DEFINE r == [AtRest EXCEPT !.pc = "started", !.task = client[c].task]
<1>1. client[c] \in Callers /\ CallersTyped
  BY DEF TypeOK, CallersTyped
<1>2. /\ r \in Callers
      /\ r.pc = "started"
      /\ r.task = client[c].task
      /\ r.join = None
      /\ r.platform = None
      /\ r.session = None
  BY <1>1, ServiceAssumption DEF Launch, TypeOK, Callers, ClientSteps, AtRest, Tasks
<1>3. Become(c, r)
  BY DEF Launch
<1> HIDE DEF r
<1> QED
  BY <1>1, <1>2, <1>3, BecomeLeads

-----------------------------------------------------------------------------
(* Types, with what a caller's local variables hold where they are used. *)

HasPlatform == {"asked", "reserved", "choosing", "adopting", "showing", "steering",
                "clearing", "storing", "launching", "failing", "sending"}
HasTask == {"reserved", "choosing", "clearing", "storing", "launching", "failing",
            "started", "waiting", "waited", "aiming", "sending"}
HasNoTask == {"idle", "asked", "picking", "placing", "switching", "moving"}
HasSession == {"adopting", "showing", "steering", "placing", "moving"}

Local(r) ==
  /\ r.pc \in HasPlatform => r.platform # None
  /\ r.pc \in HasTask => r.task # None
  /\ r.pc \in HasNoTask => r.task = None
  /\ r.pc \in HasSession => r.session # None
  /\ r.pc = "waiting" => r.join # None

Locals ==
  /\ busy => current # None
  /\ \A c \in Clients : Local(client[c])

TypeInv == TypeOK /\ Locals

LEMMA KeepSessionLeads ==
  ASSUME TypeInv, NEW c \in Clients, KeepSession(c)
  PROVE  /\ Alone(c)
         /\ client'[c].pc = "adopting"
         /\ client'[c].task = client[c].task
         /\ client'[c].join = client[c].join
         /\ client'[c].platform = client[c].platform
         /\ client'[c].session = runner[client[c].platform]
<1> DEFINE r == [client[c] EXCEPT !.pc = "adopting", !.session = runner[client[c].platform]]
<1>1. client[c] \in Callers /\ CallersTyped
  BY DEF TypeInv, TypeOK, CallersTyped
<1>2. /\ r \in Callers
      /\ r.pc = "adopting"
      /\ r.task = client[c].task
      /\ r.join = client[c].join
      /\ r.platform = client[c].platform
      /\ r.session = runner[client[c].platform]
  BY <1>1, ServiceAssumption
  DEF KeepSession, At, TypeInv, TypeOK, Locals, Local, HasPlatform, Callers, ClientSteps
<1>3. Become(c, r)
  BY DEF KeepSession
<1> HIDE DEF r
<1> QED
  BY <1>1, <1>2, <1>3, BecomeLeads

LEMMA InitTypeInv == Init => TypeInv
<1> SUFFICES ASSUME Init PROVE TypeInv
  OBVIOUS
<1>1. client \in [Clients -> Callers]
  BY RestIsTyped DEF Init
<1>2. Locals
  BY RestIsTyped DEF Init, Locals, Local, HasPlatform, HasTask, HasSession
<1>3. 1 \in 1 .. MaxTasks + 1 /\ 0 \in 0 .. MaxCalls /\ 0 \in 0 .. MaxTasks
  BY ServiceAssumption
<1>4. [kind |-> "typed", home |-> firstPlatform, target |-> firstPlatform]
        \in [kind : Kinds, home : Platforms, target : Platforms]
  BY ServiceAssumption DEF Kinds
<1> QED
  BY <1>1, <1>2, <1>3, <1>4, ServiceAssumption
  DEF Init, TypeInv, TypeOK, WorkerSteps

\* What is left to show of a caller's step: its own record, and busy.
LEMMA AloneKeepsLocals ==
  ASSUME Locals, NEW c \in Clients, Alone(c), Local(client'[c]), busy' => current' # None
  PROVE  Locals'
  BY DEF Locals, Local, Alone

\* The types and the callers' locals are inductive.
LEMMA StepTypeInv == ASSUME TypeInv, [Next]_vars PROVE TypeInv'
<1> USE RestIsTyped DEF TypeInv, TypeOK
<1>1. ASSUME NEW c \in Clients, AskStart(c) PROVE TypeInv'
  <2>0. /\ client[c] \in Callers
        /\ client[c].task \in Tasks \cup {None} /\ client[c].join \in Tasks \cup {None}
        /\ client[c].platform \in Platforms \cup {None}
        /\ client[c].session \in Sessions \cup {None}
    BY CallerFields
  <2>1. Alone(c) /\ Local(client'[c])
    BY <1>1, <2>0, AskStartLeads, ServiceAssumption
    DEF AskStart, At, CallersTyped, ClientSteps, Local, HasPlatform, HasTask, HasNoTask,
        HasSession, Locals
  <2>2. Locals'
    BY <1>1, <2>1, AloneKeepsLocals, ServiceAssumption DEF AskStart, taskVars, Locals, Tasks
  <2>3. client' \in [Clients -> Callers]
    BY <2>1 DEF Alone
  <2> QED
    BY <1>1, <2>0, <2>2, <2>3, ServiceAssumption
    DEF AskStart, WorkerSteps, FoldersOf, At, Tasks, Kinds, Locals, Local, HasPlatform, HasTask,
        HasSession, taskVars, sessionVars, workVars
<1>2. ASSUME NEW c \in Clients, AskWait(c) PROVE TypeInv'
  <2>0. /\ client[c] \in Callers
        /\ client[c].task \in Tasks \cup {None} /\ client[c].join \in Tasks \cup {None}
        /\ client[c].platform \in Platforms \cup {None}
        /\ client[c].session \in Sessions \cup {None}
    BY CallerFields
  <2>1. Alone(c) /\ Local(client'[c])
    <3>1. "waiting" \in ClientSteps /\ "waited" \in ClientSteps
      BY DEF ClientSteps
    <3>2. CASE thread # None /\ TakeJoin(c, "waiting", thread)
      BY <1>2, <3>1, <3>2, TakeJoinLeads
      DEF AskWait, At, CallersTyped, Local, HasPlatform, HasTask, HasNoTask, HasSession, Locals
    <3>3. CASE Goto(c, "waited")
      BY <1>2, <3>1, <3>3, GotoLeads
      DEF AskWait, At, CallersTyped, Local, HasPlatform, HasTask, HasNoTask, HasSession, Locals
    <3>4. CASE Return(c)
      BY <3>4, ReturnLeads DEF CallersTyped, Local, HasPlatform, HasTask, HasNoTask, HasSession
    <3> QED
      BY <1>2, <3>2, <3>3, <3>4 DEF AskWait, TakeJoin
  <2>2. Locals'
    BY <1>2, <2>1, AloneKeepsLocals, ServiceAssumption DEF AskWait, taskVars, Locals, Tasks
  <2>3. client' \in [Clients -> Callers]
    BY <2>1 DEF Alone
  <2> QED
    BY <1>2, <2>0, <2>2, <2>3, ServiceAssumption DEF AskWait, taskVars, sessionVars, workVars
<1>3. ASSUME NEW c \in Clients, AskStop(c) PROVE TypeInv'
  <2>0. /\ client[c] \in Callers
        /\ client[c].task \in Tasks \cup {None} /\ client[c].join \in Tasks \cup {None}
        /\ client[c].platform \in Platforms \cup {None}
        /\ client[c].session \in Sessions \cup {None}
    BY CallerFields
  <2>1. Alone(c) /\ Local(client'[c])
    BY <1>3, <2>0, AskStopLeads
    DEF AskStop, At, CallersTyped, ClientSteps, Local, HasPlatform, HasTask, HasNoTask,
        HasSession, Locals
  <2>2. Locals'
    BY <1>3, <2>1, AloneKeepsLocals, ServiceAssumption DEF AskStop, taskVars, Locals, Tasks
  <2>3. client' \in [Clients -> Callers]
    BY <2>1 DEF Alone
  <2>4. calls' \in 0 .. MaxCalls
    BY <1>3, ServiceAssumption DEF AskStop
  <2> QED
    BY <1>3, <2>2, <2>3, <2>4 DEF AskStop, taskVars, sessionVars, workVars
<1>4. ASSUME NEW c \in Clients, AskSession(c) PROVE TypeInv'
  <2>0. /\ client[c] \in Callers
        /\ client[c].task \in Tasks \cup {None} /\ client[c].join \in Tasks \cup {None}
        /\ client[c].platform \in Platforms \cup {None}
        /\ client[c].session \in Sessions \cup {None}
    BY CallerFields
  <2>1. Alone(c) /\ Local(client'[c])
    BY <1>4, <2>0, GotoLeads
    DEF AskSession, At, CallersTyped, ClientSteps, Local, HasPlatform, HasTask, HasNoTask,
        HasSession, Locals
  <2>2. Locals'
    BY <1>4, <2>1, AloneKeepsLocals, ServiceAssumption DEF AskSession, taskVars, Locals, Tasks
  <2>3. client' \in [Clients -> Callers]
    BY <2>1 DEF Alone
  <2>4. calls' \in 0 .. MaxCalls
    BY <1>4, ServiceAssumption DEF AskSession
  <2> QED
    BY <1>4, <2>2, <2>3, <2>4 DEF AskSession, taskVars, sessionVars, workVars
<1>5. ASSUME NEW c \in Clients, TurnAway(c) PROVE TypeInv'
  <2>0. /\ client[c] \in Callers
        /\ client[c].task \in Tasks \cup {None} /\ client[c].join \in Tasks \cup {None}
        /\ client[c].platform \in Platforms \cup {None}
        /\ client[c].session \in Sessions \cup {None}
    BY CallerFields
  <2>1. Alone(c) /\ Local(client'[c])
    BY <1>5, <2>0, ReturnLeads
    DEF TurnAway, At, CallersTyped, ClientSteps, Local, HasPlatform, HasTask, HasNoTask,
        HasSession, Locals
  <2>2. Locals'
    BY <1>5, <2>1, AloneKeepsLocals, ServiceAssumption DEF TurnAway, taskVars, Locals, Tasks
  <2>3. client' \in [Clients -> Callers]
    BY <2>1 DEF Alone
  <2> QED
    BY <1>5, <2>0, <2>2, <2>3, ServiceAssumption
    DEF TurnAway, WorkerSteps, FoldersOf, At, Tasks, Kinds, Locals, Local, HasPlatform, HasTask,
        HasSession, taskVars, sessionVars, workVars
<1>6. ASSUME NEW c \in Clients, KeepSession(c) PROVE TypeInv'
  <2>0. /\ client[c] \in Callers
        /\ client[c].task \in Tasks \cup {None} /\ client[c].join \in Tasks \cup {None}
        /\ client[c].platform \in Platforms \cup {None}
        /\ client[c].session \in Sessions \cup {None}
    BY CallerFields
  <2>1. Alone(c) /\ Local(client'[c])
    BY <1>6, <2>0, KeepSessionLeads, ServiceAssumption
    DEF KeepSession, At, CallersTyped, ClientSteps, Local, HasPlatform, HasTask, HasNoTask,
        HasSession, Locals
  <2>2. Locals'
    BY <1>6, <2>1, AloneKeepsLocals, ServiceAssumption DEF KeepSession, taskVars, Locals, Tasks
  <2>3. client' \in [Clients -> Callers]
    BY <2>1 DEF Alone
  <2> QED
    BY <1>6, <2>0, <2>2, <2>3, ServiceAssumption
    DEF KeepSession, WorkerSteps, FoldersOf, At, Tasks, Kinds, Locals, Local, HasPlatform,
        HasTask, HasSession, taskVars, sessionVars, workVars
<1>7. ASSUME NEW c \in Clients, OpenLease(c) PROVE TypeInv'
  <2>0. /\ client[c] \in Callers
        /\ client[c].task \in Tasks \cup {None} /\ client[c].join \in Tasks \cup {None}
        /\ client[c].platform \in Platforms \cup {None}
        /\ client[c].session \in Sessions \cup {None}
    BY CallerFields
  <2>1. Alone(c) /\ Local(client'[c])
    BY <1>7, <2>0, GotoLeads
    DEF OpenLease, At, CallersTyped, ClientSteps, Local, HasPlatform, HasTask, HasNoTask,
        HasSession, Locals
  <2>2. Locals'
    BY <1>7, <2>1, AloneKeepsLocals, ServiceAssumption DEF OpenLease, taskVars, Locals, Tasks
  <2>3. client' \in [Clients -> Callers]
    BY <2>1 DEF Alone
  <2> QED
    BY <1>7, <2>0, <2>2, <2>3, ServiceAssumption
    DEF OpenLease, WorkerSteps, FoldersOf, At, Tasks, Kinds, Locals, Local, HasPlatform, HasTask,
        HasSession, taskVars, sessionVars, workVars
<1>8. ASSUME NEW c \in Clients, ChooseSession(c) PROVE TypeInv'
  <2>0. /\ client[c] \in Callers
        /\ client[c].task \in Tasks \cup {None} /\ client[c].join \in Tasks \cup {None}
        /\ client[c].platform \in Platforms \cup {None}
        /\ client[c].session \in Sessions \cup {None}
    BY CallerFields
  <2>1. Alone(c) /\ Local(client'[c])
    <3>1. CASE \E s \in FoldersOf(client[c].platform) : TakeSession(c, "adopting", s)
      <4>1. PICK s \in FoldersOf(client[c].platform) : TakeSession(c, "adopting", s)
        BY <3>1
      <4>2. s \in Sessions /\ s # None
        BY ServiceAssumption DEF FoldersOf
      <4>3. "adopting" \in ClientSteps
        BY DEF ClientSteps
      <4>4. /\ Alone(c)
            /\ client'[c].pc = "adopting"
            /\ client'[c].task = client[c].task
            /\ client'[c].platform = client[c].platform
            /\ client'[c].session = s
        BY <4>1, <4>2, <4>3, TakeSessionLeads DEF CallersTyped
      <4> QED
        BY <1>8, <4>2, <4>4
        DEF ChooseSession, At, Local, HasPlatform, HasTask, HasNoTask, HasSession, Locals
    <3>2. CASE Goto(c, "failing")
      BY <1>8, <2>0, <3>2, GotoLeads
      DEF ChooseSession, At, CallersTyped, ClientSteps, Local, HasPlatform, HasTask, HasNoTask,
          HasSession, Locals
    <3> QED
      BY <1>8, <3>1, <3>2 DEF ChooseSession, TakeSession
  <2>2. Locals'
    BY <1>8, <2>1, AloneKeepsLocals, ServiceAssumption DEF ChooseSession, taskVars, Locals, Tasks
  <2>3. client' \in [Clients -> Callers]
    BY <2>1 DEF Alone
  <2>4. runner' \in [Platforms -> Sessions \cup {None}]
    BY <1>8 DEF ChooseSession, Select, FoldersOf
  <2>5. bound' \in [Platforms -> Sessions \cup {None}]
    BY <1>8 DEF ChooseSession, Select, FoldersOf
  <2> QED
    BY <1>8, <2>2, <2>3, <2>4, <2>5 DEF ChooseSession, taskVars, sessionVars, workVars
<1>9. ASSUME NEW c \in Clients, Register(c) PROVE TypeInv'
  <2>0. /\ client[c] \in Callers
        /\ client[c].task \in Tasks \cup {None} /\ client[c].join \in Tasks \cup {None}
        /\ client[c].platform \in Platforms \cup {None}
        /\ client[c].session \in Sessions \cup {None}
    BY CallerFields
  <2>1. Alone(c) /\ Local(client'[c])
    BY <1>9, <2>0, GotoLeads, ReturnLeads
    DEF Register, Refused, At, CallersTyped, ClientSteps, Local, HasPlatform, HasTask, HasNoTask,
        HasSession, Locals
  <2>2. Locals'
    BY <1>9, <2>1, AloneKeepsLocals, ServiceAssumption DEF Register, taskVars, Locals, Tasks
  <2>3. client' \in [Clients -> Callers]
    BY <2>1 DEF Alone
  <2>4. registry' \in [Platforms -> Sessions \cup {None}]
    BY <1>9, <2>0 DEF Register
  <2>5. bound' \in [Platforms -> Sessions \cup {None}]
    BY <1>9, <2>0 DEF Register
  <2> QED
    BY <1>9, <2>2, <2>3, <2>4, <2>5 DEF Register, taskVars, sessionVars, workVars
<1>10. ASSUME NEW c \in Clients, ShowSession(c) PROVE TypeInv'
  <2>0. /\ client[c] \in Callers
        /\ client[c].task \in Tasks \cup {None} /\ client[c].join \in Tasks \cup {None}
        /\ client[c].platform \in Platforms \cup {None}
        /\ client[c].session \in Sessions \cup {None}
    BY CallerFields
  <2>1. Alone(c) /\ Local(client'[c])
    BY <1>10, <2>0, GotoLeads
    DEF ShowSession, At, CallersTyped, ClientSteps, Local, HasPlatform, HasTask, HasNoTask,
        HasSession, Locals
  <2>2. Locals'
    BY <1>10, <2>1, AloneKeepsLocals, ServiceAssumption DEF ShowSession, taskVars, Locals, Tasks
  <2>3. client' \in [Clients -> Callers]
    BY <2>1 DEF Alone
  <2> QED
    BY <1>10, <2>0, <2>2, <2>3, ServiceAssumption
    DEF ShowSession, WorkerSteps, FoldersOf, At, Tasks, Kinds, Locals, Local, HasPlatform,
        HasTask, HasSession, taskVars, sessionVars, workVars
<1>11. ASSUME NEW c \in Clients, SteerRunner(c) PROVE TypeInv'
  <2>0. /\ client[c] \in Callers
        /\ client[c].task \in Tasks \cup {None} /\ client[c].join \in Tasks \cup {None}
        /\ client[c].platform \in Platforms \cup {None}
        /\ client[c].session \in Sessions \cup {None}
    BY CallerFields
  <2>1. Alone(c) /\ Local(client'[c])
    BY <1>11, <2>0, GotoLeads, ReturnLeads
    DEF SteerRunner, At, CallersTyped, ClientSteps, Local, HasPlatform, HasTask, HasNoTask,
        HasSession, Locals
  <2>2. Locals'
    BY <1>11, <2>1, AloneKeepsLocals, ServiceAssumption DEF SteerRunner, taskVars, Locals, Tasks
  <2>3. client' \in [Clients -> Callers]
    BY <2>1 DEF Alone
  <2> QED
    BY <1>11, <2>0, <2>2, <2>3, ServiceAssumption
    DEF SteerRunner, WorkerSteps, FoldersOf, At, Tasks, Kinds, Locals, Local, HasPlatform,
        HasTask, HasSession, taskVars, sessionVars, workVars
<1>12. ASSUME NEW c \in Clients, ClearStop(c) PROVE TypeInv'
  <2>0. /\ client[c] \in Callers
        /\ client[c].task \in Tasks \cup {None} /\ client[c].join \in Tasks \cup {None}
        /\ client[c].platform \in Platforms \cup {None}
        /\ client[c].session \in Sessions \cup {None}
    BY CallerFields
  <2>1. Alone(c) /\ Local(client'[c])
    BY <1>12, <2>0, GotoLeads
    DEF ClearStop, At, CallersTyped, ClientSteps, Local, HasPlatform, HasTask, HasNoTask,
        HasSession, Locals
  <2>2. Locals'
    BY <1>12, <2>1, AloneKeepsLocals, ServiceAssumption DEF ClearStop, taskVars, Locals, Tasks
  <2>3. client' \in [Clients -> Callers]
    BY <2>1 DEF Alone
  <2>4. stopFlag' \in [Platforms -> 0 .. MaxTasks]
    <3>1. 0 \in 0 .. MaxTasks
      BY ServiceAssumption
    <3>2. At(c, "sending") => client[c].task \in 0 .. MaxTasks
      BY <2>0, ServiceAssumption DEF At, Tasks, Locals, Local, HasTask
    <3> QED
      BY <1>12, <3>1, <3>2 DEF ClearStop
  <2> QED
    BY <1>12, <2>2, <2>3, <2>4 DEF ClearStop, taskVars, sessionVars, workVars
<1>13. ASSUME NEW c \in Clients, StoreThread(c) PROVE TypeInv'
  <2>0. /\ client[c] \in Callers
        /\ client[c].task \in Tasks \cup {None} /\ client[c].join \in Tasks \cup {None}
        /\ client[c].platform \in Platforms \cup {None}
        /\ client[c].session \in Sessions \cup {None}
    BY CallerFields
  <2>1. Alone(c) /\ Local(client'[c])
    BY <1>13, <2>0, GotoLeads
    DEF StoreThread, At, CallersTyped, ClientSteps, Local, HasPlatform, HasTask, HasNoTask,
        HasSession, Locals
  <2>2. Locals'
    BY <1>13, <2>1, AloneKeepsLocals, ServiceAssumption DEF StoreThread, taskVars, Locals, Tasks
  <2>3. client' \in [Clients -> Callers]
    BY <2>1 DEF Alone
  <2> QED
    BY <1>13, <2>0, <2>2, <2>3, ServiceAssumption
    DEF StoreThread, WorkerSteps, FoldersOf, At, Tasks, Kinds, Locals, Local, HasPlatform,
        HasTask, HasSession, taskVars, sessionVars, workVars
<1>14. ASSUME NEW c \in Clients, Launch(c) PROVE TypeInv'
  <2>0. /\ client[c] \in Callers
        /\ client[c].task \in Tasks \cup {None} /\ client[c].join \in Tasks \cup {None}
        /\ client[c].platform \in Platforms \cup {None}
        /\ client[c].session \in Sessions \cup {None}
    BY CallerFields
  <2>1. Alone(c) /\ Local(client'[c])
    BY <1>14, <2>0, LaunchLeads
    DEF Launch, At, CallersTyped, ClientSteps, Local, HasPlatform, HasTask, HasNoTask, HasSession,
        Locals
  <2>2. Locals'
    BY <1>14, <2>1, AloneKeepsLocals, ServiceAssumption DEF Launch, taskVars, Locals, Tasks
  <2>3. client' \in [Clients -> Callers]
    BY <2>1 DEF Alone
  <2> QED
    BY <1>14, <2>0, <2>2, <2>3, ServiceAssumption
    DEF Launch, WorkerSteps, FoldersOf, At, Tasks, Kinds, Locals, Local, HasPlatform, HasTask,
        HasSession, taskVars, sessionVars, workVars
<1>15. ASSUME NEW c \in Clients, FailStart(c) PROVE TypeInv'
  <2>0. /\ client[c] \in Callers
        /\ client[c].task \in Tasks \cup {None} /\ client[c].join \in Tasks \cup {None}
        /\ client[c].platform \in Platforms \cup {None}
        /\ client[c].session \in Sessions \cup {None}
    BY CallerFields
  <2>1. Alone(c) /\ Local(client'[c])
    BY <1>15, <2>0, ReturnLeads
    DEF FailStart, At, CallersTyped, ClientSteps, Local, HasPlatform, HasTask, HasNoTask,
        HasSession, Locals
  <2>2. Locals'
    BY <1>15, <2>1, AloneKeepsLocals, ServiceAssumption DEF FailStart, taskVars, Locals, Tasks
  <2>3. client' \in [Clients -> Callers]
    BY <2>1 DEF Alone
  <2> QED
    BY <1>15, <2>0, <2>2, <2>3, ServiceAssumption
    DEF FailStart, WorkerSteps, FoldersOf, At, Tasks, Kinds, Locals, Local, HasPlatform, HasTask,
        HasSession, taskVars, sessionVars, workVars
<1>16. ASSUME NEW c \in Clients, Joined(c) PROVE TypeInv'
  <2>0. /\ client[c] \in Callers
        /\ client[c].task \in Tasks \cup {None} /\ client[c].join \in Tasks \cup {None}
        /\ client[c].platform \in Platforms \cup {None}
        /\ client[c].session \in Sessions \cup {None}
    BY CallerFields
  <2>1. Alone(c) /\ Local(client'[c])
    BY <1>16, <2>0, GotoLeads
    DEF Joined, At, CallersTyped, ClientSteps, Local, HasPlatform, HasTask, HasNoTask, HasSession,
        Locals
  <2>2. Locals'
    BY <1>16, <2>1, AloneKeepsLocals, ServiceAssumption DEF Joined, taskVars, Locals, Tasks
  <2>3. client' \in [Clients -> Callers]
    BY <2>1 DEF Alone
  <2> QED
    BY <1>16, <2>0, <2>2, <2>3, ServiceAssumption
    DEF Joined, WorkerSteps, FoldersOf, At, Tasks, Kinds, Locals, Local, HasPlatform, HasTask,
        HasSession, taskVars, sessionVars, workVars
<1>17. ASSUME NEW c \in Clients, Leave(c) PROVE TypeInv'
  <2>0. /\ client[c] \in Callers
        /\ client[c].task \in Tasks \cup {None} /\ client[c].join \in Tasks \cup {None}
        /\ client[c].platform \in Platforms \cup {None}
        /\ client[c].session \in Sessions \cup {None}
    BY CallerFields
  <2>1. Alone(c) /\ Local(client'[c])
    BY <1>17, <2>0, ReturnLeads
    DEF Leave, At, CallersTyped, ClientSteps, Local, HasPlatform, HasTask, HasNoTask, HasSession,
        Locals
  <2>2. Locals'
    BY <1>17, <2>1, AloneKeepsLocals, ServiceAssumption DEF Leave, taskVars, Locals, Tasks
  <2>3. client' \in [Clients -> Callers]
    BY <2>1 DEF Alone
  <2> QED
    BY <1>17, <2>0, <2>2, <2>3, ServiceAssumption
    DEF Leave, WorkerSteps, FoldersOf, At, Tasks, Kinds, Locals, Local, HasPlatform, HasTask,
        HasSession, taskVars, sessionVars, workVars
<1>18. ASSUME NEW c \in Clients, Aim(c) PROVE TypeInv'
  <2>0. /\ client[c] \in Callers
        /\ client[c].task \in Tasks \cup {None} /\ client[c].join \in Tasks \cup {None}
        /\ client[c].platform \in Platforms \cup {None}
        /\ client[c].session \in Sessions \cup {None}
    BY CallerFields
  <2>1. Alone(c) /\ Local(client'[c])
    BY <1>18, <2>0, AimLeads, ServiceAssumption
    DEF Aim, At, CallersTyped, ClientSteps, Local, HasPlatform, HasTask, HasNoTask, HasSession,
        Locals
  <2>2. Locals'
    BY <1>18, <2>1, AloneKeepsLocals, ServiceAssumption DEF Aim, taskVars, Locals, Tasks
  <2>3. client' \in [Clients -> Callers]
    BY <2>1 DEF Alone
  <2> QED
    BY <1>18, <2>0, <2>2, <2>3, ServiceAssumption
    DEF Aim, WorkerSteps, FoldersOf, At, Tasks, Kinds, Locals, Local, HasPlatform, HasTask,
        HasSession, taskVars, sessionVars, workVars
<1>19. ASSUME NEW c \in Clients, SendStop(c) PROVE TypeInv'
  <2>0. /\ client[c] \in Callers
        /\ client[c].task \in Tasks \cup {None} /\ client[c].join \in Tasks \cup {None}
        /\ client[c].platform \in Platforms \cup {None}
        /\ client[c].session \in Sessions \cup {None}
    BY CallerFields
  <2>1. Alone(c) /\ Local(client'[c])
    BY <1>19, <2>0, ReturnLeads
    DEF SendStop, At, CallersTyped, ClientSteps, Local, HasPlatform, HasTask, HasNoTask,
        HasSession, Locals
  <2>2. Locals'
    BY <1>19, <2>1, AloneKeepsLocals, ServiceAssumption DEF SendStop, taskVars, Locals, Tasks
  <2>3. client' \in [Clients -> Callers]
    BY <2>1 DEF Alone
  <2>4. stopFlag' \in [Platforms -> 0 .. MaxTasks]
    <3>1. 0 \in 0 .. MaxTasks
      BY ServiceAssumption
    <3>2. At(c, "sending") => client[c].task \in 0 .. MaxTasks
      BY <2>0, ServiceAssumption DEF At, Tasks, Locals, Local, HasTask
    <3> QED
      BY <1>19, <3>1, <3>2 DEF SendStop
  <2> QED
    BY <1>19, <2>2, <2>3, <2>4 DEF SendStop, taskVars, sessionVars, workVars
<1>20. ASSUME NEW c \in Clients, PickSession(c) PROVE TypeInv'
  <2>0. /\ client[c] \in Callers
        /\ client[c].task \in Tasks \cup {None} /\ client[c].join \in Tasks \cup {None}
        /\ client[c].platform \in Platforms \cup {None}
        /\ client[c].session \in Sessions \cup {None}
    BY CallerFields
  <2>1. Alone(c) /\ Local(client'[c])
    <3>1. CASE \E s \in FoldersOf(platform) : TakeSession(c, "placing", s)
      <4>1. PICK s \in FoldersOf(platform) : TakeSession(c, "placing", s)
        BY <3>1
      <4>2. s \in Sessions /\ s # None
        BY ServiceAssumption DEF FoldersOf
      <4>3. "placing" \in ClientSteps
        BY DEF ClientSteps
      <4>4. /\ Alone(c)
            /\ client'[c].pc = "placing"
            /\ client'[c].task = client[c].task
            /\ client'[c].platform = client[c].platform
            /\ client'[c].session = s
        BY <4>1, <4>2, <4>3, TakeSessionLeads DEF CallersTyped
      <4> QED
        BY <1>20, <4>2, <4>4
        DEF PickSession, At, Local, HasPlatform, HasTask, HasNoTask, HasSession, Locals
    <3>2. CASE Return(c)
      BY <1>20, <2>0, <3>2, ReturnLeads
      DEF PickSession, At, CallersTyped, ClientSteps, Local, HasPlatform, HasTask, HasNoTask,
          HasSession, Locals
    <3> QED
      BY <1>20, <3>1, <3>2 DEF PickSession, TakeSession
  <2>2. Locals'
    BY <1>20, <2>1, AloneKeepsLocals, ServiceAssumption DEF PickSession, taskVars, Locals, Tasks
  <2>3. client' \in [Clients -> Callers]
    BY <2>1 DEF Alone
  <2>4. runner' \in [Platforms -> Sessions \cup {None}]
    BY <1>20 DEF PickSession, Select, FoldersOf
  <2>5. bound' \in [Platforms -> Sessions \cup {None}]
    BY <1>20 DEF PickSession, Select, FoldersOf
  <2> QED
    BY <1>20, <2>2, <2>3, <2>4, <2>5 DEF PickSession, taskVars, sessionVars, workVars
<1>21. ASSUME NEW c \in Clients, PlaceSession(c) PROVE TypeInv'
  <2>0. /\ client[c] \in Callers
        /\ client[c].task \in Tasks \cup {None} /\ client[c].join \in Tasks \cup {None}
        /\ client[c].platform \in Platforms \cup {None}
        /\ client[c].session \in Sessions \cup {None}
    BY CallerFields
  <2>1. Alone(c) /\ Local(client'[c])
    BY <1>21, <2>0, PlaceSessionLeads, ServiceAssumption
    DEF PlaceSession, At, CallersTyped, ClientSteps, Local, HasPlatform, HasTask, HasNoTask,
        HasSession, Locals
  <2>2. Locals'
    BY <1>21, <2>1, AloneKeepsLocals, ServiceAssumption DEF PlaceSession, taskVars, Locals, Tasks
  <2>3. client' \in [Clients -> Callers]
    BY <2>1 DEF Alone
  <2> QED
    BY <1>21, <2>0, <2>2, <2>3, ServiceAssumption
    DEF PlaceSession, WorkerSteps, FoldersOf, At, Tasks, Kinds, Locals, Local, HasPlatform,
        HasTask, HasSession, taskVars, sessionVars, workVars
<1>22. ASSUME NEW c \in Clients, ReadView(c) PROVE TypeInv'
  <2>0. /\ client[c] \in Callers
        /\ client[c].task \in Tasks \cup {None} /\ client[c].join \in Tasks \cup {None}
        /\ client[c].platform \in Platforms \cup {None}
        /\ client[c].session \in Sessions \cup {None}
    BY CallerFields
  <2>1. Alone(c) /\ Local(client'[c])
    <3>1. "moving" \in ClientSteps
      BY DEF ClientSteps
    <3>2. CASE view # None
      <4>1. TakeSession(c, "moving", view)
        BY <1>22, <3>2 DEF ReadView, TakeSession
      <4> QED
        BY <1>22, <3>1, <3>2, <4>1, TakeSessionLeads
        DEF ReadView, At, CallersTyped, Local, HasPlatform, HasTask, HasNoTask, HasSession, Locals
    <3>3. CASE view = None
      BY <1>22, <3>3, ReturnLeads
      DEF ReadView, CallersTyped, Local, HasPlatform, HasTask, HasNoTask, HasSession
    <3> QED
      BY <3>2, <3>3
  <2>2. Locals'
    BY <1>22, <2>1, AloneKeepsLocals, ServiceAssumption DEF ReadView, taskVars, Locals, Tasks
  <2>3. client' \in [Clients -> Callers]
    BY <2>1 DEF Alone
  <2> QED
    BY <1>22, <2>0, <2>2, <2>3, ServiceAssumption DEF ReadView, taskVars, sessionVars, workVars
<1>23. ASSUME NEW c \in Clients, MoveRunner(c) PROVE TypeInv'
  <2>0. /\ client[c] \in Callers
        /\ client[c].task \in Tasks \cup {None} /\ client[c].join \in Tasks \cup {None}
        /\ client[c].platform \in Platforms \cup {None}
        /\ client[c].session \in Sessions \cup {None}
    BY CallerFields
  <2>1. Alone(c) /\ Local(client'[c])
    BY <1>23, <2>0, ReturnLeads
    DEF MoveRunner, At, CallersTyped, ClientSteps, Local, HasPlatform, HasTask, HasNoTask,
        HasSession, Locals
  <2>2. Locals'
    BY <1>23, <2>1, AloneKeepsLocals, ServiceAssumption DEF MoveRunner, taskVars, Locals, Tasks
  <2>3. client' \in [Clients -> Callers]
    BY <2>1 DEF Alone
  <2> QED
    BY <1>23, <2>0, <2>2, <2>3, ServiceAssumption
    DEF MoveRunner, WorkerSteps, FoldersOf, At, Tasks, Kinds, Locals, Local, HasPlatform, HasTask,
        HasSession, taskVars, sessionVars, workVars
<1>24. ASSUME NEW c \in Clients, NEW kind \in Kinds, Reserve(c, kind) PROVE TypeInv'
  <2>0. /\ client[c] \in Callers
        /\ client[c].task \in Tasks \cup {None} /\ client[c].join \in Tasks \cup {None}
        /\ client[c].platform \in Platforms \cup {None}
        /\ client[c].session \in Sessions \cup {None}
    BY CallerFields
  <2>a. nextTask \in Tasks /\ nextTask # None
    BY <1>24, ServiceAssumption DEF Reserve, Tasks
  <2>1. Alone(c) /\ Local(client'[c])
    BY <1>24, <2>0, <2>a, ReserveLeads, ServiceAssumption
    DEF Local, HasPlatform, HasTask, HasNoTask, HasSession, Locals
  <2>2. Locals'
    <3>1. current' # None
      BY <1>24, <2>a DEF Reserve
    <3> QED
      BY <2>1, <3>1, AloneKeepsLocals DEF Locals
  <2>3. client' \in [Clients -> Callers]
    BY <2>1 DEF Alone
  <2>4. task' \in [Tasks -> [kind : Kinds, home : Platforms, target : Platforms]]
    BY <1>24, <2>0, ServiceAssumption DEF Reserve, At, Locals, Local, HasPlatform
  <2>5. worker' \in [Tasks -> WorkerSteps]
    BY <1>24 DEF Reserve, WorkerSteps
  <2>6. nextTask' \in 1 .. MaxTasks + 1
    BY <1>24, ServiceAssumption DEF Reserve
  <2> QED
    BY <1>24, <2>a, <2>2, <2>3, <2>4, <2>5, <2>6 DEF Reserve, taskVars, sessionVars, workVars
<1>25. ASSUME NEW c \in Clients, NEW p \in Platforms, AskPlatform(c, p) PROVE TypeInv'
  <2>0. /\ client[c] \in Callers
        /\ client[c].task \in Tasks \cup {None} /\ client[c].join \in Tasks \cup {None}
        /\ client[c].platform \in Platforms \cup {None}
        /\ client[c].session \in Sessions \cup {None}
    BY CallerFields
  <2>1. Alone(c) /\ Local(client'[c])
    BY <1>25, <2>0, GotoLeads
    DEF AskPlatform, At, CallersTyped, ClientSteps, Local, HasPlatform, HasTask, HasNoTask,
        HasSession, Locals
  <2>2. Locals'
    BY <1>25, <2>1, AloneKeepsLocals, ServiceAssumption DEF AskPlatform, taskVars, Locals, Tasks
  <2>3. client' \in [Clients -> Callers]
    BY <2>1 DEF Alone
  <2>4. calls' \in 0 .. MaxCalls
    BY <1>25, ServiceAssumption DEF AskPlatform
  <2>5. view' \in Sessions \cup {None}
    BY <1>25 DEF AskPlatform
  <2> QED
    BY <1>25, <2>2, <2>3, <2>4, <2>5 DEF AskPlatform, taskVars, sessionVars, workVars
<1>26. ASSUME NEW t \in Tasks, TakeLease(t) PROVE TypeInv'
  BY <1>26, ServiceAssumption DEF TakeLease, WorkerSteps, Locals, taskVars, sessionVars, workVars
<1>27. ASSUME NEW t \in Tasks, FindLeaseHeld(t) PROVE TypeInv'
  BY <1>27, ServiceAssumption
  DEF FindLeaseHeld, WorkerSteps, Locals, taskVars, sessionVars, workVars
<1>28. ASSUME NEW t \in Tasks, EndRun(t) PROVE TypeInv'
  BY <1>28, ServiceAssumption DEF EndRun, WorkerSteps, Locals, taskVars, sessionVars, workVars
<1>29. ASSUME NEW t \in Tasks, Record(t) PROVE TypeInv'
  BY <1>29, ServiceAssumption DEF Record, WorkerSteps, Locals, taskVars, sessionVars, workVars
<1>30. ASSUME NEW t \in Tasks, Finish(t) PROVE TypeInv'
  BY <1>30, ServiceAssumption DEF Finish, WorkerSteps, Locals, taskVars, sessionVars, workVars
<1>31. ASSUME NEW t \in Tasks, Announce(t) PROVE TypeInv'
  BY <1>31, ServiceAssumption DEF Announce, WorkerSteps, Locals, taskVars, sessionVars, workVars
<1>32. ASSUME NEW t \in Tasks, DropThread(t) PROVE TypeInv'
  BY <1>32, ServiceAssumption DEF DropThread, WorkerSteps, Locals, taskVars, sessionVars, workVars
<1>33. CASE UNCHANGED vars
  BY <1>33 DEF vars, Locals, taskVars, sessionVars, workVars
<1> QED
  BY <1>1, <1>2, <1>3, <1>4, <1>5, <1>6, <1>7, <1>8, <1>9, <1>10, <1>11, <1>12, <1>13, <1>14,
     <1>15, <1>16, <1>17, <1>18, <1>19, <1>20, <1>21, <1>22, <1>23, <1>24, <1>25, <1>26, <1>27,
     <1>28, <1>29, <1>30, <1>31, <1>32, <1>33 DEF Next, Call, Proceed, Work

\* Every variable, the callers' local variables among them, has its type.
THEOREM Typing == Spec => []TypeOK
<1>1. TypeInv => TypeOK
  BY DEF TypeInv
<1> QED
  BY InitTypeInv, StepTypeInv, <1>1, PTL DEF Spec

-----------------------------------------------------------------------------
(* The desk: the accepted task is the one on it, and one caller launches it. *)

StartSteps == {"reserved", "choosing", "adopting", "showing", "steering", "clearing",
               "storing", "launching", "failing"}

\* A caller that is starting a task, not choosing a session.
Begins(r) == r.pc \in StartSteps /\ r.task # None

DeskHolder ==
  /\ \A t \in Tasks : OnDesk(t) <=> current = t
  /\ busy <=> current # None
  /\ desk # None => current # None
  /\ current # None => /\ desk = platform
                       /\ task[current].home = platform
                       /\ nextTask = current + 1

Numbered == \A t \in Tasks : worker[t] = "new" <=> t >= nextTask

Starters ==
  /\ \A c \in Clients : client[c].task # None => worker[client[c].task] # "new"
  /\ \A c \in Clients : Begins(client[c]) => worker[client[c].task] = "accepted"
  /\ \A c, d \in Clients : Begins(client[c]) /\ Begins(client[d]) => c = d

DeskInv == DeskHolder /\ Numbered /\ Starters /\ StopReachesItsTask

\* A caller's step that leaves the desk alone: it begins nothing new, and it
\* names at most the task on the desk.
Quiet(c) ==
  /\ Alone(c)
  /\ UNCHANGED <<busy, current, desk, platform, worker, task, nextTask>>
  /\ Begins(client'[c]) => Begins(client[c]) /\ client'[c].task = client[c].task
  /\ client'[c].task \in {None, client[c].task, current}
  /\ client'[c].pc = "sending" =>
       /\ client'[c].task = client[c].task
       /\ client'[c].platform = IF desk # None THEN desk ELSE platform

\* Every call but those that accept, launch or drop a task or switch platforms
\* is such a step.
LEMMA QuietSteps ==
  ASSUME TypeInv, NEW c \in Clients,
         AskStart(c) \/ AskWait(c) \/ AskStop(c) \/ AskSession(c) \/
         TurnAway(c) \/ KeepSession(c) \/ OpenLease(c) \/ ChooseSession(c)
         \/ Register(c) \/ ShowSession(c) \/ SteerRunner(c) \/ ClearStop(c)
         \/ StoreThread(c) \/ Joined(c) \/ Leave(c) \/ Aim(c) \/
         SendStop(c) \/ PickSession(c) \/ PlaceSession(c) \/ ReadView(c) \/
         MoveRunner(c)
  PROVE  Quiet(c)
<1>1. ASSUME AskStart(c) PROVE Quiet(c)
  BY <1>1, AskStartLeads, RestIsTyped
  DEF AskStart, At, TypeInv, TypeOK, CallersTyped, ClientSteps, Quiet, Begins, StartSteps,
      taskVars, workVars
<1>2. ASSUME AskWait(c) PROVE Quiet(c)
  <2>0. CallersTyped /\ "waiting" \in ClientSteps /\ "waited" \in ClientSteps /\ "failing" \in ClientSteps
    BY DEF TypeInv, TypeOK, CallersTyped, ClientSteps
  <2>1. CASE TakeJoin(c, "waiting", thread)
    <3>1. /\ Alone(c)
          /\ client'[c].pc = "waiting"
          /\ client'[c].task = client[c].task
      BY <1>2, <2>0, <2>1, TakeJoinLeads DEF FoldersOf, TypeInv, TypeOK
    <3> QED
      BY <1>2, <3>1 DEF AskWait, At, Quiet, Begins, StartSteps, taskVars, workVars
  <2>2. CASE Goto(c, "waited") \/ Return(c)
    BY <1>2, <2>0, <2>2, GotoLeads, ReturnLeads, RestIsTyped
    DEF AskWait, At, Quiet, Begins, StartSteps, taskVars, workVars
  <2> QED
    BY <1>2, <2>1, <2>2 DEF AskWait, TakeJoin
<1>3. ASSUME AskStop(c) PROVE Quiet(c)
  BY <1>3, AskStopLeads, RestIsTyped
  DEF AskStop, At, TypeInv, TypeOK, CallersTyped, ClientSteps, Quiet, Begins, StartSteps,
      taskVars, workVars
<1>4. ASSUME AskSession(c) PROVE Quiet(c)
  BY <1>4, GotoLeads, RestIsTyped
  DEF AskSession, At, TypeInv, TypeOK, CallersTyped, ClientSteps, Quiet, Begins, StartSteps,
      taskVars, workVars
<1>5. ASSUME TurnAway(c) PROVE Quiet(c)
  BY <1>5, ReturnLeads, RestIsTyped
  DEF TurnAway, At, TypeInv, TypeOK, CallersTyped, ClientSteps, Quiet, Begins, StartSteps,
      taskVars, workVars
<1>6. ASSUME KeepSession(c) PROVE Quiet(c)
  BY <1>6, KeepSessionLeads, RestIsTyped
  DEF KeepSession, At, TypeInv, TypeOK, CallersTyped, ClientSteps, Quiet, Begins, StartSteps,
      taskVars, workVars
<1>7. ASSUME OpenLease(c) PROVE Quiet(c)
  BY <1>7, GotoLeads, RestIsTyped
  DEF OpenLease, At, TypeInv, TypeOK, CallersTyped, ClientSteps, Quiet, Begins, StartSteps,
      taskVars, workVars
<1>8. ASSUME ChooseSession(c) PROVE Quiet(c)
  <2>0. CallersTyped /\ "adopting" \in ClientSteps /\ "waited" \in ClientSteps /\ "failing" \in ClientSteps
    BY DEF TypeInv, TypeOK, CallersTyped, ClientSteps
  <2>1. CASE \E s \in FoldersOf(client[c].platform) : TakeSession(c, "adopting", s)
    <3>1. /\ Alone(c)
          /\ client'[c].pc = "adopting"
          /\ client'[c].task = client[c].task
      BY <1>8, <2>0, <2>1, TakeSessionLeads DEF FoldersOf, TypeInv, TypeOK
    <3> QED
      BY <1>8, <3>1 DEF ChooseSession, At, Quiet, Begins, StartSteps, taskVars, workVars
  <2>2. CASE Goto(c, "failing")
    BY <1>8, <2>0, <2>2, GotoLeads, RestIsTyped
    DEF ChooseSession, At, Quiet, Begins, StartSteps, taskVars, workVars
  <2> QED
    BY <1>8, <2>1, <2>2 DEF ChooseSession, TakeSession
<1>9. ASSUME Register(c) PROVE Quiet(c)
  BY <1>9, GotoLeads, ReturnLeads, RestIsTyped
  DEF Register, Refused, At, TypeInv, TypeOK, CallersTyped, ClientSteps, Quiet, Begins,
      StartSteps, taskVars, workVars
<1>10. ASSUME ShowSession(c) PROVE Quiet(c)
  BY <1>10, GotoLeads, RestIsTyped
  DEF ShowSession, At, TypeInv, TypeOK, CallersTyped, ClientSteps, Quiet, Begins, StartSteps,
      taskVars, workVars
<1>11. ASSUME SteerRunner(c) PROVE Quiet(c)
  BY <1>11, GotoLeads, ReturnLeads, RestIsTyped
  DEF SteerRunner, At, TypeInv, TypeOK, CallersTyped, ClientSteps, Quiet, Begins, StartSteps,
      taskVars, workVars
<1>12. ASSUME ClearStop(c) PROVE Quiet(c)
  BY <1>12, GotoLeads, RestIsTyped
  DEF ClearStop, At, TypeInv, TypeOK, CallersTyped, ClientSteps, Quiet, Begins, StartSteps,
      taskVars, workVars
<1>13. ASSUME StoreThread(c) PROVE Quiet(c)
  BY <1>13, GotoLeads, RestIsTyped
  DEF StoreThread, At, TypeInv, TypeOK, CallersTyped, ClientSteps, Quiet, Begins, StartSteps,
      taskVars, workVars
<1>14. ASSUME Joined(c) PROVE Quiet(c)
  BY <1>14, GotoLeads, RestIsTyped
  DEF Joined, At, TypeInv, TypeOK, CallersTyped, ClientSteps, Quiet, Begins, StartSteps, taskVars,
      workVars
<1>15. ASSUME Leave(c) PROVE Quiet(c)
  BY <1>15, ReturnLeads, RestIsTyped
  DEF Leave, At, TypeInv, TypeOK, CallersTyped, ClientSteps, Quiet, Begins, StartSteps, taskVars,
      workVars
<1>16. ASSUME Aim(c) PROVE Quiet(c)
  BY <1>16, AimLeads, RestIsTyped
  DEF Aim, At, TypeInv, TypeOK, CallersTyped, ClientSteps, Quiet, Begins, StartSteps, taskVars,
      workVars
<1>17. ASSUME SendStop(c) PROVE Quiet(c)
  BY <1>17, ReturnLeads, RestIsTyped
  DEF SendStop, At, TypeInv, TypeOK, CallersTyped, ClientSteps, Quiet, Begins, StartSteps,
      taskVars, workVars
<1>18. ASSUME PickSession(c) PROVE Quiet(c)
  <2>0. CallersTyped /\ "placing" \in ClientSteps /\ "waited" \in ClientSteps /\ "failing" \in ClientSteps
    BY DEF TypeInv, TypeOK, CallersTyped, ClientSteps
  <2>1. CASE \E s \in FoldersOf(platform) : TakeSession(c, "placing", s)
    <3>1. /\ Alone(c)
          /\ client'[c].pc = "placing"
          /\ client'[c].task = client[c].task
      BY <1>18, <2>0, <2>1, TakeSessionLeads DEF FoldersOf, TypeInv, TypeOK
    <3> QED
      BY <1>18, <3>1 DEF PickSession, At, Quiet, Begins, StartSteps, taskVars, workVars
  <2>2. CASE Return(c)
    BY <1>18, <2>0, <2>2, ReturnLeads, RestIsTyped
    DEF PickSession, At, Quiet, Begins, StartSteps, taskVars, workVars
  <2> QED
    BY <1>18, <2>1, <2>2 DEF PickSession, TakeSession
<1>19. ASSUME PlaceSession(c) PROVE Quiet(c)
  BY <1>19, PlaceSessionLeads
  DEF PlaceSession, Locals, Local, HasNoTask, At, TypeInv, TypeOK, CallersTyped, ClientSteps,
      Quiet, Begins, StartSteps, taskVars, workVars
<1>20. ASSUME ReadView(c) PROVE Quiet(c)
  <2>0. CallersTyped /\ "moving" \in ClientSteps /\ "waited" \in ClientSteps /\ "failing" \in ClientSteps
    BY DEF TypeInv, TypeOK, CallersTyped, ClientSteps
  <2>1. CASE TakeSession(c, "moving", view)
    <3>1. /\ Alone(c)
          /\ client'[c].pc = "moving"
          /\ client'[c].task = client[c].task
      BY <1>20, <2>0, <2>1, TakeSessionLeads DEF FoldersOf, TypeInv, TypeOK
    <3> QED
      BY <1>20, <3>1 DEF ReadView, At, Quiet, Begins, StartSteps, taskVars, workVars
  <2>2. CASE Return(c)
    BY <1>20, <2>0, <2>2, ReturnLeads, RestIsTyped
    DEF ReadView, At, Quiet, Begins, StartSteps, taskVars, workVars
  <2> QED
    BY <1>20, <2>1, <2>2 DEF ReadView, TakeSession
<1>21. ASSUME MoveRunner(c) PROVE Quiet(c)
  BY <1>21, ReturnLeads, RestIsTyped
  DEF MoveRunner, At, TypeInv, TypeOK, CallersTyped, ClientSteps, Quiet, Begins, StartSteps,
      taskVars, workVars
<1> QED
  BY <1>1, <1>2, <1>3, <1>4, <1>5, <1>6, <1>7, <1>8, <1>9, <1>10, <1>11, <1>12, <1>13, <1>14,
     <1>15, <1>16, <1>17, <1>18, <1>19, <1>20, <1>21

LEMMA TasksAreSome == \A t \in Tasks : t # None
  BY ServiceAssumption DEF Tasks

LEMMA InitDeskInv == Init => DeskInv
<1> SUFFICES ASSUME Init PROVE DeskInv
  OBVIOUS
<1>1. DeskHolder
  BY ServiceAssumption DEF Init, DeskHolder, OnDesk, Tasks
<1>2. Numbered
  BY ServiceAssumption DEF Init, Numbered, Tasks
<1>3. Starters /\ StopReachesItsTask
  BY RestIsTyped DEF Init, Starters, Begins, StopReachesItsTask, At
<1> QED
  BY <1>1, <1>2, <1>3 DEF DeskInv

\* Such a step keeps the desk in order.
LEMMA QuietKeepsDesk ==
  ASSUME TypeInv, DeskInv, NEW c \in Clients, Quiet(c)
  PROVE  DeskInv'
<1>1. DeskHolder' /\ Numbered'
  BY DEF DeskInv, DeskHolder, Numbered, Quiet, OnDesk
<1>2. current # None => current \in Tasks /\ worker[current] # "new"
  BY DEF TypeInv, TypeOK, DeskInv, DeskHolder, OnDesk
<1>3. Starters'
  <2>1. \A d \in Clients : client'[d].task # None => worker[client'[d].task] # "new"
    BY <1>2 DEF DeskInv, Starters, Quiet, Alone
  <2>2. \A d \in Clients :
          Begins(client'[d]) => Begins(client[d]) /\ client'[d].task = client[d].task
    BY DEF Quiet, Alone
  <2> QED
    BY <2>1, <2>2 DEF DeskInv, Starters, Quiet
<1>4. StopReachesItsTask'
  <2> SUFFICES ASSUME NEW d \in Clients, client'[d].pc = "sending",
                      client'[d].task # None, OnDesk(client'[d].task)
               PROVE  client'[d].platform = task[client'[d].task].home
    BY DEF StopReachesItsTask, At, OnDesk, Quiet
  <2>1. CASE d # c
    BY <2>1 DEF Quiet, Alone, DeskInv, StopReachesItsTask, At
  <2>2. CASE d = c
    <3>1. client[c].task \in Tasks
      BY <2>2, CallerFields DEF TypeInv, TypeOK, Quiet
    <3>2. current = client'[c].task /\ current # None
      BY <2>2, <3>1, ServiceAssumption DEF DeskInv, DeskHolder, Quiet
    <3> QED
      BY <2>2, <3>2 DEF DeskInv, DeskHolder, Quiet
  <2> QED
    BY <2>1, <2>2
<1> QED
  BY <1>1, <1>3, <1>4 DEF DeskInv

\* A step of a background task that stays where it is, on the desk or off it.
LEMMA WorkKeepsDesk ==
  ASSUME TypeInv, DeskInv, NEW t \in Tasks, NEW to \in WorkerSteps,
         \A u \in Tasks : worker'[u] = IF u = t THEN to ELSE worker[u],
         UNCHANGED <<busy, current, desk, platform, task, nextTask, client>>,
         \/ /\ worker[t] \in {"ready", "running", "ran"}
            /\ to \in {"running", "ran", "recorded"}
         \/ /\ worker[t] \in {"finished", "announced"}
            /\ to \in {"announced", "dead"}
  PROVE  DeskInv'
<1>1. \A u \in Tasks : (OnDesk(u)' <=> OnDesk(u)) /\ (worker'[u] = "new" <=> worker[u] = "new")
  BY DEF OnDesk
<1>2. DeskHolder' /\ Numbered'
  BY <1>1 DEF DeskInv, DeskHolder, Numbered
<1>3. \A d \in Clients : client[d].task \in Tasks \cup {None} /\ client'[d] = client[d]
  BY CallerFields DEF TypeInv, TypeOK
<1>4. \A d \in Clients : Begins(client[d]) => client[d].task # t
  BY DEF DeskInv, Starters, Begins
<1>5. Starters'
  BY <1>1, <1>3, <1>4 DEF DeskInv, Starters, Begins
<1>6. StopReachesItsTask'
  BY <1>1, <1>3 DEF DeskInv, StopReachesItsTask, At
<1> QED
  BY <1>2, <1>5, <1>6 DEF DeskInv

\* Every step keeps the desk in order.
LEMMA StepDeskInv ==
  ASSUME TypeInv, TypeInv', DeskInv, [Next]_vars
  PROVE  DeskInv'
<1> USE DEF TypeInv, TypeOK
<1>0. \A t \in Tasks : t # None
  BY TasksAreSome
<1>1. ASSUME NEW c \in Clients, NEW kind \in Kinds, Reserve(c, kind) PROVE DeskInv'
  <2>0. /\ current = None /\ desk = None /\ nextTask \in Tasks
        /\ ~\E t \in Tasks : OnDesk(t)
    BY <1>0, <1>1, ServiceAssumption DEF Reserve, DeskInv, DeskHolder, Tasks
  <2>1. /\ \A t \in Tasks : worker'[t] = IF t = nextTask THEN "accepted" ELSE worker[t]
        /\ \A t \in Tasks : t # nextTask => task'[t] = task[t]
        /\ task'[nextTask].home = platform
        /\ worker[nextTask] = "new"
        /\ current' = nextTask /\ desk' = platform /\ platform' = platform /\ busy'
        /\ nextTask' = nextTask + 1
    BY <1>1, <2>0 DEF Reserve, DeskInv, Numbered, Tasks
  <2>2. /\ Alone(c) /\ client'[c].pc = "reserved" /\ client'[c].task = nextTask
        /\ client'[c].platform = platform
    BY <1>1, ReserveLeads
  <2>3. \A t \in Tasks : OnDesk(t)' <=> t = nextTask
    BY <2>0, <2>1 DEF OnDesk
  <2>4. DeskHolder'
    BY <1>0, <2>0, <2>1, <2>3 DEF DeskHolder
  <2>5. Numbered'
    BY <2>0, <2>1, ServiceAssumption DEF DeskInv, Numbered, Tasks
  <2>6. \A d \in Clients : d # c => /\ client'[d] = client[d]
                                    /\ client[d].task \in Tasks \cup {None}
                                    /\ client[d].task # nextTask
    BY <2>1, <2>2, CallerFields, <1>0, <2>0 DEF Alone, DeskInv, Starters
  <2>7. \A d \in Clients : ~Begins(client[d])
    BY <2>0, CallerFields DEF DeskInv, Starters, Begins, OnDesk
  <2>8. Starters'
    <3>1. \A d \in Clients : client'[d].task # None => worker'[client'[d].task] # "new"
      <4> SUFFICES ASSUME NEW d \in Clients, client'[d].task # None
                   PROVE  worker'[client'[d].task] # "new"
        OBVIOUS
      <4>1. CASE d = c
        BY <2>0, <2>1, <2>2, <4>1
      <4>2. CASE d # c
        <5>1. /\ client'[d].task = client[d].task
              /\ client[d].task \in Tasks /\ client[d].task # nextTask
          BY <2>6, <4>2
        <5>2. worker[client[d].task] # "new"
          BY <5>1, TasksAreSome DEF DeskInv, Starters
        <5> QED
          BY <2>1, <5>1, <5>2
      <4> QED
        BY <4>1, <4>2
    <3>2. \A d \in Clients : Begins(client'[d]) => d = c
      BY <2>6, <2>7
    <3> QED
      BY <2>0, <2>1, <2>2, <3>1, <3>2 DEF Starters
  <2>9. StopReachesItsTask'
    BY <2>2, <2>3, <2>6 DEF StopReachesItsTask, At
  <2> QED
    BY <2>4, <2>5, <2>8, <2>9 DEF DeskInv
<1>2. ASSUME NEW c \in Clients, Launch(c) PROVE DeskInv'
  <2>0. Begins(client[c]) /\ client[c].task \in Tasks /\ worker[client[c].task] = "accepted"
    BY <1>2, CallerFields
    DEF Launch, At, DeskInv, Starters, Begins, StartSteps, Locals, Local, HasTask
  <2>1. /\ \A t \in Tasks : worker'[t] = IF t = client[c].task THEN "ready" ELSE worker[t]
        /\ UNCHANGED <<busy, current, desk, platform, task, nextTask>>
    BY <1>2, <2>0 DEF Launch, taskVars
  <2>2. /\ Alone(c) /\ client'[c].pc = "started" /\ client'[c].task = client[c].task
    BY <1>2, LaunchLeads
  <2>3. \A t \in Tasks : (OnDesk(t)' <=> OnDesk(t)) /\ (worker'[t] = "new" <=> worker[t] = "new")
    BY <2>0, <2>1 DEF OnDesk
  <2>4. DeskHolder' /\ Numbered'
    BY <2>1, <2>3 DEF DeskInv, DeskHolder, Numbered
  <2>5. \A d \in Clients : client'[d].task = client[d].task /\ client[d].task \in Tasks \cup {None}
    BY <2>2, CallerFields DEF Alone
  <2>6. \A d \in Clients : ~Begins(client'[d])
    <3> SUFFICES ASSUME NEW d \in Clients, Begins(client'[d]) PROVE FALSE
      OBVIOUS
    <3>1. d # c
      BY <2>2 DEF Begins, StartSteps
    <3>2. Begins(client[d])
      BY <2>2, <3>1 DEF Alone
    <3> QED
      BY <2>0, <3>1, <3>2 DEF DeskInv, Starters
  <2>7. Starters'
    <3>1. \A d \in Clients : client'[d].task # None => worker'[client'[d].task] # "new"
      <4> SUFFICES ASSUME NEW d \in Clients, client'[d].task # None
                   PROVE  worker'[client'[d].task] # "new"
        OBVIOUS
      <4>1. client'[d].task = client[d].task /\ client[d].task \in Tasks
        BY <2>5
      <4>2. worker[client[d].task] # "new"
        BY <4>1, TasksAreSome DEF DeskInv, Starters
      <4> QED
        BY <2>3, <4>1, <4>2
    <3> QED
      BY <2>6, <3>1 DEF Starters
  <2>8. StopReachesItsTask'
    BY <2>1, <2>2, <2>3, <2>5 DEF Alone, DeskInv, StopReachesItsTask, At
  <2> QED
    BY <2>4, <2>7, <2>8 DEF DeskInv
<1>3. ASSUME NEW c \in Clients, FailStart(c) PROVE DeskInv'
  <2>0. Begins(client[c]) /\ client[c].task \in Tasks /\ worker[client[c].task] = "accepted"
    BY <1>3, CallerFields
    DEF FailStart, At, DeskInv, Starters, Begins, StartSteps, Locals, Local, HasTask
  <2>1. /\ \A t \in Tasks : worker'[t] = IF t = client[c].task THEN "dropped" ELSE worker[t]
        /\ UNCHANGED <<platform, task, nextTask>>
        /\ ~busy' /\ current' = None /\ desk' = None
    BY <1>3, <2>0 DEF FailStart
  <2>2. Alone(c) /\ client'[c] = AtRest
    BY <1>3, ReturnLeads DEF FailStart, CallersTyped
  <2>3. \A t \in Tasks : ~OnDesk(t)' /\ (worker'[t] = "new" <=> worker[t] = "new")
    BY <2>0, <2>1 DEF OnDesk, DeskInv, DeskHolder
  <2>4. DeskHolder' /\ Numbered'
    BY <1>0, <2>1, <2>3 DEF DeskInv, DeskHolder, Numbered
  <2>5. \A d \in Clients : d # c => /\ client'[d] = client[d] /\ ~Begins(client[d])
                                    /\ client[d].task \in Tasks \cup {None}
    BY <2>0, <2>2, CallerFields DEF Alone, DeskInv, Starters
  <2>6. Starters'
    <3>1. \A d \in Clients : client'[d].task # None => worker'[client'[d].task] # "new"
      BY <2>2, <2>3, <2>5, RestIsTyped DEF DeskInv, Starters
    <3>2. \A d \in Clients : ~Begins(client'[d])
      BY <2>2, <2>5, RestIsTyped DEF Begins
    <3> QED
      BY <3>1, <3>2 DEF Starters
  <2>7. StopReachesItsTask'
    BY <2>2, <2>3, <2>5, RestIsTyped DEF StopReachesItsTask, At
  <2> QED
    BY <2>4, <2>6, <2>7 DEF DeskInv
<1>4. ASSUME NEW c \in Clients, NEW p \in Platforms, AskPlatform(c, p) PROVE DeskInv'
  <2>0. current = None /\ \A t \in Tasks : ~OnDesk(t)
    BY <1>0, <1>4 DEF AskPlatform, DeskInv, DeskHolder
  <2>1. UNCHANGED <<busy, current, desk, worker, task, nextTask>>
    BY <1>4 DEF AskPlatform, taskVars, workVars
  <2>2. /\ Alone(c) /\ client'[c].pc = "switching" /\ client'[c].task = client[c].task
    BY <1>4, GotoLeads DEF AskPlatform, CallersTyped, ClientSteps
  <2>4. DeskHolder' /\ Numbered'
    BY <2>0, <2>1 DEF DeskInv, DeskHolder, Numbered, OnDesk
  <2>5. \A d \in Clients : client'[d].task = client[d].task /\ client[d].task \in Tasks \cup {None}
    BY <2>2, CallerFields DEF Alone
  <2>6. \A d \in Clients : Begins(client'[d]) => Begins(client[d])
    BY <2>2 DEF Alone, Begins, StartSteps
  <2>7. Starters'
    BY <2>1, <2>5, <2>6 DEF DeskInv, Starters
  <2>8. StopReachesItsTask'
    BY <2>0, <2>1, <2>5 DEF StopReachesItsTask, At, OnDesk
  <2> QED
    BY <2>4, <2>7, <2>8 DEF DeskInv
<1>5. ASSUME NEW t \in Tasks, TakeLease(t) PROVE DeskInv'
  <2>1. /\ \A u \in Tasks : worker'[u] = IF u = t THEN "running" ELSE worker[u]
        /\ worker[t] = "ready"
        /\ UNCHANGED <<busy, current, desk, platform, task, nextTask, client>>
    BY <1>5 DEF TakeLease, taskVars
  <2> QED
    BY <2>1, WorkKeepsDesk DEF WorkerSteps
<1>6. ASSUME NEW t \in Tasks, FindLeaseHeld(t) PROVE DeskInv'
  <2>1. /\ \A u \in Tasks : worker'[u] = IF u = t THEN "ran" ELSE worker[u]
        /\ worker[t] = "ready"
        /\ UNCHANGED <<busy, current, desk, platform, task, nextTask, client>>
    BY <1>6 DEF FindLeaseHeld, taskVars
  <2> QED
    BY <2>1, WorkKeepsDesk DEF WorkerSteps
<1>7. ASSUME NEW t \in Tasks, EndRun(t) PROVE DeskInv'
  <2>1. /\ \A u \in Tasks : worker'[u] = IF u = t THEN "ran" ELSE worker[u]
        /\ worker[t] = "running"
        /\ UNCHANGED <<busy, current, desk, platform, task, nextTask, client>>
    BY <1>7 DEF EndRun, taskVars
  <2> QED
    BY <2>1, WorkKeepsDesk DEF WorkerSteps
<1>8. ASSUME NEW t \in Tasks, Record(t) PROVE DeskInv'
  <2>1. /\ \A u \in Tasks : worker'[u] = IF u = t THEN "recorded" ELSE worker[u]
        /\ worker[t] = "ran"
        /\ UNCHANGED <<busy, current, desk, platform, task, nextTask, client>>
    BY <1>8 DEF Record, taskVars
  <2> QED
    BY <2>1, WorkKeepsDesk DEF WorkerSteps
<1>9. ASSUME NEW t \in Tasks, Announce(t) PROVE DeskInv'
  <2>1. /\ \A u \in Tasks : worker'[u] = IF u = t THEN "announced" ELSE worker[u]
        /\ worker[t] = "finished"
        /\ UNCHANGED <<busy, current, desk, platform, task, nextTask, client>>
    BY <1>9 DEF Announce, taskVars
  <2> QED
    BY <2>1, WorkKeepsDesk DEF WorkerSteps
<1>10. ASSUME NEW t \in Tasks, DropThread(t) PROVE DeskInv'
  <2>1. /\ \A u \in Tasks : worker'[u] = IF u = t THEN "dead" ELSE worker[u]
        /\ worker[t] = "announced"
        /\ UNCHANGED <<busy, current, desk, platform, task, nextTask, client>>
    BY <1>10 DEF DropThread, taskVars
  <2> QED
    BY <2>1, WorkKeepsDesk DEF WorkerSteps
<1>11. ASSUME NEW t \in Tasks, Finish(t) PROVE DeskInv'
  <2>1. /\ \A u \in Tasks : worker'[u] = IF u = t THEN "finished" ELSE worker[u]
        /\ worker[t] = "recorded"
        /\ UNCHANGED <<platform, task, nextTask, client>>
        /\ ~busy' /\ current' = None /\ desk' = None
    BY <1>11 DEF Finish
  <2>2. \A u \in Tasks : ~OnDesk(u)' /\ (worker'[u] = "new" <=> worker[u] = "new")
    BY <2>1 DEF OnDesk, DeskInv, DeskHolder
  <2>3. DeskHolder' /\ Numbered'
    BY <1>0, <2>1, <2>2 DEF DeskInv, DeskHolder, Numbered
  <2>4. \A d \in Clients : client[d].task \in Tasks \cup {None} /\ client'[d] = client[d]
    BY <2>1, CallerFields
  <2>5. \A d \in Clients : Begins(client[d]) => client[d].task # t
    BY <2>1 DEF DeskInv, Starters, Begins
  <2>6. Starters'
    BY <2>1, <2>2, <2>4, <2>5 DEF DeskInv, Starters, Begins
  <2>7. StopReachesItsTask'
    BY <2>2, <2>4 DEF StopReachesItsTask, At
  <2> QED
    BY <2>3, <2>6, <2>7 DEF DeskInv
<1>12. ASSUME NEW c \in Clients, Quiet(c) PROVE DeskInv'
  BY <1>12, QuietKeepsDesk
<1>13. CASE UNCHANGED vars
  <2>1. UNCHANGED <<busy, current, desk, platform, worker, task, nextTask, client>>
    BY <1>13 DEF vars, taskVars, workVars
  <2> QED
    BY <2>1 DEF DeskInv, DeskHolder, Numbered, Starters, StopReachesItsTask, OnDesk, At
<1>14. \A c \in Clients : Call(c) \/ Proceed(c) =>
         \/ Quiet(c) \/ Launch(c) \/ FailStart(c)
         \/ \E kind \in Kinds : Reserve(c, kind)
         \/ \E p \in Platforms : AskPlatform(c, p)
  BY QuietSteps DEF Call, Proceed
<1> QED
  BY <1>1, <1>2, <1>3, <1>4, <1>5, <1>6, <1>7, <1>8, <1>9, <1>10, <1>11, <1>12, <1>13, <1>14
  DEF Next, Work

LEMMA AlwaysDesk == Spec => [](TypeInv /\ DeskInv)
<1>1. Init => TypeInv /\ DeskInv
  BY InitTypeInv, InitDeskInv
<1>2. TypeInv /\ DeskInv /\ [Next]_vars => TypeInv' /\ DeskInv'
  BY StepTypeInv, StepDeskInv
<1> QED
  BY <1>1, <1>2, PTL DEF Spec

\* One background task at a time, whatever threads call the service: busy
\* exactly while one is on the desk, and it counts for the platform shown.
THEOREM OneTask == Spec => []OneTaskOnDesk
<1>1. TypeInv /\ DeskInv => OneTaskOnDesk
  <2> SUFFICES ASSUME TypeInv, DeskInv PROVE OneTaskOnDesk
    OBVIOUS
  <2>1. \A t \in Tasks : t # None
    BY ServiceAssumption DEF Tasks
  <2>2. busy <=> \E t \in Tasks : OnDesk(t)
    BY <2>1 DEF TypeInv, TypeOK, DeskInv, DeskHolder
  <2>3. \A t \in Tasks : OnDesk(t) => current = t /\ task[t].home = platform
    BY <2>1 DEF DeskInv, DeskHolder
  <2> QED
    BY <2>2, <2>3 DEF OneTaskOnDesk
<1> QED
  BY AlwaysDesk, <1>1, PTL

\* A stop request goes to the platform of the task it was made for while that
\* task is on the desk.
THEOREM StopReaches == Spec => []StopReachesItsTask
<1>1. DeskInv => StopReachesItsTask
  BY DEF DeskInv
<1> QED
  BY AlwaysDesk, <1>1, PTL

-----------------------------------------------------------------------------
(* The workspace lease *)

LEMMA HoldersApart ==
  /\ None \notin Clients \cup Tasks
  /\ \A t \in Tasks, c \in Clients : t # c
  BY ServiceAssumption DEF Tasks

\* Every step keeps the lease with its holder.
LEMMA StepHolding ==
  ASSUME TypeInv, DeskInv, LeaseHasItsHolder, [Next]_vars
  PROVE  LeaseHasItsHolder'
<1>1. ASSUME NEW c \in Clients, AskStart(c) PROVE LeaseHasItsHolder'
  BY <1>1, AskStartLeads, RestIsTyped
  DEF AskStart, At, TypeInv, TypeOK, CallersTyped, ClientSteps, Alone, taskVars, workVars,
      sessionVars, LeaseHasItsHolder
<1>2. ASSUME NEW c \in Clients, AskWait(c) PROVE LeaseHasItsHolder'
  <2>1. Quiet(c)
    BY <1>2, QuietSteps
  <2>2. At(c, "started") /\ UNCHANGED <<lease, worker>>
    BY <1>2 DEF AskWait, workVars
  <2>3. client'[c].pc \notin {"choosing", "picking"}
    BY <1>2, GotoLeads, ReturnLeads, RestIsTyped, TakeJoinLeads
    DEF AskWait, TakeJoin, TypeInv, TypeOK, CallersTyped, ClientSteps
  <2> QED
    BY <2>1, <2>2, <2>3 DEF At, Quiet, Alone, LeaseHasItsHolder
<1>3. ASSUME NEW c \in Clients, AskStop(c) PROVE LeaseHasItsHolder'
  BY <1>3, AskStopLeads, RestIsTyped
  DEF AskStop, At, TypeInv, TypeOK, CallersTyped, ClientSteps, Alone, taskVars, workVars,
      sessionVars, LeaseHasItsHolder
<1>4. ASSUME NEW c \in Clients, AskSession(c) PROVE LeaseHasItsHolder'
  BY <1>4, GotoLeads, RestIsTyped, HoldersApart
  DEF AskSession, At, TypeInv, TypeOK, CallersTyped, ClientSteps, Alone, taskVars, workVars,
      sessionVars, LeaseHasItsHolder
<1>5. ASSUME NEW c \in Clients, TurnAway(c) PROVE LeaseHasItsHolder'
  BY <1>5, ReturnLeads, RestIsTyped
  DEF TurnAway, At, TypeInv, TypeOK, CallersTyped, ClientSteps, Alone, taskVars, workVars,
      sessionVars, LeaseHasItsHolder
<1>6. ASSUME NEW c \in Clients, KeepSession(c) PROVE LeaseHasItsHolder'
  <2>1. Alone(c) /\ client'[c].pc = "adopting"
    BY <1>6, KeepSessionLeads
  <2>2. At(c, "reserved") /\ UNCHANGED <<lease, worker>>
    BY <1>6 DEF KeepSession, workVars, sessionVars
  <2> QED
    BY <2>1, <2>2 DEF At, Alone, LeaseHasItsHolder
<1>7. ASSUME NEW c \in Clients, OpenLease(c) PROVE LeaseHasItsHolder'
  BY <1>7, GotoLeads, RestIsTyped, HoldersApart
  DEF OpenLease, At, TypeInv, TypeOK, CallersTyped, ClientSteps, Alone, taskVars, workVars,
      sessionVars, LeaseHasItsHolder
<1>8. ASSUME NEW c \in Clients, ChooseSession(c) PROVE LeaseHasItsHolder'
  <2>1. CASE \E s \in FoldersOf(client[c].platform) : TakeSession(c, "adopting", s)
    <3>1. /\ Alone(c) /\ client'[c].pc = "adopting"
      BY <2>1, TakeSessionLeads DEF FoldersOf, TypeInv, TypeOK, CallersTyped, ClientSteps
    <3> QED
      BY <1>8, <3>1, HoldersApart DEF ChooseSession, At, Alone, workVars, LeaseHasItsHolder
  <2>2. CASE Goto(c, "failing")
    <3>1. Alone(c) /\ client'[c].pc \in {"failing", "idle"}
      BY <2>2, GotoLeads, ReturnLeads, RestIsTyped DEF TypeInv, TypeOK, CallersTyped, ClientSteps
    <3> QED
      BY <1>8, <3>1, HoldersApart DEF ChooseSession, At, Alone, workVars, LeaseHasItsHolder
  <2> QED
    BY <1>8, <2>1, <2>2 DEF ChooseSession, TakeSession
<1>9. ASSUME NEW c \in Clients, Register(c) PROVE LeaseHasItsHolder'
  BY <1>9, GotoLeads, ReturnLeads, RestIsTyped
  DEF Register, Refused, At, TypeInv, TypeOK, CallersTyped, ClientSteps, Alone, taskVars,
      workVars, sessionVars, LeaseHasItsHolder
<1>10. ASSUME NEW c \in Clients, ShowSession(c) PROVE LeaseHasItsHolder'
  BY <1>10, GotoLeads, RestIsTyped
  DEF ShowSession, At, TypeInv, TypeOK, CallersTyped, ClientSteps, Alone, taskVars, workVars,
      sessionVars, LeaseHasItsHolder
<1>11. ASSUME NEW c \in Clients, SteerRunner(c) PROVE LeaseHasItsHolder'
  BY <1>11, GotoLeads, ReturnLeads, RestIsTyped
  DEF SteerRunner, At, TypeInv, TypeOK, CallersTyped, ClientSteps, Alone, taskVars, workVars,
      sessionVars, LeaseHasItsHolder
<1>12. ASSUME NEW c \in Clients, ClearStop(c) PROVE LeaseHasItsHolder'
  BY <1>12, GotoLeads, RestIsTyped
  DEF ClearStop, At, TypeInv, TypeOK, CallersTyped, ClientSteps, Alone, taskVars, workVars,
      sessionVars, LeaseHasItsHolder
<1>13. ASSUME NEW c \in Clients, StoreThread(c) PROVE LeaseHasItsHolder'
  BY <1>13, GotoLeads, RestIsTyped
  DEF StoreThread, At, TypeInv, TypeOK, CallersTyped, ClientSteps, Alone, taskVars, workVars,
      sessionVars, LeaseHasItsHolder
<1>14. ASSUME NEW c \in Clients, Launch(c) PROVE LeaseHasItsHolder'
  <2>1. Begins(client[c])
    BY <1>14 DEF Launch, At, Begins, StartSteps, TypeInv, Locals, Local, HasTask
  <2>2. worker[client[c].task] = "accepted"
    BY <2>1 DEF DeskInv, Starters
  <2> QED
    BY <1>14, <2>2, LaunchLeads, RestIsTyped
    DEF Launch, At, TypeInv, TypeOK, CallersTyped, Alone, taskVars, workVars, sessionVars,
        LeaseHasItsHolder
<1>15. ASSUME NEW c \in Clients, FailStart(c) PROVE LeaseHasItsHolder'
  <2>1. Begins(client[c])
    BY <1>15 DEF FailStart, At, Begins, StartSteps, TypeInv, Locals, Local, HasTask
  <2>2. worker[client[c].task] = "accepted"
    BY <2>1 DEF DeskInv, Starters
  <2> QED
    BY <1>15, <2>2, ReturnLeads, RestIsTyped
    DEF FailStart, At, TypeInv, TypeOK, CallersTyped, Alone, taskVars, workVars, sessionVars,
        LeaseHasItsHolder
<1>16. ASSUME NEW c \in Clients, Joined(c) PROVE LeaseHasItsHolder'
  BY <1>16, GotoLeads, RestIsTyped
  DEF Joined, At, TypeInv, TypeOK, CallersTyped, ClientSteps, Alone, taskVars, workVars,
      sessionVars, LeaseHasItsHolder
<1>17. ASSUME NEW c \in Clients, Leave(c) PROVE LeaseHasItsHolder'
  BY <1>17, ReturnLeads, RestIsTyped
  DEF Leave, At, TypeInv, TypeOK, CallersTyped, ClientSteps, Alone, taskVars, workVars,
      sessionVars, LeaseHasItsHolder
<1>18. ASSUME NEW c \in Clients, Aim(c) PROVE LeaseHasItsHolder'
  BY <1>18, AimLeads, RestIsTyped
  DEF Aim, At, TypeInv, TypeOK, CallersTyped, ClientSteps, Alone, taskVars, workVars, sessionVars,
      LeaseHasItsHolder
<1>19. ASSUME NEW c \in Clients, SendStop(c) PROVE LeaseHasItsHolder'
  BY <1>19, ReturnLeads, RestIsTyped
  DEF SendStop, At, TypeInv, TypeOK, CallersTyped, ClientSteps, Alone, taskVars, workVars,
      sessionVars, LeaseHasItsHolder
<1>20. ASSUME NEW c \in Clients, PickSession(c) PROVE LeaseHasItsHolder'
  <2>1. CASE \E s \in FoldersOf(platform) : TakeSession(c, "placing", s)
    <3>1. /\ Alone(c) /\ client'[c].pc = "placing"
      BY <2>1, TakeSessionLeads DEF FoldersOf, TypeInv, TypeOK, CallersTyped, ClientSteps
    <3> QED
      BY <1>20, <3>1, HoldersApart DEF PickSession, At, Alone, workVars, LeaseHasItsHolder
  <2>2. CASE Return(c)
    <3>1. Alone(c) /\ client'[c].pc \in {"failing", "idle"}
      BY <2>2, GotoLeads, ReturnLeads, RestIsTyped DEF TypeInv, TypeOK, CallersTyped, ClientSteps
    <3> QED
      BY <1>20, <3>1, HoldersApart DEF PickSession, At, Alone, workVars, LeaseHasItsHolder
  <2> QED
    BY <1>20, <2>1, <2>2 DEF PickSession, TakeSession
<1>21. ASSUME NEW c \in Clients, PlaceSession(c) PROVE LeaseHasItsHolder'
  BY <1>21, PlaceSessionLeads, RestIsTyped
  DEF PlaceSession, At, TypeInv, TypeOK, CallersTyped, ClientSteps, Alone, taskVars, workVars,
      sessionVars, LeaseHasItsHolder
<1>22. ASSUME NEW c \in Clients, ReadView(c) PROVE LeaseHasItsHolder'
  <2>1. Quiet(c)
    BY <1>22, QuietSteps
  <2>2. At(c, "switching") /\ UNCHANGED <<lease, worker>>
    BY <1>22 DEF ReadView, workVars
  <2>3. client'[c].pc \notin {"choosing", "picking"}
    BY <1>22, GotoLeads, ReturnLeads, RestIsTyped, TakeSessionLeads
    DEF ReadView, TakeSession, TypeInv, TypeOK, CallersTyped, ClientSteps
  <2> QED
    BY <2>1, <2>2, <2>3 DEF At, Quiet, Alone, LeaseHasItsHolder
<1>23. ASSUME NEW c \in Clients, MoveRunner(c) PROVE LeaseHasItsHolder'
  BY <1>23, ReturnLeads, RestIsTyped
  DEF MoveRunner, At, TypeInv, TypeOK, CallersTyped, ClientSteps, Alone, taskVars, workVars,
      sessionVars, LeaseHasItsHolder
<1>24. ASSUME NEW c \in Clients, NEW kind \in Kinds, Reserve(c, kind) PROVE LeaseHasItsHolder'
  <2>1. worker[nextTask] = "new" /\ nextTask \in Tasks
    BY <1>24, ServiceAssumption DEF Reserve, DeskInv, Numbered, TypeInv, TypeOK, Tasks
  <2> QED
    BY <1>24, <2>1, ReserveLeads
    DEF Reserve, At, TypeInv, TypeOK, Alone, taskVars, workVars, sessionVars, LeaseHasItsHolder
<1>25. ASSUME NEW c \in Clients, NEW p \in Platforms, AskPlatform(c, p) PROVE LeaseHasItsHolder'
  BY <1>25, GotoLeads, RestIsTyped
  DEF AskPlatform, At, TypeInv, TypeOK, CallersTyped, ClientSteps, Alone, taskVars, workVars,
      sessionVars, LeaseHasItsHolder
<1>26. ASSUME NEW t \in Tasks, TakeLease(t) PROVE LeaseHasItsHolder'
  <2>1. /\ \A u \in Tasks : worker'[u] = IF u = t THEN "running" ELSE worker[u]
        /\ lease' = t /\ UNCHANGED client
        /\ lease = None
    BY <1>26 DEF TakeLease, TypeInv, TypeOK, LeaseHasItsHolder
  <2> QED
    BY <2>1, HoldersApart DEF LeaseHasItsHolder
<1>27. ASSUME NEW t \in Tasks, FindLeaseHeld(t) PROVE LeaseHasItsHolder'
  BY <1>27, HoldersApart DEF FindLeaseHeld, taskVars, workVars, sessionVars, LeaseHasItsHolder
<1>28. ASSUME NEW t \in Tasks, EndRun(t) PROVE LeaseHasItsHolder'
  <2>1. /\ \A u \in Tasks : worker'[u] = IF u = t THEN "ran" ELSE worker[u]
        /\ lease' = None /\ UNCHANGED client
        /\ lease = t
    BY <1>28 DEF EndRun, TypeInv, TypeOK, LeaseHasItsHolder
  <2> QED
    BY <2>1, HoldersApart DEF LeaseHasItsHolder
<1>29. ASSUME NEW t \in Tasks, Record(t) PROVE LeaseHasItsHolder'
  BY <1>29, HoldersApart DEF Record, taskVars, workVars, sessionVars, LeaseHasItsHolder
<1>30. ASSUME NEW t \in Tasks, Finish(t) PROVE LeaseHasItsHolder'
  BY <1>30, HoldersApart DEF Finish, taskVars, workVars, sessionVars, LeaseHasItsHolder
<1>31. ASSUME NEW t \in Tasks, Announce(t) PROVE LeaseHasItsHolder'
  BY <1>31, HoldersApart DEF Announce, taskVars, workVars, sessionVars, LeaseHasItsHolder
<1>32. ASSUME NEW t \in Tasks, DropThread(t) PROVE LeaseHasItsHolder'
  BY <1>32, HoldersApart DEF DropThread, taskVars, workVars, sessionVars, LeaseHasItsHolder
<1>33. CASE UNCHANGED vars
  BY <1>33 DEF vars, workVars, LeaseHasItsHolder
<1> QED
  BY <1>1, <1>2, <1>3, <1>4, <1>5, <1>6, <1>7, <1>8, <1>9, <1>10, <1>11, <1>12, <1>13, <1>14,
     <1>15, <1>16, <1>17, <1>18, <1>19, <1>20, <1>21, <1>22, <1>23, <1>24, <1>25, <1>26, <1>27,
     <1>28, <1>29, <1>30, <1>31, <1>32, <1>33 DEF Next, Call, Proceed, Work

\* The lease is held by the task that works or the caller that chooses a
\* session, and by nobody else: it is never left behind.
THEOREM LeaseHeld == Spec => []LeaseHasItsHolder
<1>1. Init => LeaseHasItsHolder
  BY HoldersApart, RestIsTyped DEF Init, LeaseHasItsHolder
<1>2. TypeInv /\ DeskInv /\ LeaseHasItsHolder /\ [Next]_vars
        => LeaseHasItsHolder'
  BY StepHolding
<1> QED
  BY AlwaysDesk, <1>1, <1>2, PTL DEF Spec

-----------------------------------------------------------------------------
(* Session folders *)

\* A session about to be shown has passed the registry of its platform.
FolderInv ==
  /\ SessionsStayHome
  /\ \A c \in Clients :
       client[c].pc = "showing" => root[client[c].session] = client[c].platform

\* Every step keeps the folders at home.
LEMMA StepFolderInv ==
  ASSUME TypeInv, FolderInv, [Next]_vars
  PROVE  FolderInv'
<1>1. ASSUME NEW c \in Clients, AskStart(c) PROVE FolderInv'
  BY <1>1, AskStartLeads, RestIsTyped
  DEF AskStart, At, TypeInv, TypeOK, CallersTyped, ClientSteps, Alone, taskVars, workVars,
      sessionVars, FolderInv, SessionsStayHome
<1>2. ASSUME NEW c \in Clients, AskWait(c) PROVE FolderInv'
  <2>1. Alone(c)
    BY <1>2, QuietSteps DEF Quiet
  <2>2. UNCHANGED <<view, platform, registry, bound>>
    BY <1>2 DEF AskWait, sessionVars
  <2>3. client'[c].pc # "showing"
    BY <1>2, GotoLeads, ReturnLeads, RestIsTyped, TakeJoinLeads
    DEF AskWait, TakeJoin, TypeInv, TypeOK, CallersTyped, ClientSteps
  <2> QED
    BY <2>1, <2>2, <2>3 DEF Alone, FolderInv, SessionsStayHome
<1>3. ASSUME NEW c \in Clients, AskStop(c) PROVE FolderInv'
  BY <1>3, AskStopLeads, RestIsTyped
  DEF AskStop, At, TypeInv, TypeOK, CallersTyped, ClientSteps, Alone, taskVars, workVars,
      sessionVars, FolderInv, SessionsStayHome
<1>4. ASSUME NEW c \in Clients, AskSession(c) PROVE FolderInv'
  BY <1>4, GotoLeads, RestIsTyped
  DEF AskSession, At, TypeInv, TypeOK, CallersTyped, ClientSteps, Alone, taskVars, workVars,
      sessionVars, FolderInv, SessionsStayHome
<1>5. ASSUME NEW c \in Clients, TurnAway(c) PROVE FolderInv'
  BY <1>5, ReturnLeads, RestIsTyped
  DEF TurnAway, At, TypeInv, TypeOK, CallersTyped, ClientSteps, Alone, taskVars, workVars,
      sessionVars, FolderInv, SessionsStayHome
<1>6. ASSUME NEW c \in Clients, KeepSession(c) PROVE FolderInv'
  <2>1. Alone(c) /\ client'[c].pc = "adopting"
    BY <1>6, KeepSessionLeads
  <2>2. At(c, "reserved") /\ UNCHANGED <<view, platform, registry, bound>>
    BY <1>6 DEF KeepSession, workVars, sessionVars
  <2> QED
    BY <2>1, <2>2 DEF At, Alone, FolderInv, SessionsStayHome
<1>7. ASSUME NEW c \in Clients, OpenLease(c) PROVE FolderInv'
  BY <1>7, GotoLeads, RestIsTyped
  DEF OpenLease, At, TypeInv, TypeOK, CallersTyped, ClientSteps, Alone, taskVars, workVars,
      sessionVars, FolderInv, SessionsStayHome
<1>8. ASSUME NEW c \in Clients, ChooseSession(c) PROVE FolderInv'
  <2>1. CASE \E s \in FoldersOf(client[c].platform) :
                 Select(client[c].platform, s) /\ TakeSession(c, "adopting", s)
    <3>1. PICK s \in FoldersOf(client[c].platform) :
            Select(client[c].platform, s) /\ TakeSession(c, "adopting", s)
      BY <2>1
    <3>2. /\ Alone(c) /\ client'[c].pc = "adopting"
      BY <3>1, TakeSessionLeads DEF FoldersOf, TypeInv, TypeOK, CallersTyped, ClientSteps
    <3>3. \A p \in Platforms : bound'[p] # None => root[bound'[p]] = p
      BY <3>1 DEF Select, FoldersOf, TypeInv, TypeOK, FolderInv, SessionsStayHome
    <3> QED
      BY <1>8, <3>2, <3>3 DEF ChooseSession, Alone, FolderInv, SessionsStayHome
  <2>2. CASE Goto(c, "failing") /\ UNCHANGED bound
    <3>1. Alone(c) /\ client'[c].pc \in {"failing", "idle"}
      BY <2>2, GotoLeads, ReturnLeads, RestIsTyped DEF TypeInv, TypeOK, CallersTyped, ClientSteps
    <3> QED
      BY <1>8, <2>2, <3>1 DEF ChooseSession, Alone, FolderInv, SessionsStayHome
  <2> QED
    BY <1>8, <2>1, <2>2 DEF ChooseSession, TakeSession
<1>9. ASSUME NEW c \in Clients, Register(c) PROVE FolderInv'
  <2> DEFINE p == client[c].platform
             s == client[c].session
  <2>1. Alone(c) /\ client'[c].platform \in {p, None} /\ client'[c].session \in {s, None}
    BY <1>9, GotoLeads, ReturnLeads, RestIsTyped
    DEF Register, Refused, AtRest, TypeInv, TypeOK, CallersTyped, ClientSteps
  <2>2. root[s] # p => UNCHANGED <<registry, bound>> /\ client'[c].pc # "showing"
    BY <1>9, GotoLeads, ReturnLeads, RestIsTyped
    DEF Register, Refused, TypeInv, TypeOK, CallersTyped, ClientSteps
  <2>3. client'[c].pc = "showing" => client'[c].platform = p /\ client'[c].session = s
    BY <1>9, GotoLeads, ReturnLeads, RestIsTyped
    DEF Register, Refused, TypeInv, TypeOK, CallersTyped, ClientSteps
  <2>4. \A q \in Platforms : registry'[q] \in {registry[q], s} /\ bound'[q] \in {bound[q], s}
    BY <1>9 DEF Register, TypeInv, TypeOK
  <2>6. \A q \in Platforms : registry'[q] = registry[q] \/ q = root[s]
    BY <1>9 DEF Register, TypeInv, TypeOK
  <2>7. \A q \in Platforms : bound'[q] = bound[q] \/ q = root[s]
    BY <1>9 DEF Register, TypeInv, TypeOK
  <2>5. UNCHANGED <<view, platform>>
    BY <1>9 DEF Register
  <2> QED
    <3>0. \A q \in Platforms : registry'[q] # None => root[registry'[q]] = q
      BY <2>4, <2>6 DEF FolderInv, SessionsStayHome
    <3>1. \A q \in Platforms : bound'[q] # None => root[bound'[q]] = q
      BY <2>4, <2>7 DEF FolderInv, SessionsStayHome
    <3>2. view # None => root[view] = platform
      BY DEF FolderInv, SessionsStayHome
    <3>3. \A d \in Clients :
            client'[d].pc = "showing" => root[client'[d].session] = client'[d].platform
      BY <2>1, <2>2, <2>3 DEF Alone, FolderInv, SessionsStayHome
    <3> QED
      BY <2>5, <3>0, <3>1, <3>2, <3>3 DEF FolderInv, SessionsStayHome
<1>10. ASSUME NEW c \in Clients, ShowSession(c) PROVE FolderInv'
  <2>1. Alone(c) /\ client'[c].pc = "steering"
    BY <1>10, GotoLeads DEF ShowSession, TypeInv, TypeOK, CallersTyped, ClientSteps
  <2> QED
    BY <1>10, <2>1 DEF ShowSession, At, Alone, FolderInv, SessionsStayHome
<1>11. ASSUME NEW c \in Clients, SteerRunner(c) PROVE FolderInv'
  <2>1. Alone(c) /\ client'[c].pc # "showing"
    BY <1>11, GotoLeads, ReturnLeads, RestIsTyped
    DEF SteerRunner, TypeInv, TypeOK, CallersTyped, ClientSteps
  <2>2. UNCHANGED <<view, platform, registry, bound>>
    BY <1>11 DEF SteerRunner
  <2> QED
    BY <2>1, <2>2 DEF Alone, FolderInv, SessionsStayHome
<1>12. ASSUME NEW c \in Clients, ClearStop(c) PROVE FolderInv'
  BY <1>12, GotoLeads, RestIsTyped
  DEF ClearStop, At, TypeInv, TypeOK, CallersTyped, ClientSteps, Alone, taskVars, workVars,
      sessionVars, FolderInv, SessionsStayHome
<1>13. ASSUME NEW c \in Clients, StoreThread(c) PROVE FolderInv'
  BY <1>13, GotoLeads, RestIsTyped
  DEF StoreThread, At, TypeInv, TypeOK, CallersTyped, ClientSteps, Alone, taskVars, workVars,
      sessionVars, FolderInv, SessionsStayHome
<1>14. ASSUME NEW c \in Clients, Launch(c) PROVE FolderInv'
  BY <1>14, LaunchLeads, RestIsTyped
  DEF Launch, At, TypeInv, TypeOK, CallersTyped, ClientSteps, Alone, taskVars, workVars,
      sessionVars, FolderInv, SessionsStayHome
<1>15. ASSUME NEW c \in Clients, FailStart(c) PROVE FolderInv'
  BY <1>15, ReturnLeads, RestIsTyped
  DEF FailStart, At, TypeInv, TypeOK, CallersTyped, ClientSteps, Alone, taskVars, workVars,
      sessionVars, FolderInv, SessionsStayHome
<1>16. ASSUME NEW c \in Clients, Joined(c) PROVE FolderInv'
  BY <1>16, GotoLeads, RestIsTyped
  DEF Joined, At, TypeInv, TypeOK, CallersTyped, ClientSteps, Alone, taskVars, workVars,
      sessionVars, FolderInv, SessionsStayHome
<1>17. ASSUME NEW c \in Clients, Leave(c) PROVE FolderInv'
  BY <1>17, ReturnLeads, RestIsTyped
  DEF Leave, At, TypeInv, TypeOK, CallersTyped, ClientSteps, Alone, taskVars, workVars,
      sessionVars, FolderInv, SessionsStayHome
<1>18. ASSUME NEW c \in Clients, Aim(c) PROVE FolderInv'
  BY <1>18, AimLeads, RestIsTyped
  DEF Aim, At, TypeInv, TypeOK, CallersTyped, ClientSteps, Alone, taskVars, workVars, sessionVars,
      FolderInv, SessionsStayHome
<1>19. ASSUME NEW c \in Clients, SendStop(c) PROVE FolderInv'
  BY <1>19, ReturnLeads, RestIsTyped
  DEF SendStop, At, TypeInv, TypeOK, CallersTyped, ClientSteps, Alone, taskVars, workVars,
      sessionVars, FolderInv, SessionsStayHome
<1>20. ASSUME NEW c \in Clients, PickSession(c) PROVE FolderInv'
  <2>1. CASE \E s \in FoldersOf(platform) :
                 Select(platform, s) /\ TakeSession(c, "placing", s)
    <3>1. PICK s \in FoldersOf(platform) :
            Select(platform, s) /\ TakeSession(c, "placing", s)
      BY <2>1
    <3>2. /\ Alone(c) /\ client'[c].pc = "placing"
      BY <3>1, TakeSessionLeads DEF FoldersOf, TypeInv, TypeOK, CallersTyped, ClientSteps
    <3>3. \A p \in Platforms : bound'[p] # None => root[bound'[p]] = p
      BY <3>1 DEF Select, FoldersOf, TypeInv, TypeOK, FolderInv, SessionsStayHome
    <3> QED
      BY <1>20, <3>2, <3>3 DEF PickSession, Alone, FolderInv, SessionsStayHome
  <2>2. CASE Return(c) /\ UNCHANGED bound
    <3>1. Alone(c) /\ client'[c].pc \in {"failing", "idle"}
      BY <2>2, GotoLeads, ReturnLeads, RestIsTyped DEF TypeInv, TypeOK, CallersTyped, ClientSteps
    <3> QED
      BY <1>20, <2>2, <3>1 DEF PickSession, Alone, FolderInv, SessionsStayHome
  <2> QED
    BY <1>20, <2>1, <2>2 DEF PickSession, TakeSession
<1>21. ASSUME NEW c \in Clients, PlaceSession(c) PROVE FolderInv'
  BY <1>21, PlaceSessionLeads, RestIsTyped
  DEF PlaceSession, At, TypeInv, TypeOK, CallersTyped, ClientSteps, Alone, taskVars, workVars,
      sessionVars, FolderInv, SessionsStayHome
<1>22. ASSUME NEW c \in Clients, ReadView(c) PROVE FolderInv'
  <2>1. Alone(c)
    BY <1>22, QuietSteps DEF Quiet
  <2>2. UNCHANGED <<view, platform, registry, bound>>
    BY <1>22 DEF ReadView, sessionVars
  <2>3. client'[c].pc # "showing"
    BY <1>22, GotoLeads, ReturnLeads, RestIsTyped, TakeSessionLeads
    DEF ReadView, TakeSession, TypeInv, TypeOK, CallersTyped, ClientSteps
  <2> QED
    BY <2>1, <2>2, <2>3 DEF Alone, FolderInv, SessionsStayHome
<1>23. ASSUME NEW c \in Clients, MoveRunner(c) PROVE FolderInv'
  <2>1. Alone(c) /\ client'[c].pc = "idle"
    BY <1>23, ReturnLeads, RestIsTyped DEF MoveRunner, TypeInv, TypeOK, CallersTyped
  <2>2. \A p \in Platforms : bound'[p] # None => root[bound'[p]] = p
    BY <1>23 DEF MoveRunner, TypeInv, TypeOK, FolderInv, SessionsStayHome
  <2> QED
    BY <1>23, <2>1, <2>2 DEF MoveRunner, Alone, FolderInv, SessionsStayHome
<1>24. ASSUME NEW c \in Clients, NEW kind \in Kinds, Reserve(c, kind) PROVE FolderInv'
  BY <1>24, ReserveLeads, RestIsTyped
  DEF Reserve, At, TypeInv, TypeOK, CallersTyped, ClientSteps, Alone, taskVars, workVars,
      sessionVars, FolderInv, SessionsStayHome
<1>25. ASSUME NEW c \in Clients, NEW p \in Platforms, AskPlatform(c, p) PROVE FolderInv'
  <2>1. Alone(c) /\ client'[c].pc = "switching"
    BY <1>25, GotoLeads DEF AskPlatform, TypeInv, TypeOK, CallersTyped, ClientSteps
  <2> QED
    BY <1>25, <2>1 DEF AskPlatform, Alone, FolderInv, SessionsStayHome
<1>26. ASSUME NEW t \in Tasks, TakeLease(t) PROVE FolderInv'
  BY <1>26 DEF TakeLease, sessionVars, FolderInv, SessionsStayHome
<1>27. ASSUME NEW t \in Tasks, FindLeaseHeld(t) PROVE FolderInv'
  BY <1>27 DEF FindLeaseHeld, sessionVars, FolderInv, SessionsStayHome
<1>28. ASSUME NEW t \in Tasks, EndRun(t) PROVE FolderInv'
  BY <1>28 DEF EndRun, sessionVars, FolderInv, SessionsStayHome
<1>29. ASSUME NEW t \in Tasks, Record(t) PROVE FolderInv'
  BY <1>29 DEF Record, sessionVars, FolderInv, SessionsStayHome
<1>30. ASSUME NEW t \in Tasks, Finish(t) PROVE FolderInv'
  BY <1>30 DEF Finish, sessionVars, FolderInv, SessionsStayHome
<1>31. ASSUME NEW t \in Tasks, Announce(t) PROVE FolderInv'
  BY <1>31 DEF Announce, sessionVars, FolderInv, SessionsStayHome
<1>32. ASSUME NEW t \in Tasks, DropThread(t) PROVE FolderInv'
  BY <1>32 DEF DropThread, sessionVars, FolderInv, SessionsStayHome
<1>33. CASE UNCHANGED vars
  BY <1>33 DEF vars, sessionVars, FolderInv, SessionsStayHome
<1> QED
  BY <1>1, <1>2, <1>3, <1>4, <1>5, <1>6, <1>7, <1>8, <1>9, <1>10, <1>11, <1>12, <1>13, <1>14,
     <1>15, <1>16, <1>17, <1>18, <1>19, <1>20, <1>21, <1>22, <1>23, <1>24, <1>25, <1>26, <1>27,
     <1>28, <1>29, <1>30, <1>31, <1>32, <1>33 DEF Next, Call, Proceed, Work

\* No folder crosses to another platform: not the one on display, none in the
\* registry, none an adapter is bound to.
THEOREM SessionsAtHome == Spec => []SessionsStayHome
<1>1. Init => FolderInv
  BY RestIsTyped DEF Init, FolderInv, SessionsStayHome
<1>2. TypeInv /\ FolderInv /\ [Next]_vars => FolderInv'
  BY StepFolderInv
<1>3. FolderInv => SessionsStayHome
  BY DEF FolderInv
<1> QED
  BY InitTypeInv, StepTypeInv, <1>1, <1>2, <1>3, PTL DEF Spec

-----------------------------------------------------------------------------
(* Outcomes *)

\* All other steps leave the tasks and the outcomes alone.
LEMMA OthersLeaveTasks ==
  /\ \A c \in Clients :
       (\/ AskStart(c) \/ AskWait(c) \/ AskStop(c) \/ AskSession(c)
        \/ TurnAway(c) \/ KeepSession(c) \/ OpenLease(c)
        \/ ChooseSession(c) \/ Register(c) \/ ShowSession(c) \/ SteerRunner(c)
        \/ ClearStop(c) \/ StoreThread(c) \/ Joined(c) \/ Leave(c)
        \/ Aim(c) \/ SendStop(c) \/ PickSession(c) \/ PlaceSession(c)
        \/ ReadView(c) \/ MoveRunner(c)
        \/ \E p \in Platforms : AskPlatform(c, p))
       => UNCHANGED <<outcome, worker, task>>
  /\ UNCHANGED vars => UNCHANGED <<outcome, worker, task>>
<1>1. ASSUME NEW c \in Clients,
             \/ AskStart(c) \/ AskWait(c) \/ AskStop(c) \/ AskSession(c)
             \/ TurnAway(c) \/ KeepSession(c) \/ OpenLease(c)
      PROVE  UNCHANGED <<outcome, worker, task>>
  BY <1>1 DEF workVars, AskStart, AskWait, AskStop, AskSession, TurnAway, KeepSession, OpenLease
<1>2. ASSUME NEW c \in Clients,
             \/ ChooseSession(c) \/ Register(c) \/ ShowSession(c) \/ SteerRunner(c)
             \/ ClearStop(c) \/ StoreThread(c) \/ Joined(c) \/ Leave(c)
      PROVE  UNCHANGED <<outcome, worker, task>>
  BY <1>2
  DEF workVars, ChooseSession, Register, ShowSession, SteerRunner, ClearStop, StoreThread, Joined,
      Leave
<1>3. ASSUME NEW c \in Clients,
             \/ Aim(c) \/ SendStop(c) \/ PickSession(c) \/ PlaceSession(c)
             \/ ReadView(c) \/ MoveRunner(c)
      PROVE  UNCHANGED <<outcome, worker, task>>
  BY <1>3 DEF workVars, Aim, SendStop, PickSession, PlaceSession, ReadView, MoveRunner
<1>4. ASSUME NEW c \in Clients, NEW p \in Platforms, AskPlatform(c, p)
      PROVE  UNCHANGED <<outcome, worker, task>>
  BY <1>4 DEF workVars, AskPlatform
<1>5. UNCHANGED vars => UNCHANGED <<outcome, worker, task>>
  BY DEF vars
<1> QED
  BY <1>1, <1>2, <1>3, <1>4, <1>5

\* Every step keeps outcomes fresh: only Record changes them, for the latest task.
LEMMA StepOutcome ==
  ASSUME TypeInv, DeskInv, NoStaleOutcome, [Next]_vars
  PROVE  NoStaleOutcome'
<1> DEFINE Over == {"recorded", "finished", "announced", "dead"}
<1> USE DEF TypeInv, TypeOK
<1>1. ASSUME NEW t \in Tasks, Record(t) PROVE NoStaleOutcome'
  <2> SUFFICES ASSUME NEW u \in Tasks, task'[u].kind = "typed", worker'[u] \in Over
               PROVE  outcome'[task'[u].home] \in u .. MaxTasks
    BY DEF NoStaleOutcome
  <2>1. worker[t] = "ran" /\ current = t /\ nextTask = t + 1 /\ task' = task
    BY <1>1, TasksAreSome DEF Record, DeskInv, DeskHolder, OnDesk
  <2>2. CASE u = t
    <3>1. outcome'[task[t].home] = t
      BY <1>1, <2>1, <2>2 DEF Record, LeavesOutcome
    <3> QED
      BY <2>1, <2>2, <3>1, ServiceAssumption DEF Tasks
  <2>3. CASE u # t
    <3>1. worker[u] \in Over
      BY <1>1, <2>3 DEF Record
    <3>2. outcome[task[u].home] \in u .. MaxTasks
      BY <2>1, <3>1 DEF NoStaleOutcome
    <3>3. u \in Nat /\ t \in u .. MaxTasks
      BY <2>1, <3>1, ServiceAssumption DEF DeskInv, Numbered, Tasks
    <3>4. outcome'[task[u].home] \in {t, outcome[task[u].home]}
      BY <1>1 DEF Record
    <3> QED
      BY <2>1, <3>2, <3>3, <3>4
  <2> QED
    BY <2>2, <2>3
<1>2. CASE /\ UNCHANGED outcome
           /\ \A t \in Tasks : worker'[t] \in Over =>
                worker[t] \in Over /\ task'[t] = task[t]
  BY <1>2 DEF NoStaleOutcome
<1>3. ASSUME NEW c \in Clients, NEW kind \in Kinds, Reserve(c, kind)
      PROVE  /\ UNCHANGED outcome
             /\ \A t \in Tasks : worker'[t] \in Over =>
                  worker[t] \in Over /\ task'[t] = task[t]
  BY <1>3 DEF Reserve
<1>4. ASSUME NEW c \in Clients, Launch(c) \/ FailStart(c)
      PROVE  /\ UNCHANGED outcome
             /\ \A t \in Tasks : worker'[t] \in Over =>
                  worker[t] \in Over /\ task'[t] = task[t]
  BY <1>4 DEF Launch, FailStart
<1>5. ASSUME NEW t \in Tasks,
             \/ TakeLease(t) \/ FindLeaseHeld(t) \/ EndRun(t)
             \/ Finish(t) \/ Announce(t) \/ DropThread(t)
      PROVE  /\ UNCHANGED outcome
             /\ \A u \in Tasks : worker'[u] \in Over =>
                  worker[u] \in Over /\ task'[u] = task[u]
  BY <1>5 DEF TakeLease, FindLeaseHeld, EndRun, Finish, Announce, DropThread
<1>6. UNCHANGED <<outcome, worker, task>>
      => /\ UNCHANGED outcome
         /\ \A u \in Tasks : worker'[u] \in Over =>
              worker[u] \in Over /\ task'[u] = task[u]
  OBVIOUS
<1> HIDE DEF Over
<1> QED
  BY <1>1, <1>2, <1>3, <1>4, <1>5, <1>6, OthersLeaveTasks DEF Next, Call, Proceed, Work

\* Once a typed task is over its platform shows its outcome or a later one.
THEOREM OutcomesAreFresh == Spec => []NoStaleOutcome
<1>1. Init => NoStaleOutcome
  BY DEF Init, NoStaleOutcome
<1>2. TypeInv /\ DeskInv /\ NoStaleOutcome /\ [Next]_vars => NoStaleOutcome'
  BY StepOutcome
<1> QED
  BY AlwaysDesk, <1>1, <1>2, PTL DEF Spec

-----------------------------------------------------------------------------
(* The service implements the task desk. *)

Phases == {"new", "accepted", "running", "ended", "told", "dropped"}

\* Every step is one of the task desk or changes no phase.
LEMMA StepDesk ==
  ASSUME TypeInv, DeskInv, [Next]_vars
  PROVE  [Desk!Next]_deskPhase
<1> USE DEF TypeInv, TypeOK
<1>1. ASSUME NEW t \in Tasks, NEW to \in WorkerSteps,
             worker' = [worker EXCEPT ![t] = to]
      PROVE  /\ to = "accepted" => deskPhase' = [deskPhase EXCEPT ![t] = "accepted"]
             /\ to \in {"ready", "running", "ran", "recorded"}
                  => deskPhase' = [deskPhase EXCEPT ![t] = "running"]
             /\ to = "finished" => deskPhase' = [deskPhase EXCEPT ![t] = "ended"]
             /\ to \in {"announced", "dead"} => deskPhase' = [deskPhase EXCEPT ![t] = "told"]
             /\ to = "dropped" => deskPhase' = [deskPhase EXCEPT ![t] = "dropped"]
  <2>1. \A u \in Tasks : worker'[u] = IF u = t THEN to ELSE worker[u]
    BY <1>1
  <2>2. \A u \in Tasks : u # t => deskPhase'[u] = deskPhase[u]
    BY <2>1 DEF deskPhase, WorkerSteps
  <2>3. /\ to = "accepted" => deskPhase'[t] = "accepted"
        /\ to \in {"ready", "running", "ran", "recorded"} => deskPhase'[t] = "running"
        /\ to = "finished" => deskPhase'[t] = "ended"
        /\ to \in {"announced", "dead"} => deskPhase'[t] = "told"
        /\ to = "dropped" => deskPhase'[t] = "dropped"
    BY <2>1 DEF deskPhase
  <2>4. deskPhase \in [Tasks -> Phases] /\ deskPhase' \in [Tasks -> Phases]
    BY <2>1 DEF deskPhase, WorkerSteps, Phases
  <2> QED
    BY <2>2, <2>3, <2>4
<1>2. deskPhase \in [Tasks -> Phases]
  BY DEF deskPhase, Phases, WorkerSteps
<1>3. ASSUME NEW c \in Clients, NEW kind \in Kinds, Reserve(c, kind)
      PROVE  Desk!Next
  <2>1. nextTask \in Tasks /\ worker[nextTask] = "new" /\ current = None
    BY <1>3, ServiceAssumption DEF Reserve, DeskInv, DeskHolder, Numbered, Tasks
  <2>2. Desk!OnDesk = {}
    <3>1. \A t \in Tasks : ~OnDesk(t)
      BY <2>1, TasksAreSome DEF DeskInv, DeskHolder
    <3>2. \A t \in Tasks : worker[t] \in {"new", "finished", "announced", "dead", "dropped"}
      BY <3>1 DEF OnDesk, WorkerSteps
    <3>3. \A t \in Tasks : deskPhase[t] \in {"new", "ended", "told", "dropped"}
      BY <3>2 DEF deskPhase
    <3> QED
      BY <3>3 DEF Desk!OnDesk
  <2>3. Desk!Move(nextTask, "new", "accepted")
    BY <1>1, <1>3, <2>1 DEF Reserve, Desk!Move, deskPhase, WorkerSteps
  <2> QED
    BY <2>1, <2>2, <2>3 DEF Desk!Next, Desk!Accept
<1>4. ASSUME NEW c \in Clients, Launch(c) \/ FailStart(c)
      PROVE  Desk!Next
  <2>0. Begins(client[c]) /\ client[c].task \in Tasks
    BY <1>4, CallerFields DEF Launch, FailStart, At, Begins, StartSteps, Locals, Local, HasTask
  <2>1. worker[client[c].task] = "accepted"
    BY <2>0 DEF DeskInv, Starters
  <2>2. CASE Launch(c)
    <3>1. Desk!Move(client[c].task, "accepted", "running")
      BY <1>1, <2>0, <2>1, <2>2 DEF Launch, Desk!Move, deskPhase, WorkerSteps
    <3> QED
      BY <2>0, <3>1 DEF Desk!Next, Desk!Launch
  <2>3. CASE FailStart(c)
    <3>1. Desk!Move(client[c].task, "accepted", "dropped")
      BY <1>1, <2>0, <2>1, <2>3 DEF FailStart, Desk!Move, deskPhase, WorkerSteps
    <3> QED
      BY <2>0, <3>1 DEF Desk!Next, Desk!Drop
  <2> QED
    BY <1>4, <2>2, <2>3
<1>5. ASSUME NEW t \in Tasks, TakeLease(t) \/ FindLeaseHeld(t) \/ EndRun(t) \/ Record(t)
      PROVE  UNCHANGED deskPhase
  <2>1. /\ worker[t] \in {"ready", "running", "ran"}
        /\ \E to \in {"running", "ran", "recorded"} : worker' = [worker EXCEPT ![t] = to]
    BY <1>5 DEF TakeLease, FindLeaseHeld, EndRun, Record
  <2>2. deskPhase[t] = "running"
    BY <2>1 DEF deskPhase
  <2>3. deskPhase' = [deskPhase EXCEPT ![t] = "running"]
    BY <1>1, <2>1 DEF WorkerSteps
  <2> QED
    BY <1>2, <2>2, <2>3
<1>6. ASSUME NEW t \in Tasks, Finish(t) PROVE Desk!Next
  <2>1. Desk!Move(t, "running", "ended")
    BY <1>1, <1>6 DEF Finish, Desk!Move, deskPhase, WorkerSteps
  <2> QED
    BY <2>1 DEF Desk!Next, Desk!End
<1>7. ASSUME NEW t \in Tasks, Announce(t) PROVE Desk!Next
  <2>1. Desk!Move(t, "ended", "told")
    BY <1>1, <1>7 DEF Announce, Desk!Move, deskPhase, WorkerSteps
  <2> QED
    BY <2>1 DEF Desk!Next, Desk!Tell
<1>8. ASSUME NEW t \in Tasks, DropThread(t) PROVE UNCHANGED deskPhase
  <2>1. worker[t] = "announced" /\ worker' = [worker EXCEPT ![t] = "dead"]
    BY <1>8 DEF DropThread
  <2>2. deskPhase[t] = "told"
    BY <2>1 DEF deskPhase
  <2>3. deskPhase' = [deskPhase EXCEPT ![t] = "told"]
    BY <1>1, <2>1 DEF WorkerSteps
  <2> QED
    BY <1>2, <2>2, <2>3
<1>9. UNCHANGED <<outcome, worker, task>> => UNCHANGED deskPhase
  BY DEF deskPhase
<1> QED
  BY <1>3, <1>4, <1>5, <1>6, <1>7, <1>8, <1>9, OthersLeaveTasks DEF Next, Call, Proceed, Work

\* Every step of the service is a step of the task desk, or changes nothing it
\* tells apart.
THEOREM Refinement == Spec => ImplementsDesk
<1>1. Init => Desk!Init
  BY DEF Init, Desk!Init, deskPhase
<1>2. TypeInv /\ DeskInv /\ [Next]_vars => [Desk!Next]_deskPhase
  BY StepDesk
<1> QED
  BY AlwaysDesk, <1>1, <1>2, PTL DEF Spec, ImplementsDesk, Desk!Spec

-----------------------------------------------------------------------------
(* Getting on: callers and tasks never turn back. *)

\* What a caller still has to do before it returns.
Left(step) ==
  CASE step = "asked" -> 12
    [] step \in {"picking", "reserved"} -> 11
    [] step \in {"choosing", "placing"} -> 10
    [] step = "adopting" -> 9
    [] step = "showing" -> 8
    [] step = "steering" -> 7
    [] step = "clearing" -> 6
    [] step = "storing" -> 5
    [] step = "launching" -> 4
    [] step \in {"started", "aiming", "switching"} -> 3
    [] step = "waiting" -> 2
    [] step \in {"waited", "failing", "sending", "moving"} -> 1
    [] OTHER -> 0

\* What the work of a task still has before it.
Ahead(step) ==
  CASE step = "new" -> 8
    [] step = "accepted" -> 7
    [] step = "ready" -> 6
    [] step = "running" -> 5
    [] step = "ran" -> 4
    [] step = "recorded" -> 3
    [] step = "finished" -> 2
    [] step = "announced" -> 1
    [] OTHER -> 0

CallerGetsOn(c) ==
  \/ client[c].pc = "idle" /\ client'[c].pc # "idle"
  \/ Left(client'[c].pc) < Left(client[c].pc)

TaskGetsOn(t) == Ahead(worker'[t]) < Ahead(worker[t])

\* Every step takes a caller or a task further, and nobody back: what a caller
\* began it goes through once, with no loop and no second try.
Onward ==
  /\ \/ \E c \in Clients : CallerGetsOn(c)
     \/ \E t \in Tasks : TaskGetsOn(t)
  /\ \A c \in Clients : CallerGetsOn(c) \/ client'[c] = client[c]
  /\ \A t \in Tasks : TaskGetsOn(t) \/ worker'[t] = worker[t]

NoStepIsInVain == [][Onward]_vars

\* A caller's step that leaves the tasks alone.
LEMMA CallerStep ==
  ASSUME TypeInv, NEW c \in Clients,
         \/ AskStart(c) \/ AskWait(c) \/ AskStop(c) \/ AskSession(c)
         \/ TurnAway(c) \/ KeepSession(c) \/ OpenLease(c) \/ ChooseSession(c)
         \/ Register(c) \/ ShowSession(c) \/ SteerRunner(c) \/ ClearStop(c)
         \/ StoreThread(c) \/ Joined(c) \/ Leave(c) \/ Aim(c)
         \/ SendStop(c) \/ PickSession(c) \/ PlaceSession(c) \/ ReadView(c)
         \/ MoveRunner(c)
  PROVE  CallerGetsOn(c)
<1>1. ASSUME AskStart(c) PROVE CallerGetsOn(c)
  BY <1>1, AskStartLeads, RestIsTyped
  DEF AskStart, At, CallerGetsOn, TypeInv, TypeOK, CallersTyped, ClientSteps, Left
<1>2. ASSUME AskWait(c) PROVE CallerGetsOn(c)
  <2>1. client[c].pc = "started"
    BY <1>2 DEF AskWait, At
  <2>2. client'[c].pc \in {"waited", "waiting", "idle"}
    BY <1>2, GotoLeads, ReturnLeads, TakeJoinLeads, RestIsTyped
    DEF AskWait, TakeJoin, TypeInv, TypeOK, CallersTyped, ClientSteps
  <2> QED
    BY <2>1, <2>2 DEF CallerGetsOn, Left
<1>3. ASSUME AskStop(c) PROVE CallerGetsOn(c)
  BY <1>3, AskStopLeads, RestIsTyped
  DEF AskStop, At, CallerGetsOn, TypeInv, TypeOK, CallersTyped, ClientSteps, Left
<1>4. ASSUME AskSession(c) PROVE CallerGetsOn(c)
  BY <1>4, GotoLeads, RestIsTyped
  DEF AskSession, At, CallerGetsOn, TypeInv, TypeOK, CallersTyped, ClientSteps, Left
<1>5. ASSUME TurnAway(c) PROVE CallerGetsOn(c)
  BY <1>5, ReturnLeads, RestIsTyped
  DEF TurnAway, At, CallerGetsOn, TypeInv, TypeOK, CallersTyped, ClientSteps, Left
<1>6. ASSUME KeepSession(c) PROVE CallerGetsOn(c)
  <2>1. client[c].pc = "reserved"
    BY <1>6 DEF KeepSession, At
  <2>2. client'[c].pc \in {"adopting"}
    BY <1>6, KeepSessionLeads
    DEF TypeInv
  <2> QED
    BY <2>1, <2>2 DEF CallerGetsOn, Left
<1>7. ASSUME OpenLease(c) PROVE CallerGetsOn(c)
  BY <1>7, GotoLeads, RestIsTyped
  DEF OpenLease, At, CallerGetsOn, TypeInv, TypeOK, CallersTyped, ClientSteps, Left
<1>8. ASSUME ChooseSession(c) PROVE CallerGetsOn(c)
  <2>0. client[c].pc = "choosing"
    BY <1>8 DEF ChooseSession, At
  <2>1. CASE \E s \in FoldersOf(client[c].platform) : TakeSession(c, "adopting", s)
    <3>1. client'[c].pc = "adopting"
      BY <2>1, TakeSessionLeads DEF FoldersOf, TypeInv, TypeOK, CallersTyped, ClientSteps
    <3> QED
      BY <2>0, <3>1 DEF CallerGetsOn, Left
  <2>2. CASE Goto(c, "failing")
    BY <2>0, <2>2, GotoLeads, ReturnLeads, RestIsTyped
    DEF CallerGetsOn, TypeInv, TypeOK, CallersTyped, ClientSteps, Left
  <2> QED
    BY <1>8, <2>1, <2>2 DEF ChooseSession, TakeSession
<1>9. ASSUME Register(c) PROVE CallerGetsOn(c)
  BY <1>9, GotoLeads, ReturnLeads, RestIsTyped
  DEF Register, Refused, At, CallerGetsOn, TypeInv, TypeOK, CallersTyped, ClientSteps, Left
<1>10. ASSUME ShowSession(c) PROVE CallerGetsOn(c)
  BY <1>10, GotoLeads, RestIsTyped
  DEF ShowSession, At, CallerGetsOn, TypeInv, TypeOK, CallersTyped, ClientSteps, Left
<1>11. ASSUME SteerRunner(c) PROVE CallerGetsOn(c)
  BY <1>11, GotoLeads, ReturnLeads, RestIsTyped
  DEF SteerRunner, At, CallerGetsOn, TypeInv, TypeOK, CallersTyped, ClientSteps, Left
<1>12. ASSUME ClearStop(c) PROVE CallerGetsOn(c)
  BY <1>12, GotoLeads, RestIsTyped
  DEF ClearStop, At, CallerGetsOn, TypeInv, TypeOK, CallersTyped, ClientSteps, Left
<1>13. ASSUME StoreThread(c) PROVE CallerGetsOn(c)
  BY <1>13, GotoLeads, RestIsTyped
  DEF StoreThread, At, CallerGetsOn, TypeInv, TypeOK, CallersTyped, ClientSteps, Left
<1>14. ASSUME Joined(c) PROVE CallerGetsOn(c)
  BY <1>14, GotoLeads, RestIsTyped
  DEF Joined, At, CallerGetsOn, TypeInv, TypeOK, CallersTyped, ClientSteps, Left
<1>15. ASSUME Leave(c) PROVE CallerGetsOn(c)
  BY <1>15, ReturnLeads, RestIsTyped
  DEF Leave, At, CallerGetsOn, TypeInv, TypeOK, CallersTyped, ClientSteps, Left
<1>16. ASSUME Aim(c) PROVE CallerGetsOn(c)
  <2>1. client[c].pc = "aiming"
    BY <1>16 DEF Aim, At
  <2>2. client'[c].pc \in {"sending"}
    BY <1>16, AimLeads
    DEF TypeInv
  <2> QED
    BY <2>1, <2>2 DEF CallerGetsOn, Left
<1>17. ASSUME SendStop(c) PROVE CallerGetsOn(c)
  BY <1>17, ReturnLeads, RestIsTyped
  DEF SendStop, At, CallerGetsOn, TypeInv, TypeOK, CallersTyped, ClientSteps, Left
<1>18. ASSUME PickSession(c) PROVE CallerGetsOn(c)
  <2>0. client[c].pc = "picking"
    BY <1>18 DEF PickSession, At
  <2>1. CASE \E s \in FoldersOf(platform) : TakeSession(c, "placing", s)
    <3>1. client'[c].pc = "placing"
      BY <2>1, TakeSessionLeads DEF FoldersOf, TypeInv, TypeOK, CallersTyped, ClientSteps
    <3> QED
      BY <2>0, <3>1 DEF CallerGetsOn, Left
  <2>2. CASE Return(c)
    BY <2>0, <2>2, GotoLeads, ReturnLeads, RestIsTyped
    DEF CallerGetsOn, TypeInv, TypeOK, CallersTyped, ClientSteps, Left
  <2> QED
    BY <1>18, <2>1, <2>2 DEF PickSession, TakeSession
<1>19. ASSUME PlaceSession(c) PROVE CallerGetsOn(c)
  <2>1. client[c].pc = "placing"
    BY <1>19 DEF PlaceSession, At
  <2>2. client'[c].pc \in {"adopting"}
    BY <1>19, PlaceSessionLeads
    DEF TypeInv
  <2> QED
    BY <2>1, <2>2 DEF CallerGetsOn, Left
<1>20. ASSUME ReadView(c) PROVE CallerGetsOn(c)
  <2>1. client[c].pc = "switching"
    BY <1>20 DEF ReadView, At
  <2>2. client'[c].pc \in {"idle", "moving"}
    BY <1>20, ReturnLeads, TakeSessionLeads, RestIsTyped
    DEF ReadView, TakeSession, TypeInv, TypeOK, CallersTyped, ClientSteps
  <2> QED
    BY <2>1, <2>2 DEF CallerGetsOn, Left
<1>21. ASSUME MoveRunner(c) PROVE CallerGetsOn(c)
  BY <1>21, ReturnLeads, RestIsTyped
  DEF MoveRunner, At, CallerGetsOn, TypeInv, TypeOK, CallersTyped, ClientSteps, Left
<1> QED
  BY <1>1, <1>2, <1>3, <1>4, <1>5, <1>6, <1>7, <1>8, <1>9, <1>10, <1>11, <1>12, <1>13, <1>14, <1>15, <1>16, <1>17, <1>18, <1>19, <1>20, <1>21

\* One caller moves and no task, or a caller and the task it starts.
LEMMA CallerOnly ==
  ASSUME TypeInv, NEW c \in Clients, Alone(c), CallerGetsOn(c),
         \A t \in Tasks : TaskGetsOn(t) \/ worker'[t] = worker[t]
  PROVE  Onward
  BY DEF Onward, Alone

\* The work of a task moves and nobody else.
LEMMA TaskOnly ==
  ASSUME TypeInv, NEW t \in Tasks, NEW to \in WorkerSteps, UNCHANGED client,
         worker' = [worker EXCEPT ![t] = to], Ahead(to) < Ahead(worker[t])
  PROVE  Onward
<1>1. \A u \in Tasks : worker'[u] = IF u = t THEN to ELSE worker[u]
  BY DEF TypeInv, TypeOK
<1>2. TaskGetsOn(t) /\ \A u \in Tasks : TaskGetsOn(u) \/ worker'[u] = worker[u]
  BY <1>1 DEF TaskGetsOn
<1> QED
  BY <1>2 DEF Onward

\* Every step gets on.
LEMMA StepGetsOn ==
  ASSUME TypeInv, DeskInv, [Next]_vars
  PROVE  [Onward]_vars
<1>1. ASSUME NEW c \in Clients,
             \/ AskStart(c) \/ AskWait(c) \/ AskStop(c) \/ AskSession(c)
             \/ TurnAway(c) \/ KeepSession(c) \/ OpenLease(c) \/ ChooseSession(c)
             \/ Register(c) \/ ShowSession(c) \/ SteerRunner(c) \/ ClearStop(c)
             \/ StoreThread(c) \/ Joined(c) \/ Leave(c) \/ Aim(c)
             \/ SendStop(c) \/ PickSession(c) \/ PlaceSession(c) \/ ReadView(c)
             \/ MoveRunner(c)
      PROVE  Onward
  <2>1. Quiet(c)
    BY <1>1, QuietSteps
  <2>2. CallerGetsOn(c)
    BY <1>1, CallerStep
  <2> QED
    BY <2>1, <2>2, CallerOnly DEF Quiet
<1>2. ASSUME NEW c \in Clients, NEW p \in Platforms, AskPlatform(c, p) PROVE Onward
  <2>1. Alone(c) /\ CallerGetsOn(c)
    BY <1>2, GotoLeads DEF AskPlatform, At, CallerGetsOn, TypeInv, TypeOK, CallersTyped, ClientSteps
  <2>2. UNCHANGED worker
    BY <1>2 DEF AskPlatform, workVars
  <2> QED
    BY <2>1, <2>2, CallerOnly
<1>3. ASSUME NEW c \in Clients, NEW kind \in Kinds, Reserve(c, kind) PROVE Onward
  <2>1. Alone(c) /\ CallerGetsOn(c)
    <3>1. client[c].pc = "asked"
      BY <1>3 DEF Reserve, At
    <3>2. Alone(c) /\ client'[c].pc = "reserved"
      BY <1>3, ReserveLeads DEF TypeInv
    <3> QED
      BY <3>1, <3>2 DEF CallerGetsOn, Left
  <2>2. worker[nextTask] = "new" /\ nextTask \in Tasks
    BY <1>3, ServiceAssumption DEF Reserve, DeskInv, Numbered, TypeInv, TypeOK, Tasks
  <2>3. \A t \in Tasks : worker'[t] = IF t = nextTask THEN "accepted" ELSE worker[t]
    BY <1>3 DEF Reserve, TypeInv, TypeOK
  <2>4. \A t \in Tasks : TaskGetsOn(t) \/ worker'[t] = worker[t]
    BY <2>2, <2>3 DEF TaskGetsOn, Ahead
  <2> QED
    BY <2>1, <2>4, CallerOnly
<1>4. ASSUME NEW c \in Clients, Launch(c) PROVE Onward
  <2>1. Alone(c) /\ CallerGetsOn(c)
    <3>1. client[c].pc = "launching"
      BY <1>4 DEF Launch, At
    <3>2. Alone(c) /\ client'[c].pc = "started"
      BY <1>4, LaunchLeads DEF TypeInv
    <3> QED
      BY <3>1, <3>2 DEF CallerGetsOn, Left
  <2>2. Begins(client[c])
    BY <1>4 DEF Launch, At, Begins, StartSteps, TypeInv, Locals, Local, HasTask
  <2>3. worker[client[c].task] = "accepted"
    BY <2>2 DEF DeskInv, Starters
  <2>4. \A t \in Tasks : worker'[t] = IF t = client[c].task THEN "ready" ELSE worker[t]
    BY <1>4 DEF Launch, TypeInv, TypeOK
  <2>5. \A t \in Tasks : TaskGetsOn(t) \/ worker'[t] = worker[t]
    BY <2>3, <2>4 DEF TaskGetsOn, Ahead
  <2> QED
    BY <2>1, <2>5, CallerOnly
<1>5. ASSUME NEW c \in Clients, FailStart(c) PROVE Onward
  <2>1. Alone(c) /\ CallerGetsOn(c)
    BY <1>5, ReturnLeads, RestIsTyped
    DEF FailStart, At, CallerGetsOn, TypeInv, TypeOK, CallersTyped, Left
  <2>2. Begins(client[c])
    BY <1>5 DEF FailStart, At, Begins, StartSteps, TypeInv, Locals, Local, HasTask
  <2>3. worker[client[c].task] = "accepted"
    BY <2>2 DEF DeskInv, Starters
  <2>4. \A t \in Tasks : worker'[t] = IF t = client[c].task THEN "dropped" ELSE worker[t]
    BY <1>5 DEF FailStart, TypeInv, TypeOK
  <2>5. \A t \in Tasks : TaskGetsOn(t) \/ worker'[t] = worker[t]
    BY <2>3, <2>4 DEF TaskGetsOn, Ahead
  <2> QED
    BY <2>1, <2>5, CallerOnly
<1>6. ASSUME NEW t \in Tasks, TakeLease(t) \/ FindLeaseHeld(t) PROVE Onward
  <2>1. /\ worker[t] = "ready" /\ UNCHANGED client
        /\ \E to \in {"running", "ran"} : worker' = [worker EXCEPT ![t] = to]
    BY <1>6 DEF TakeLease, FindLeaseHeld
  <2>2. \A to \in {"running", "ran"} : to \in WorkerSteps /\ Ahead(to) < Ahead("ready")
    BY DEF WorkerSteps, Ahead
  <2> QED
    BY <2>1, <2>2, TaskOnly
<1>7. ASSUME NEW t \in Tasks, EndRun(t) PROVE Onward
  <2>1. "ran" \in WorkerSteps /\ Ahead("ran") < Ahead("running")
    BY DEF WorkerSteps, Ahead
  <2> QED
    BY <1>7, <2>1, TaskOnly DEF EndRun
<1>8. ASSUME NEW t \in Tasks, Record(t) PROVE Onward
  <2>1. "recorded" \in WorkerSteps /\ Ahead("recorded") < Ahead("ran")
    BY DEF WorkerSteps, Ahead
  <2> QED
    BY <1>8, <2>1, TaskOnly DEF Record
<1>9. ASSUME NEW t \in Tasks, Finish(t) PROVE Onward
  <2>1. "finished" \in WorkerSteps /\ Ahead("finished") < Ahead("recorded")
    BY DEF WorkerSteps, Ahead
  <2> QED
    BY <1>9, <2>1, TaskOnly DEF Finish
<1>10. ASSUME NEW t \in Tasks, Announce(t) PROVE Onward
  <2>1. "announced" \in WorkerSteps /\ Ahead("announced") < Ahead("finished")
    BY DEF WorkerSteps, Ahead
  <2> QED
    BY <1>10, <2>1, TaskOnly DEF Announce
<1>11. ASSUME NEW t \in Tasks, DropThread(t) PROVE Onward
  <2>1. "dead" \in WorkerSteps /\ Ahead("dead") < Ahead("announced")
    BY DEF WorkerSteps, Ahead
  <2> QED
    BY <1>11, <2>1, TaskOnly DEF DropThread
<1> QED
  BY <1>1, <1>2, <1>3, <1>4, <1>5, <1>6, <1>7, <1>8, <1>9, <1>10, <1>11
  DEF Next, Call, Proceed, Work

\* Every step of the service, whoever makes it, leads a caller towards its
\* return or a task towards its end, and turns nobody back (_start_task,
\* stop_current_task, _set_session, set_platform, _run_task_thread).
THEOREM Progress == Spec => NoStepIsInVain
<1>1. TypeInv /\ DeskInv /\ [Next]_vars => [Onward]_vars
  BY StepGetsOn
<1> QED
  BY AlwaysDesk, <1>1, PTL DEF Spec, NoStepIsInVain

-----------------------------------------------------------------------------
(* Waiting for a task *)

UnderWay == {"ready", "running", "ran", "recorded", "finished", "announced", "dead"}

\* The handle is the one of a task that was accepted and not dropped; who joins
\* a thread joins one that was started.
JoinInv ==
  /\ thread # None => worker[thread] \in UnderWay \cup {"accepted"}
  /\ \A c \in Clients : At(c, "waiting") => worker[client[c].join] \in UnderWay

\* A step keeps the joins when nobody new waits, the handle stays or is cleared,
\* and no task is undone.
LEMMA KeepsJoins ==
  ASSUME TypeInv, JoinInv, thread' \in {None, thread},
         \A c \in Clients : At(c, "waiting")' => client'[c] = client[c],
         \A t \in Tasks : worker'[t] = worker[t] \/ worker'[t] \in UnderWay
  PROVE  JoinInv'
<1>1. thread' # None => worker'[thread'] \in UnderWay \cup {"accepted"}
  BY DEF JoinInv, TypeInv, TypeOK
<1>2. \A c \in Clients : At(c, "waiting") => client[c].join \in Tasks
  BY CallerFields DEF At, TypeInv, TypeOK, Locals, Local
<1>3. \A c \in Clients : At(c, "waiting")' => worker'[client'[c].join] \in UnderWay
  BY <1>2 DEF JoinInv, At
<1> QED
  BY <1>1, <1>3 DEF JoinInv

\* A caller's step that ends anywhere but in a join, with the handle kept or
\* cleared and no task undone.
LEMMA LeavesJoins ==
  ASSUME TypeInv, JoinInv, NEW c \in Clients, Alone(c), client'[c].pc # "waiting",
         thread' \in {None, thread},
         \A t \in Tasks : worker'[t] = worker[t] \/ worker'[t] \in UnderWay
  PROVE  JoinInv'
  BY KeepsJoins DEF Alone, At

\* Only AskWait leads a caller to a join.
LEMMA OthersWaitForNobody ==
  ASSUME TypeInv, NEW c \in Clients,
         \/ AskStart(c) \/ AskStop(c) \/ AskSession(c)
         \/ TurnAway(c) \/ KeepSession(c) \/ OpenLease(c) \/ ChooseSession(c)
         \/ Register(c) \/ ShowSession(c) \/ SteerRunner(c) \/ ClearStop(c)
         \/ Joined(c) \/ Leave(c) \/ Aim(c)
         \/ SendStop(c) \/ PickSession(c) \/ PlaceSession(c) \/ ReadView(c)
         \/ MoveRunner(c)
  PROVE  client'[c].pc # "waiting"
<1>0. CallersTyped
  BY DEF TypeInv, TypeOK, CallersTyped
<1>1. \A step \in ClientSteps : Goto(c, step) => client'[c].pc = step
  BY <1>0, GotoLeads
<1>2. Return(c) => client'[c].pc = "idle"
  BY <1>0, ReturnLeads, RestIsTyped
<1>3. CASE AskStart(c) \/ AskStop(c) \/ KeepSession(c) \/ Aim(c) \/ PlaceSession(c)
  <2>1. client'[c].pc \in {"asked", "aiming", "adopting", "sending"}
    BY <1>3, AskStartLeads, AskStopLeads, KeepSessionLeads, AimLeads, PlaceSessionLeads
    DEF TypeInv
  <2> QED
    BY <2>1
<1>4. CASE AskSession(c) \/ TurnAway(c) \/ OpenLease(c) \/ Register(c) \/ ShowSession(c)
           \/ SteerRunner(c) \/ ClearStop(c)
  BY <1>1, <1>2, <1>4
  DEF AskSession, TurnAway, OpenLease, Register, Refused, ShowSession, SteerRunner, ClearStop,
      ClientSteps
<1>5. CASE Joined(c) \/ Leave(c) \/ SendStop(c) \/ MoveRunner(c)
  BY <1>1, <1>2, <1>5 DEF Joined, Leave, SendStop, MoveRunner, ClientSteps
<1>6. CASE ChooseSession(c) \/ PickSession(c) \/ ReadView(c)
  <2>1. \A s \in Sessions \cup {None}, step \in ClientSteps :
          TakeSession(c, step, s) => client'[c].pc = step
    BY <1>0, TakeSessionLeads
  <2>2. CASE ChooseSession(c)
    <3>1. \/ \E s \in Sessions : TakeSession(c, "adopting", s)
          \/ Goto(c, "failing")
      BY <2>2 DEF ChooseSession, TakeSession, FoldersOf
    <3> QED
      BY <1>1, <2>1, <3>1 DEF ClientSteps
  <2>3. CASE PickSession(c)
    <3>1. \/ \E s \in Sessions : TakeSession(c, "placing", s)
          \/ Return(c)
      BY <2>3 DEF PickSession, TakeSession, FoldersOf
    <3> QED
      BY <1>2, <2>1, <3>1 DEF ClientSteps
  <2>4. CASE ReadView(c)
    <3>1. TakeSession(c, "moving", view) \/ Return(c)
      BY <2>4 DEF ReadView, TakeSession
    <3> QED
      BY <1>2, <2>1, <3>1 DEF ClientSteps, TypeInv, TypeOK
  <2> QED
    BY <1>6, <2>2, <2>3, <2>4
<1> QED
  BY <1>3, <1>4, <1>5, <1>6

\* Every step keeps the joins.
LEMMA StepJoinInv ==
  ASSUME TypeInv, DeskInv, JoinInv, [Next]_vars
  PROVE  JoinInv'
<1>1. ASSUME NEW c \in Clients, AskWait(c) PROVE JoinInv'
  <2>1. Quiet(c) /\ thread' = thread
    BY <1>1, QuietSteps DEF AskWait
  <2>2. CASE Goto(c, "waited") \/ Return(c)
    <3>1. client'[c].pc # "waiting"
      BY <2>2, GotoLeads, ReturnLeads, RestIsTyped
      DEF TypeInv, TypeOK, CallersTyped, ClientSteps
    <3> QED
      BY <2>1, <3>1, LeavesJoins DEF Quiet
  <2>3. CASE thread # None /\ worker[thread] # "accepted" /\ TakeJoin(c, "waiting", thread)
    <3>1. client'[c].join = thread
      BY <2>3, TakeJoinLeads DEF TypeInv, TypeOK, CallersTyped, ClientSteps
    <3>2. worker'[thread] \in UnderWay
      BY <2>1, <2>3 DEF JoinInv, Quiet
    <3>3. \A d \in Clients : At(d, "waiting")' => worker'[client'[d].join] \in UnderWay
      BY <2>1, <3>1, <3>2 DEF JoinInv, At, Quiet, Alone
    <3> QED
      BY <2>1, <3>3 DEF JoinInv, Quiet
  <2> QED
    BY <1>1, <2>2, <2>3 DEF AskWait, TakeJoin
<1>2. ASSUME NEW c \in Clients, StoreThread(c) PROVE JoinInv'
  <2>1. Quiet(c) /\ thread' = client[c].task /\ client[c].pc = "storing"
    BY <1>2, QuietSteps DEF StoreThread, At
  <2>2. client'[c].pc = "launching"
    BY <1>2, GotoLeads DEF StoreThread, TypeInv, TypeOK, CallersTyped, ClientSteps
  <2>3. Begins(client[c])
    BY <2>1 DEF Begins, StartSteps, TypeInv, Locals, Local, HasTask
  <2>4. worker'[thread'] = "accepted"
    BY <2>1, <2>3 DEF DeskInv, Starters, Quiet
  <2>5. \A d \in Clients : At(d, "waiting")' => worker'[client'[d].join] \in UnderWay
    BY <2>1, <2>2 DEF JoinInv, At, Quiet, Alone
  <2> QED
    BY <2>4, <2>5 DEF JoinInv
<1>3. ASSUME NEW c \in Clients,
             \/ AskStart(c) \/ AskStop(c) \/ AskSession(c)
             \/ TurnAway(c) \/ KeepSession(c) \/ OpenLease(c) \/ ChooseSession(c)
             \/ Register(c) \/ ShowSession(c) \/ SteerRunner(c) \/ ClearStop(c)
             \/ Joined(c) \/ Leave(c) \/ Aim(c)
             \/ SendStop(c) \/ PickSession(c) \/ PlaceSession(c) \/ ReadView(c)
             \/ MoveRunner(c)
      PROVE  JoinInv'
  <2>1. Quiet(c)
    BY <1>3, QuietSteps
  <2>2. thread' = thread
    <3>1. CASE AskStart(c) \/ AskStop(c) \/ AskSession(c) \/ TurnAway(c) \/ KeepSession(c)
                 \/ OpenLease(c) \/ ChooseSession(c)
      BY <3>1 DEF AskStart, AskStop, AskSession, TurnAway, KeepSession, OpenLease, ChooseSession
    <3>2. CASE Register(c) \/ ShowSession(c) \/ SteerRunner(c) \/ ClearStop(c) \/ Joined(c)
                 \/ Leave(c) \/ Aim(c)
      BY <3>2 DEF Register, ShowSession, SteerRunner, ClearStop, Joined, Leave, Aim
    <3>3. CASE SendStop(c) \/ PickSession(c) \/ PlaceSession(c) \/ ReadView(c)
                 \/ MoveRunner(c)
      BY <3>3 DEF SendStop, PickSession, PlaceSession, ReadView, MoveRunner
    <3> QED
      BY <1>3, <3>1, <3>2, <3>3
  <2>3. client'[c].pc # "waiting"
    BY <1>3, OthersWaitForNobody
  <2> QED
    BY <2>1, <2>2, <2>3, LeavesJoins DEF Quiet
<1>4. ASSUME NEW c \in Clients, NEW p \in Platforms, AskPlatform(c, p) PROVE JoinInv'
  <2>1. Alone(c) /\ client'[c].pc = "switching" /\ UNCHANGED <<thread, worker>>
    BY <1>4, GotoLeads DEF AskPlatform, workVars, TypeInv, TypeOK, CallersTyped, ClientSteps
  <2> QED
    BY <2>1, LeavesJoins
<1>5. ASSUME NEW c \in Clients, NEW kind \in Kinds, Reserve(c, kind) PROVE JoinInv'
  <2>1. Alone(c) /\ client'[c].pc = "reserved"
    BY <1>5, ReserveLeads DEF TypeInv
  <2>2. worker[nextTask] = "new" /\ nextTask \in Tasks /\ thread' = thread
    BY <1>5, ServiceAssumption DEF Reserve, DeskInv, Numbered, TypeInv, TypeOK, Tasks
  <2>3. \A t \in Tasks : worker'[t] = IF t = nextTask THEN "accepted" ELSE worker[t]
    BY <1>5 DEF Reserve, TypeInv, TypeOK
  <2>4. \A t \in Tasks : worker[t] \in UnderWay \cup {"accepted"} => worker'[t] = worker[t]
    BY <2>2, <2>3 DEF UnderWay
  <2>5. thread' # None => worker'[thread'] \in UnderWay \cup {"accepted"}
    BY <2>2, <2>4 DEF JoinInv, TypeInv, TypeOK
  <2>6. \A d \in Clients : At(d, "waiting") => client[d].join \in Tasks
    BY CallerFields DEF At, TypeInv, TypeOK, Locals, Local
  <2>7. \A d \in Clients : At(d, "waiting")' => worker'[client'[d].join] \in UnderWay
    BY <2>1, <2>4, <2>6 DEF JoinInv, At, Alone
  <2> QED
    BY <2>5, <2>7 DEF JoinInv
<1>6. ASSUME NEW c \in Clients, Launch(c) PROVE JoinInv'
  <2>1. Alone(c) /\ client'[c].pc = "started" /\ thread' = thread
    BY <1>6, LaunchLeads DEF Launch, TypeInv
  <2>2. \A t \in Tasks : worker'[t] = IF t = client[c].task THEN "ready" ELSE worker[t]
    BY <1>6 DEF Launch, TypeInv, TypeOK
  <2> QED
    BY <2>1, <2>2, LeavesJoins DEF UnderWay
<1>7. ASSUME NEW c \in Clients, FailStart(c) PROVE JoinInv'
  <2>1. Alone(c) /\ client'[c].pc = "idle" /\ thread' = None
    BY <1>7, ReturnLeads, RestIsTyped DEF FailStart, TypeInv, TypeOK, CallersTyped
  <2>2. Begins(client[c])
    BY <1>7 DEF FailStart, At, Begins, StartSteps, TypeInv, Locals, Local, HasTask
  <2>3. worker[client[c].task] = "accepted"
    BY <2>2 DEF DeskInv, Starters
  <2>4. \A t \in Tasks : worker'[t] = IF t = client[c].task THEN "dropped" ELSE worker[t]
    BY <1>7 DEF FailStart, TypeInv, TypeOK
  <2>5. \A t \in Tasks : worker[t] \in UnderWay => worker'[t] = worker[t]
    BY <2>3, <2>4 DEF UnderWay
  <2>6. \A d \in Clients : At(d, "waiting") => client[d].join \in Tasks
    BY CallerFields DEF At, TypeInv, TypeOK, Locals, Local
  <2>7. \A d \in Clients : At(d, "waiting")' => worker'[client'[d].join] \in UnderWay
    BY <2>1, <2>5, <2>6 DEF JoinInv, At, Alone
  <2> QED
    BY <2>1, <2>7 DEF JoinInv
<1>8. ASSUME NEW t \in Tasks, Work(t) PROVE JoinInv'
  <2>1. /\ UNCHANGED client
        /\ thread' \in {None, thread}
        /\ \E to \in UnderWay : worker' = [worker EXCEPT ![t] = to]
    BY <1>8
    DEF Work, TakeLease, FindLeaseHeld, EndRun, Record, Finish, Announce, DropThread, UnderWay
  <2>2. \A u \in Tasks : worker'[u] = worker[u] \/ worker'[u] \in UnderWay
    BY <2>1 DEF TypeInv, TypeOK
  <2> QED
    BY <2>1, <2>2, KeepsJoins
<1>9. CASE UNCHANGED vars
  BY <1>9, KeepsJoins DEF vars
<1> QED
  BY <1>1, <1>2, <1>3, <1>4, <1>5, <1>6, <1>7, <1>8, <1>9 DEF Next, Call, Proceed

\* Whoever waits for a task waits for one whose thread was started and that
\* nobody drops: with the progress above, for one that ends
\* (wait_for_current_task, _finish_task).
JoinsAreSound ==
  \A c \in Clients : At(c, "waiting") => worker[client[c].join] \in UnderWay

THEOREM Joins == Spec => []JoinsAreSound
<1>1. Init => JoinInv
  BY RestIsTyped DEF Init, JoinInv, At
<1>2. TypeInv /\ DeskInv /\ JoinInv /\ [Next]_vars => JoinInv'
  BY StepJoinInv
<1>3. JoinInv => JoinsAreSound
  BY DEF JoinInv, JoinsAreSound
<1> QED
  BY AlwaysDesk, <1>1, <1>2, <1>3, PTL DEF Spec
=============================================================================
