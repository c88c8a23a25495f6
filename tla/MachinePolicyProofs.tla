-------------------------- MODULE MachinePolicyProofs --------------------------
(***************************************************************************)
(* Theorems about MachinePolicy, for any number of processes, checkouts,   *)
(* relays, runs, transactions, crashes and failures.                       *)
(***************************************************************************)
EXTENDS MachinePolicy, TLAPS

USE DEF At, Goto

-----------------------------------------------------------------------------
(***************************************************************************)
(* Types, in three groups that a step changes apart                        *)
(***************************************************************************)
MachineOK ==
    /\ machine \in [vpn : Relays \cup {Off}, excluded : BOOLEAN]
    /\ relay \in [Checkouts -> Relays]
    /\ touched \in Tx \cup {Legacy, None}
    /\ used \in [crashes : 0..MaxCrashes, failures : 0..MaxFailures,
                 relays : 0..MaxRelayChanges]

FilesOK ==
    /\ active \in Tx \cup {None}
    /\ docs \in [Tx -> Documents \cup {None}]
    /\ manifest \in [Runs -> RestorationStates]

LocksOK ==
    /\ machineLease \in Apps \cup {None}
    /\ workspace \in [Checkouts -> Apps \cup {None}]

AppsOK ==
    /\ pc \in [Apps -> Places]
    /\ task \in [Apps -> AllKinds]
    /\ goal \in [Apps -> Relays \cup {None}]
    /\ \A a \in Apps : pc[a] # "idle" => goal[a] # None
    /\ \A a \in Apps : pc[a] = "doc" => run[a] # None
    /\ tx \in [Apps -> Tx \cup {None}]
    /\ run \in [Apps -> Runs \cup {None}]
    /\ phase \in [Apps -> {"recover", "finish"}]
    /\ ok \in [Apps -> BOOLEAN]
    /\ seen \in [Apps -> SyncStatuses]

LEMMA TypeGroups == TypeOK <=> MachineOK /\ FilesOK /\ LocksOK /\ AppsOK
  BY DEF TypeOK, MachineOK, FilesOK, LocksOK, AppsOK

LEMMA NextGroups == TypeOK' <=> MachineOK' /\ FilesOK' /\ LocksOK' /\ AppsOK'
  BY DEF TypeOK, MachineOK, FilesOK, LocksOK, AppsOK

\* The transaction a process works on is on disk.
HasDocument(a) == tx[a] \in Tx /\ docs[tx[a]] # None

Bodies == {"open", "routing"} \cup OnVpn \cup OnLocal \cup Restoring
Closings == {"pointer", "manifest", "mirror", "sync", "defer", "clear"}

ContextInv ==
    /\ active # None => docs[active] # None
    /\ \A a \in Apps :
        /\ pc[a] \in Closings => HasDocument(a)
        /\ pc[a] \in Bodies /\ task[a] # "legacy" => HasDocument(a)
        /\ pc[a] = "start" /\ task[a] = "reconcile" => HasDocument(a)

LEMMA LeaveType ==
  ASSUME LocksOK, AppsOK, NEW a \in Apps, Leave(a)
  PROVE  LocksOK' /\ AppsOK'
<1>1. LocksOK'
  BY DEF LocksOK, Leave, Free, FreeWorkspace
<1>2. AppsOK'
  BY DEF AppsOK, Leave, Places, AllKinds, SyncStatuses
<1> QED
  BY <1>1, <1>2

\* A process moves on, its task and its context stay.
LEMMA MoveType ==
  ASSUME AppsOK, NEW a \in Apps, NEW p \in Places \ {"idle", "doc"}, Goto(a, p),
         pc[a] # "idle", UNCHANGED <<task, goal>>,
         tx' \in [Apps -> Tx \cup {None}], run' \in [Apps -> Runs \cup {None}],
         \A b \in Apps : b # a => run'[b] = run[b],
         phase' \in [Apps -> {"recover", "finish"}], ok' \in [Apps -> BOOLEAN],
         seen' \in [Apps -> SyncStatuses]
  PROVE  AppsOK'
  BY DEF AppsOK

LEMMA FailsType ==
  ASSUME MachineOK, Fails
  PROVE  used' \in [crashes : 0..MaxCrashes, failures : 0..MaxFailures,
                    relays : 0..MaxRelayChanges]
  BY ConstantsAssumption DEF MachineOK, Fails

LEMMA InitTypeOK == Init => TypeOK
  BY ConstantsAssumption
  DEF Init, TypeOK, Places, AllKinds, SyncStatuses, RestorationStates

LEMMA DocumentType ==
  ASSUME TypeOK, NEW a \in Apps, HasDocument(a)
  PROVE  /\ tx[a] \in Tx /\ docs[tx[a]] \in Documents
         /\ \A s \in TransactionStatuses :
                [docs EXCEPT ![tx[a]].status = s] \in [Tx -> Documents \cup {None}]
         /\ \A s \in SyncStatuses :
                [docs EXCEPT ![tx[a]].sync = s] \in [Tx -> Documents \cup {None}]
<1>1. tx[a] \in Tx /\ docs[tx[a]] \in Documents
  BY DEF HasDocument, TypeOK
<1>2. ASSUME NEW s \in TransactionStatuses
      PROVE  [docs EXCEPT ![tx[a]].status = s] \in [Tx -> Documents \cup {None}]
  <2>1. [docs[tx[a]] EXCEPT !.status = s] \in Documents
    BY <1>1 DEF Documents
  <2> QED
    BY <1>1, <2>1 DEF TypeOK
<1>3. ASSUME NEW s \in SyncStatuses
      PROVE  [docs EXCEPT ![tx[a]].sync = s] \in [Tx -> Documents \cup {None}]
  <2>1. [docs[tx[a]] EXCEPT !.sync = s] \in Documents
    BY <1>1 DEF Documents
  <2> QED
    BY <1>1, <2>1 DEF TypeOK
<1> QED
  BY <1>1, <1>2, <1>3

\* A write to one of the document's fields leaves a document.
DocumentWritten(a) ==
    \/ docs' = docs
    \/ \E s \in TransactionStatuses : docs' = [docs EXCEPT ![tx[a]].status = s]
    \/ \E s \in SyncStatuses : docs' = [docs EXCEPT ![tx[a]].sync = s]

LEMMA WrittenType ==
  ASSUME TypeOK, NEW a \in Apps, HasDocument(a), DocumentWritten(a)
  PROVE  /\ docs' \in [Tx -> Documents \cup {None}]
         /\ \A t \in Tx : docs[t] # None => docs'[t] # None
         /\ \A t \in Tx \ {tx[a]} : docs'[t] = docs[t]
         /\ docs'[tx[a]].origin = docs[tx[a]].origin
         /\ docs'[tx[a]].target = docs[tx[a]].target
         /\ docs'[tx[a]].run = docs[tx[a]].run
<1>1. docs' \in [Tx -> Documents \cup {None}]
  BY DocumentType DEF DocumentWritten, TypeOK
<1>2. docs'[tx[a]] \in Documents
  <2>1. CASE docs' = docs
    BY <2>1, DocumentType
  <2>2. CASE \E s \in TransactionStatuses : docs' = [docs EXCEPT ![tx[a]].status = s]
    BY <2>2, DocumentType DEF Documents, TypeOK
  <2>3. CASE \E s \in SyncStatuses : docs' = [docs EXCEPT ![tx[a]].sync = s]
    BY <2>3, DocumentType DEF Documents, TypeOK
  <2> QED
    BY <2>1, <2>2, <2>3 DEF DocumentWritten
<1>3. \A t \in Tx \ {tx[a]} : docs'[t] = docs[t]
  BY DocumentType DEF DocumentWritten, TypeOK
<1>4. /\ docs'[tx[a]].origin = docs[tx[a]].origin
      /\ docs'[tx[a]].target = docs[tx[a]].target
      /\ docs'[tx[a]].run = docs[tx[a]].run
  BY DocumentType DEF DocumentWritten, TypeOK, Documents
<1> QED
  BY <1>1, <1>2, <1>3, <1>4, DocumentsAssumption

LEMMA CommandType ==
  ASSUME TypeOK, NEW a \in Apps, pc[a] # "idle",
         NEW p \in Places \ {"idle", "doc"},
         NEW m \in [vpn : Relays \cup {Off}, excluded : BOOLEAN], Command(a, p, m)
  PROVE  TypeOK'
<1> USE TypeGroups DEF Command, files, locks, locals
<1>1. MachineOK'
  BY FailsType DEF MachineOK, Touched, AppsOK
<1>2. FilesOK' /\ LocksOK'
  BY DEF FilesOK, LocksOK
<1>3. AppsOK'
  <2>1. CASE Goto(a, p) /\ UNCHANGED phase
    BY <2>1, MoveType DEF AppsOK
  <2>2. CASE Finally(a)
    <3>1. Goto(a, "vpn") /\ phase' \in [Apps -> {"recover", "finish"}]
      BY <2>2 DEF Finally, AppsOK
    <3> QED
      BY <3>1, MoveType DEF AppsOK, Places, PlacesUnderMachineLease, Restoring
  <2> QED
    BY <2>1, <2>2
<1> QED
  BY <1>1, <1>2, <1>3, NextGroups

LEMMA StepTypeOK == TypeOK /\ ContextInv /\ [Next]_vars => TypeOK'
<1> SUFFICES ASSUME TypeOK, ContextInv, [Next]_vars PROVE TypeOK'
  OBVIOUS
<1>0. MachineOK /\ FilesOK /\ LocksOK /\ AppsOK
  BY TypeGroups
<1> USE <1>0, NextGroups DEF files, locks, locals
<1>1. ASSUME NEW a \in Apps, AcquireMachine(a) PROVE TypeOK'
  <2>1. MachineOK'
    BY <1>1, FailsType DEF AcquireMachine, MachineOK
  <2>2. FilesOK'
    BY <1>1 DEF AcquireMachine, FilesOK
  <2>3. LocksOK' /\ AppsOK'
    BY <1>1, LeaveType DEF AcquireMachine, LocksOK, AppsOK,
       Places, PlacesUnderMachineLease, Restoring, Working, OnVpn, OnLocal
  <2> QED
    BY <2>1, <2>2, <2>3
<1>2. ASSUME NEW a \in Apps, TurnedAway(a) PROVE TypeOK'
  <2>1. MachineOK'
    BY <1>2, FailsType DEF TurnedAway, MachineOK
  <2>2. FilesOK'
    BY <1>2 DEF TurnedAway, FilesOK
  <2>3. LocksOK' /\ AppsOK'
    BY <1>2, LeaveType DEF TurnedAway, LocksOK, AppsOK,
       Places, PlacesUnderMachineLease, Restoring, Working, OnVpn, OnLocal
  <2> QED
    BY <2>1, <2>2, <2>3
<1>3. ASSUME NEW a \in Apps, Guard(a) PROVE TypeOK'
  <2>1. MachineOK'
    BY <1>3, FailsType DEF Guard, MachineOK
  <2>2. FilesOK'
    BY <1>3 DEF Guard, FilesOK
  <2>3. LocksOK' /\ AppsOK'
    BY <1>3, LeaveType DEF Guard, LocksOK, AppsOK,
       Places, PlacesUnderMachineLease, Restoring, Working, OnVpn, OnLocal
  <2> QED
    BY <2>1, <2>2, <2>3
<1>4. ASSUME NEW a \in Apps, AcquireWorkspace(a) PROVE TypeOK'
  <2>1. MachineOK'
    BY <1>4, FailsType DEF AcquireWorkspace, MachineOK
  <2>2. FilesOK'
    BY <1>4 DEF AcquireWorkspace, FilesOK
  <2>3. LocksOK' /\ AppsOK'
    BY <1>4, LeaveType DEF AcquireWorkspace, LocksOK, AppsOK,
       Places, PlacesUnderMachineLease, Restoring, Working, OnVpn, OnLocal
  <2> QED
    BY <2>1, <2>2, <2>3
<1>5. ASSUME NEW a \in Apps, NothingPending(a) PROVE TypeOK'
  <2>1. MachineOK'
    BY <1>5, FailsType DEF NothingPending, MachineOK
  <2>2. FilesOK'
    BY <1>5 DEF NothingPending, FilesOK
  <2>3. LocksOK' /\ AppsOK'
    BY <1>5, LeaveType DEF NothingPending, LocksOK, AppsOK,
       Places, PlacesUnderMachineLease, Restoring, Working, OnVpn, OnLocal
  <2> QED
    BY <2>1, <2>2, <2>3
<1>6. ASSUME NEW a \in Apps, ForeignPending(a) PROVE TypeOK'
  <2>1. MachineOK'
    BY <1>6, FailsType DEF ForeignPending, MachineOK
  <2>2. FilesOK'
    BY <1>6 DEF ForeignPending, FilesOK
  <2>3. LocksOK' /\ AppsOK'
    BY <1>6, LeaveType DEF ForeignPending, LocksOK, AppsOK,
       Places, PlacesUnderMachineLease, Restoring, Working, OnVpn, OnLocal
  <2> QED
    BY <2>1, <2>2, <2>3
<1>7. ASSUME NEW a \in Apps, RecoverPending(a) PROVE TypeOK'
  <2>1. MachineOK'
    BY <1>7, FailsType DEF RecoverPending, MachineOK
  <2>2. FilesOK'
    BY <1>7 DEF RecoverPending, FilesOK
  <2>3. LocksOK' /\ AppsOK'
    <3>1. CASE Leave(a)
      BY <3>1, LeaveType
    <3>2. CASE ~Leave(a)
      <4>1. LocksOK'
        BY <1>7, <3>2 DEF RecoverPending, LocksOK
      <4>2. AppsOK'
        BY <1>7, <3>2, MoveType DEF RecoverPending, AppsOK, FilesOK, SyncStatuses,
           Places, PlacesUnderMachineLease, Restoring, Working, OnVpn, OnLocal
      <4> QED
        BY <4>1, <4>2
    <3> QED
      BY <3>1, <3>2
  <2> QED
    BY <2>1, <2>2, <2>3
<1>8. ASSUME NEW a \in Apps, Prepare(a) PROVE TypeOK'
  <2>1. MachineOK'
    BY <1>8, FailsType DEF Prepare, MachineOK
  <2>2. FilesOK'
    BY <1>8 DEF Prepare, FilesOK, RestorationStates
  <2>3. LocksOK' /\ AppsOK'
    <3>1. CASE Leave(a)
      BY <3>1, LeaveType
    <3>2. CASE ~Leave(a)
      <4>1. PICK r \in Runs : /\ run' = [run EXCEPT ![a] = r]
                              /\ Goto(a, IF task[a] = "flow" THEN "doc" ELSE "manual")
                              /\ UNCHANGED <<machineLease, workspace, task, goal, tx,
                                            phase, ok, seen>>
        BY <1>8, <3>2 DEF Prepare
      <4> QED
        BY <1>8, <4>1, ConstantsAssumption DEF Prepare, LocksOK, AppsOK,
           Places, PlacesUnderMachineLease, Restoring, Working, OnVpn, OnLocal
    <3> QED
      BY <3>1, <3>2
  <2> QED
    BY <2>1, <2>2, <2>3
<1>9. ASSUME NEW a \in Apps, WriteDocument(a) PROVE TypeOK'
  <2>1. MachineOK'
    BY <1>9, FailsType DEF WriteDocument, MachineOK
  <2>2. FilesOK'
    <3>1. [origin |-> home[a], run |-> run[a], target |-> goal[a],
           status |-> "pending", sync |-> "pending"] \in Documents
      BY <1>9, ConstantsAssumption
      DEF WriteDocument, AppsOK, Documents, TransactionStatuses, SyncStatuses
    <3> QED
      BY <1>9, <3>1 DEF WriteDocument, FilesOK
  <2>3. LocksOK' /\ AppsOK'
    BY <1>9, LeaveType DEF WriteDocument, LocksOK, AppsOK,
       Places, PlacesUnderMachineLease, Restoring, Working, OnVpn, OnLocal
  <2> QED
    BY <2>1, <2>2, <2>3
<1>10. ASSUME NEW a \in Apps, WritePointer(a) PROVE TypeOK'
  <2>1. MachineOK'
    BY <1>10, FailsType DEF WritePointer, MachineOK
  <2>2. FilesOK'
    BY <1>10 DEF WritePointer, FilesOK, AppsOK
  <2>3. LocksOK' /\ AppsOK'
    BY <1>10, LeaveType DEF WritePointer, LocksOK, AppsOK,
       Places, PlacesUnderMachineLease, Restoring, Working, OnVpn, OnLocal
  <2> QED
    BY <2>1, <2>2, <2>3
<1>11. ASSUME NEW a \in Apps, RouteChrome(a) PROVE TypeOK'
  BY <1>11, CommandType DEF RouteChrome, MachineOK,
     Places, PlacesUnderMachineLease, Restoring, Working, OnVpn, OnLocal
<1>12. ASSUME NEW a \in Apps, ConnectRelay(a) PROVE TypeOK'
  <2>1. [machine EXCEPT !.vpn = goal[a]] \in
            [vpn : Relays \cup {Off}, excluded : BOOLEAN]
    BY <1>12 DEF ConnectRelay, MachineOK, AppsOK
  <2> QED
    BY <1>12, <2>1, CommandType DEF ConnectRelay,
       Places, PlacesUnderMachineLease, Restoring, Working, OnVpn, OnLocal
<1>13. ASSUME NEW a \in Apps, DisconnectForLocal(a) PROVE TypeOK'
  <2>1. [machine EXCEPT !.vpn = Off] \in
            [vpn : Relays \cup {Off}, excluded : BOOLEAN]
    BY DEF MachineOK
  <2> QED
    BY <1>13, <2>1, CommandType DEF DisconnectForLocal,
       Places, PlacesUnderMachineLease, Restoring, Working, OnVpn, OnLocal
<1>14. ASSUME NEW a \in Apps, EndSteps(a) PROVE TypeOK'
  <2>1. MachineOK'
    BY <1>14, FailsType DEF EndSteps, MachineOK
  <2>2. FilesOK'
    BY <1>14 DEF EndSteps, FilesOK
  <2>3. LocksOK' /\ AppsOK'
    <3>1. CASE Leave(a)
      BY <3>1, LeaveType
    <3>2. CASE ~Leave(a)
      <4>1. LocksOK'
        BY <1>14, <3>2 DEF EndSteps, LocksOK
      <4>2. AppsOK'
        BY <1>14, <3>2, MoveType DEF EndSteps, Finally, AppsOK, FilesOK, SyncStatuses,
           Places, PlacesUnderMachineLease, Restoring, Working, OnVpn, OnLocal
      <4> QED
        BY <4>1, <4>2
    <3> QED
      BY <3>1, <3>2
  <2> QED
    BY <2>1, <2>2, <2>3
<1>15. ASSUME NEW a \in Apps, EndUnrestored(a) PROVE TypeOK'
  <2>1. MachineOK'
    BY <1>15, FailsType DEF EndUnrestored, MachineOK
  <2>2. FilesOK'
    BY <1>15 DEF EndUnrestored, FilesOK
  <2>3. LocksOK' /\ AppsOK'
    BY <1>15, LeaveType DEF EndUnrestored, LocksOK, AppsOK,
       Places, PlacesUnderMachineLease, Restoring, Working, OnVpn, OnLocal
  <2> QED
    BY <2>1, <2>2, <2>3
<1>16. ASSUME NEW a \in Apps, RestoreVpn(a) PROVE TypeOK'
  <2>1. MachineOK'
    BY <1>16, FailsType DEF RestoreVpn, MachineOK, AppsOK
  <2>2. FilesOK'
    BY <1>16 DEF RestoreVpn, FilesOK
  <2>3. LocksOK' /\ AppsOK'
    BY <1>16, LeaveType DEF RestoreVpn, LocksOK, AppsOK,
       Places, PlacesUnderMachineLease, Restoring, Working, OnVpn, OnLocal
  <2> QED
    BY <2>1, <2>2, <2>3
<1>17. ASSUME NEW a \in Apps, RestoreChrome(a) PROVE TypeOK'
  <2>1. MachineOK'
    BY <1>17, FailsType DEF RestoreChrome, MachineOK
  <2>2. FilesOK'
    BY <1>17 DEF RestoreChrome, FilesOK
  <2>3. LocksOK' /\ AppsOK'
    BY <1>17, LeaveType DEF RestoreChrome, LocksOK, AppsOK,
       Places, PlacesUnderMachineLease, Restoring, Working, OnVpn, OnLocal
  <2> QED
    BY <2>1, <2>2, <2>3
<1>18. ASSUME NEW a \in Apps, RestoredUnrecorded(a) PROVE TypeOK'
  <2>1. MachineOK'
    BY <1>18, FailsType DEF RestoredUnrecorded, MachineOK
  <2>2. FilesOK'
    BY <1>18 DEF RestoredUnrecorded, FilesOK
  <2>3. LocksOK' /\ AppsOK'
    BY <1>18, LeaveType DEF RestoredUnrecorded, LocksOK, AppsOK,
       Places, PlacesUnderMachineLease, Restoring, Working, OnVpn, OnLocal
  <2> QED
    BY <2>1, <2>2, <2>3
<1>19. ASSUME NEW a \in Apps, RecordAttempt(a) PROVE TypeOK'
  <2>1. MachineOK'
    BY <1>19, FailsType DEF RecordAttempt, MachineOK
  <2>2. FilesOK'
    <3>1. HasDocument(a)
      BY <1>19 DEF RecordAttempt, ContextInv, Bodies, Closings, Restoring
    <3>2. DocumentWritten(a)
      BY <1>19 DEF RecordAttempt, DocumentWritten, TransactionStatuses, AppsOK
    <3> QED
      BY <1>19, <3>1, <3>2, WrittenType DEF RecordAttempt, FilesOK
  <2>3. LocksOK' /\ AppsOK'
    <3>1. CASE Leave(a)
      BY <3>1, LeaveType
    <3>2. CASE ~Leave(a)
      <4>1. LocksOK'
        BY <1>19, <3>2 DEF RecordAttempt, LocksOK
      <4>2. AppsOK'
        BY <1>19, <3>2, MoveType DEF RecordAttempt, AfterSync, AppsOK, FilesOK, SyncStatuses,
           Places, PlacesUnderMachineLease, Restoring, Working, OnVpn, OnLocal
      <4> QED
        BY <4>1, <4>2
    <3> QED
      BY <3>1, <3>2
  <2> QED
    BY <2>1, <2>2, <2>3
<1>20. ASSUME NEW a \in Apps, RecordRestoration(a) PROVE TypeOK'
  <2>1. MachineOK'
    BY <1>20, FailsType DEF RecordRestoration, MachineOK
  <2>2. FilesOK'
    <3>1. \A x : \A s \in RestorationStates :
            [manifest EXCEPT ![x] = s] \in [Runs -> RestorationStates]
      BY DEF FilesOK
    <3> QED
      BY <1>20, <3>1 DEF RecordRestoration, FilesOK, RestorationStates
  <2>3. LocksOK' /\ AppsOK'
    <3>1. CASE Leave(a)
      BY <3>1, LeaveType
    <3>2. CASE ~Leave(a)
      <4>1. LocksOK'
        BY <1>20, <3>2 DEF RecordRestoration, LocksOK
      <4>2. AppsOK'
        BY <1>20, <3>2, MoveType DEF RecordRestoration, AppsOK, FilesOK, SyncStatuses,
           Places, PlacesUnderMachineLease, Restoring, Working, OnVpn, OnLocal
      <4> QED
        BY <4>1, <4>2
    <3> QED
      BY <3>1, <3>2
  <2> QED
    BY <2>1, <2>2, <2>3
<1>21. ASSUME NEW a \in Apps, RecoveryFailed(a) PROVE TypeOK'
  <2>1. MachineOK'
    BY <1>21, FailsType DEF RecoveryFailed, MachineOK
  <2>2. FilesOK'
    BY <1>21 DEF RecoveryFailed, FilesOK
  <2>3. LocksOK' /\ AppsOK'
    BY <1>21, LeaveType DEF RecoveryFailed, LocksOK, AppsOK,
       Places, PlacesUnderMachineLease, Restoring, Working, OnVpn, OnLocal
  <2> QED
    BY <2>1, <2>2, <2>3
<1>22. ASSUME NEW a \in Apps, MirrorOrigin(a) PROVE TypeOK'
  <2>1. MachineOK'
    BY <1>22, FailsType DEF MirrorOrigin, MachineOK
  <2>2. FilesOK'
    <3>1. \A x : [manifest EXCEPT ![x] = "restored"] \in [Runs -> RestorationStates]
      BY DEF FilesOK, RestorationStates
    <3> QED
      BY <1>22, <3>1 DEF MirrorOrigin, FilesOK
  <2>3. LocksOK' /\ AppsOK'
    <3>1. CASE Leave(a)
      BY <3>1, LeaveType
    <3>2. CASE ~Leave(a)
      <4>1. LocksOK'
        BY <1>22, <3>2 DEF MirrorOrigin, LocksOK
      <4>2. AppsOK'
        BY <1>22, <3>2, MoveType DEF MirrorOrigin, AppsOK, FilesOK, SyncStatuses,
           Places, PlacesUnderMachineLease, Restoring, Working, OnVpn, OnLocal
      <4> QED
        BY <4>1, <4>2
    <3> QED
      BY <3>1, <3>2
  <2> QED
    BY <2>1, <2>2, <2>3
<1>23. ASSUME NEW a \in Apps, SetManifestSync(a) PROVE TypeOK'
  <2>1. MachineOK'
    BY <1>23, FailsType DEF SetManifestSync, MachineOK
  <2>2. FilesOK'
    <3>1. HasDocument(a)
      BY <1>23 DEF SetManifestSync, ContextInv, Bodies, Closings, Restoring
    <3>2. DocumentWritten(a)
      BY <1>23 DEF SetManifestSync, DocumentWritten, TransactionStatuses, AppsOK
    <3> QED
      BY <1>23, <3>1, <3>2, WrittenType DEF SetManifestSync, FilesOK
  <2>3. LocksOK' /\ AppsOK'
    <3>1. CASE Leave(a)
      BY <3>1, LeaveType
    <3>2. CASE ~Leave(a)
      <4>1. LocksOK'
        BY <1>23, <3>2 DEF SetManifestSync, LocksOK
      <4>2. AppsOK'
        BY <1>23, <3>2, MoveType DEF SetManifestSync, AfterSync, AppsOK, FilesOK, SyncStatuses,
           Places, PlacesUnderMachineLease, Restoring, Working, OnVpn, OnLocal
      <4> QED
        BY <4>1, <4>2
    <3> QED
      BY <3>1, <3>2
  <2> QED
    BY <2>1, <2>2, <2>3
<1>24. ASSUME NEW a \in Apps, DeferMirror(a) PROVE TypeOK'
  <2>1. MachineOK'
    BY <1>24, FailsType DEF DeferMirror, MachineOK
  <2>2. FilesOK'
    <3>1. HasDocument(a)
      BY <1>24 DEF DeferMirror, ContextInv, Bodies, Closings, Restoring
    <3>2. DocumentWritten(a)
      BY <1>24 DEF DeferMirror, DocumentWritten, TransactionStatuses, AppsOK
    <3> QED
      BY <1>24, <3>1, <3>2, WrittenType DEF DeferMirror, FilesOK
  <2>3. LocksOK' /\ AppsOK'
    <3>1. CASE Leave(a)
      BY <3>1, LeaveType
    <3>2. CASE ~Leave(a)
      <4>1. LocksOK'
        BY <1>24, <3>2 DEF DeferMirror, LocksOK
      <4>2. AppsOK'
        BY <1>24, <3>2, MoveType DEF DeferMirror, AfterSync, AppsOK, FilesOK, SyncStatuses,
           Places, PlacesUnderMachineLease, Restoring, Working, OnVpn, OnLocal
      <4> QED
        BY <4>1, <4>2
    <3> QED
      BY <3>1, <3>2
  <2> QED
    BY <2>1, <2>2, <2>3
<1>25. ASSUME NEW a \in Apps, ClearActive(a) PROVE TypeOK'
  <2>1. MachineOK'
    BY <1>25, FailsType DEF ClearActive, MachineOK
  <2>2. FilesOK'
    BY <1>25 DEF ClearActive, FilesOK
  <2>3. LocksOK' /\ AppsOK'
    <3>1. CASE Leave(a)
      BY <3>1, LeaveType
    <3>2. CASE ~Leave(a)
      <4>1. LocksOK'
        BY <1>25, <3>2 DEF ClearActive, LocksOK
      <4>2. AppsOK'
        BY <1>25, <3>2, MoveType DEF ClearActive, AppsOK, FilesOK, SyncStatuses,
           Places, PlacesUnderMachineLease, Restoring, Working, OnVpn, OnLocal
      <4> QED
        BY <4>1, <4>2
    <3> QED
      BY <3>1, <3>2
  <2> QED
    BY <2>1, <2>2, <2>3
<1>26. ASSUME NEW a \in Apps, Crash(a) PROVE TypeOK'
  <2>1. MachineOK'
    BY <1>26, ConstantsAssumption DEF Crash, MachineOK
  <2>2. FilesOK'
    BY <1>26 DEF Crash, FilesOK
  <2>3. LocksOK' /\ AppsOK'
    BY <1>26, LeaveType DEF Crash, LocksOK, AppsOK,
       Places, PlacesUnderMachineLease, Restoring, Working, OnVpn, OnLocal
  <2> QED
    BY <2>1, <2>2, <2>3
<1>27. ASSUME NEW a \in Apps, NEW k \in AllKinds, Start(a, k) PROVE TypeOK'
  <2>1. MachineOK'
    BY <1>27, FailsType DEF Start, MachineOK
  <2>2. FilesOK'
    BY <1>27 DEF Start, FilesOK
  <2>3. LocksOK' /\ AppsOK'
    <3>1. relay[home[a]] \in Relays /\ relay[home[a]] # None
      BY ConstantsAssumption DEF MachineOK
    <3> QED
      BY <1>27, <3>1 DEF Start, LocksOK, AppsOK, FilesOK,
         Places, PlacesUnderMachineLease, Restoring, Working, OnVpn, OnLocal
  <2> QED
    BY <2>1, <2>2, <2>3
<1>28. ASSUME NEW c \in Checkouts, NEW r \in Relays, ChangeRelay(c, r) PROVE TypeOK'
  <2>1. MachineOK'
    BY <1>28, ConstantsAssumption DEF ChangeRelay, MachineOK
  <2>2. FilesOK'
    BY <1>28 DEF ChangeRelay, FilesOK
  <2>3. LocksOK' /\ AppsOK'
    BY <1>28, LeaveType DEF ChangeRelay, LocksOK, AppsOK,
       Places, PlacesUnderMachineLease, Restoring, Working, OnVpn, OnLocal
  <2> QED
    BY <2>1, <2>2, <2>3
<1>29. ASSUME NEW r \in Runs, DeleteRun(r) PROVE TypeOK'
  <2>1. MachineOK'
    BY <1>29, FailsType DEF DeleteRun, MachineOK
  <2>2. FilesOK'
    BY <1>29 DEF DeleteRun, FilesOK, RestorationStates
  <2>3. LocksOK' /\ AppsOK'
    BY <1>29, LeaveType DEF DeleteRun, LocksOK, AppsOK,
       Places, PlacesUnderMachineLease, Restoring, Working, OnVpn, OnLocal
  <2> QED
    BY <2>1, <2>2, <2>3
<1>30. CASE UNCHANGED vars
  BY <1>30 DEF vars, MachineOK, FilesOK, LocksOK, AppsOK
<1> QED
  BY <1>1, <1>2, <1>3, <1>4, <1>5, <1>6, <1>7, <1>8, <1>9, <1>10, <1>11,
     <1>12, <1>13, <1>14, <1>15, <1>16, <1>17, <1>18, <1>19, <1>20, <1>21,
     <1>22, <1>23, <1>24, <1>25, <1>26, <1>27, <1>28, <1>29, <1>30 DEF Next,
     Proceed

LEMMA InitContextInv == Init => ContextInv
  BY DEF Init, ContextInv, Closings, Bodies, OnVpn, OnLocal, Restoring

\* Nothing is ever taken back from the journal, and other processes' contexts
\* are their own.
LEMMA ContextKept ==
  ASSUME TypeOK, ContextInv, NEW a \in Apps,
         \A t \in Tx : docs[t] # None => docs'[t] # None,
         \A b \in Apps \ {a} : /\ pc'[b] = pc[b] /\ task'[b] = task[b]
                                /\ tx'[b] = tx[b],
         active' # None => docs'[active'] # None,
         pc'[a] \in Closings => HasDocument(a)',
         pc'[a] \in Bodies /\ task'[a] # "legacy" => HasDocument(a)',
         pc'[a] = "start" /\ task'[a] = "reconcile" => HasDocument(a)'
  PROVE  ContextInv'
  BY DEF ContextInv, HasDocument, TypeOK

LEMMA LeaveContext ==
  ASSUME TypeOK, ContextInv, NEW a \in Apps, Leave(a), UNCHANGED <<docs, active>>
  PROVE  ContextInv'
<1>1. pc'[a] = "idle" /\ "idle" \notin Closings \cup Bodies
  BY DEF Leave, TypeOK, Closings, Bodies, OnVpn, OnLocal, Restoring
<1>2. \A b \in Apps \ {a} : pc'[b] = pc[b] /\ task'[b] = task[b] /\ tx'[b] = tx[b]
  BY DEF Leave, TypeOK
<1>3. active' # None => docs'[active'] # None
  BY DEF ContextInv
<1> QED
  BY <1>1, <1>2, <1>3, ContextKept DEF HasDocument

LEMMA CommandContext ==
  ASSUME TypeOK, ContextInv, NEW a \in Apps, NEW p \in Bodies, NEW m,
         task[a] # "legacy" => HasDocument(a), Command(a, p, m)
  PROVE  ContextInv'
<1>1. \A b \in Apps \ {a} : pc'[b] = pc[b] /\ task'[b] = task[b] /\ tx'[b] = tx[b]
  BY DEF Command, Finally, locals, TypeOK
<1>2. UNCHANGED <<docs, active, task, tx>> /\ pc'[a] \in Bodies
  BY DEF Command, Finally, files, locals, TypeOK, Bodies, Restoring
<1>3. pc'[a] \notin Closings /\ pc'[a] # "start"
  BY <1>2 DEF Bodies, Closings, OnVpn, OnLocal, Restoring
<1> QED
  BY <1>1, <1>2, <1>3, ContextKept DEF HasDocument, ContextInv

LEMMA StepContextInv == TypeOK /\ ContextInv /\ [Next]_vars => ContextInv'
<1> SUFFICES ASSUME TypeOK, ContextInv, [Next]_vars PROVE ContextInv'
  OBVIOUS
<1> USE DEF files, locks, locals
<1>1. ASSUME NEW a \in Apps, AcquireMachine(a) PROVE ContextInv'
  BY <1>1 DEF AcquireMachine, AllKinds, ContextInv, HasDocument, TypeOK, Closings,
     Bodies, OnVpn, OnLocal, Restoring
<1>2. ASSUME NEW a \in Apps, TurnedAway(a) PROVE ContextInv'
  BY <1>2, LeaveContext DEF TurnedAway, ContextInv, HasDocument, TypeOK, Closings,
     Bodies, OnVpn, OnLocal, Restoring
<1>3. ASSUME NEW a \in Apps, Guard(a) PROVE ContextInv'
  BY <1>3, LeaveContext DEF Guard, ContextInv, HasDocument, TypeOK, Closings,
     Bodies, OnVpn, OnLocal, Restoring
<1>4. ASSUME NEW a \in Apps, AcquireWorkspace(a) PROVE ContextInv'
  BY <1>4, LeaveContext DEF AcquireWorkspace, ContextInv, HasDocument, TypeOK, Closings,
     Bodies, OnVpn, OnLocal, Restoring
<1>5. ASSUME NEW a \in Apps, NothingPending(a) PROVE ContextInv'
  BY <1>5, LeaveContext DEF NothingPending, ContextInv, HasDocument, TypeOK, Closings,
     Bodies, OnVpn, OnLocal, Restoring
<1>6. ASSUME NEW a \in Apps, ForeignPending(a) PROVE ContextInv'
  BY <1>6, LeaveContext DEF ForeignPending, ContextInv, HasDocument, TypeOK, Closings,
     Bodies, OnVpn, OnLocal, Restoring
<1>7. ASSUME NEW a \in Apps, RecoverPending(a) PROVE ContextInv'
  BY <1>7, LeaveContext DEF RecoverPending, ContextInv, HasDocument, TypeOK, Closings,
     Bodies, OnVpn, OnLocal, Restoring
<1>8. ASSUME NEW a \in Apps, Prepare(a) PROVE ContextInv'
  BY <1>8, LeaveContext DEF Prepare, ContextInv, HasDocument, TypeOK, Closings,
     Bodies, OnVpn, OnLocal, Restoring
<1>9. ASSUME NEW a \in Apps, WriteDocument(a) PROVE ContextInv'
  <2>1. CASE Leave(a) /\ UNCHANGED <<docs, active>>
    BY <2>1, LeaveContext
  <2>2. ASSUME NEW t \in Tx, docs[t] = None, Goto(a, "pointer"),
               docs' = [docs EXCEPT ![t] =
                          [origin |-> home[a], run |-> run[a], target |-> goal[a],
                           status |-> "pending", sync |-> "pending"]],
               tx' = [tx EXCEPT ![a] = t], UNCHANGED <<task, active>>
        PROVE  ContextInv'
    <3>1. [origin |-> home[a], run |-> run[a], target |-> goal[a],
           status |-> "pending", sync |-> "pending"] \in Documents
      BY <1>9, ConstantsAssumption
      DEF WriteDocument, TypeOK, Documents, TransactionStatuses, SyncStatuses, Places
    <3>2. docs'[t] # None
      BY <2>2, <3>1, DocumentsAssumption DEF TypeOK
    <3> QED
      BY <2>2, <3>2 DEF ContextInv, HasDocument, TypeOK, Closings,
         Bodies, OnVpn, OnLocal, Restoring
  <2> QED
    BY <1>9, <2>1, <2>2 DEF WriteDocument
<1>10. ASSUME NEW a \in Apps, WritePointer(a) PROVE ContextInv'
  BY <1>10, LeaveContext DEF WritePointer, ContextInv, HasDocument, TypeOK, Closings,
     Bodies, OnVpn, OnLocal, Restoring
<1>11. ASSUME NEW a \in Apps, RouteChrome(a) PROVE ContextInv'
  BY <1>11, CommandContext DEF RouteChrome, ContextInv, HasDocument, TypeOK, Closings,
     Bodies, OnVpn, OnLocal, Restoring
<1>12. ASSUME NEW a \in Apps, ConnectRelay(a) PROVE ContextInv'
  BY <1>12, CommandContext DEF ConnectRelay, ContextInv, HasDocument, TypeOK, Closings,
     Bodies, OnVpn, OnLocal, Restoring
<1>13. ASSUME NEW a \in Apps, DisconnectForLocal(a) PROVE ContextInv'
  BY <1>13, CommandContext DEF DisconnectForLocal, ContextInv, HasDocument, TypeOK, Closings,
     Bodies, OnVpn, OnLocal, Restoring
<1>14. ASSUME NEW a \in Apps, EndSteps(a) PROVE ContextInv'
  BY <1>14 DEF EndSteps, Finally, ContextInv, HasDocument, TypeOK, Closings,
     Bodies, OnVpn, OnLocal, Restoring
<1>15. ASSUME NEW a \in Apps, EndUnrestored(a) PROVE ContextInv'
  BY <1>15, LeaveContext DEF EndUnrestored, ContextInv, HasDocument, TypeOK, Closings,
     Bodies, OnVpn, OnLocal, Restoring
<1>16. ASSUME NEW a \in Apps, RestoreVpn(a) PROVE ContextInv'
  BY <1>16, LeaveContext DEF RestoreVpn, ContextInv, HasDocument, TypeOK, Closings,
     Bodies, OnVpn, OnLocal, Restoring
<1>17. ASSUME NEW a \in Apps, RestoreChrome(a) PROVE ContextInv'
  BY <1>17, LeaveContext DEF RestoreChrome, ContextInv, HasDocument, TypeOK, Closings,
     Bodies, OnVpn, OnLocal, Restoring
<1>18. ASSUME NEW a \in Apps, RestoredUnrecorded(a) PROVE ContextInv'
  BY <1>18, LeaveContext DEF RestoredUnrecorded, ContextInv, HasDocument, TypeOK, Closings,
     Bodies, OnVpn, OnLocal, Restoring
<1>19. ASSUME NEW a \in Apps, RecordAttempt(a) PROVE ContextInv'
  <2>1. HasDocument(a) /\ DocumentWritten(a)
    BY <1>19
    DEF RecordAttempt, DocumentWritten, TransactionStatuses, ContextInv, HasDocument, TypeOK,
        Closings,
     Bodies, OnVpn, OnLocal, Restoring
  <2>2. \A t \in Tx : docs[t] # None => docs'[t] # None
    BY <2>1, WrittenType
  <2>3. pc'[a] = "idle" \/ UNCHANGED <<task, tx>>
    BY <1>19 DEF RecordAttempt, Leave, TypeOK
  <2> QED
    BY <1>19, <2>1, <2>2, <2>3
    DEF RecordAttempt, AfterSync, Leave, ContextInv, HasDocument, TypeOK, Closings,
     Bodies, OnVpn, OnLocal, Restoring
<1>20. ASSUME NEW a \in Apps, RecordRestoration(a) PROVE ContextInv'
  BY <1>20, LeaveContext DEF RecordRestoration, ContextInv, HasDocument, TypeOK, Closings,
     Bodies, OnVpn, OnLocal, Restoring
<1>21. ASSUME NEW a \in Apps, RecoveryFailed(a) PROVE ContextInv'
  BY <1>21, LeaveContext DEF RecoveryFailed, ContextInv, HasDocument, TypeOK, Closings,
     Bodies, OnVpn, OnLocal, Restoring
<1>22. ASSUME NEW a \in Apps, MirrorOrigin(a) PROVE ContextInv'
  BY <1>22, LeaveContext DEF MirrorOrigin, ContextInv, HasDocument, TypeOK, Closings,
     Bodies, OnVpn, OnLocal, Restoring
<1>23. ASSUME NEW a \in Apps, SetManifestSync(a) PROVE ContextInv'
  <2>1. HasDocument(a) /\ DocumentWritten(a)
    BY <1>23
    DEF SetManifestSync, DocumentWritten, TransactionStatuses, ContextInv, HasDocument, TypeOK,
        Closings,
     Bodies, OnVpn, OnLocal, Restoring
  <2>2. \A t \in Tx : docs[t] # None => docs'[t] # None
    BY <2>1, WrittenType
  <2>3. pc'[a] = "idle" \/ UNCHANGED <<task, tx>>
    BY <1>23 DEF SetManifestSync, Leave, TypeOK
  <2> QED
    BY <1>23, <2>1, <2>2, <2>3
    DEF SetManifestSync, AfterSync, Leave, ContextInv, HasDocument, TypeOK, Closings,
     Bodies, OnVpn, OnLocal, Restoring
<1>24. ASSUME NEW a \in Apps, DeferMirror(a) PROVE ContextInv'
  <2>1. HasDocument(a) /\ DocumentWritten(a)
    BY <1>24
    DEF DeferMirror, DocumentWritten, TransactionStatuses, ContextInv, HasDocument, TypeOK,
        Closings,
     Bodies, OnVpn, OnLocal, Restoring
  <2>2. \A t \in Tx : docs[t] # None => docs'[t] # None
    BY <2>1, WrittenType
  <2>3. pc'[a] = "idle" \/ UNCHANGED <<task, tx>>
    BY <1>24 DEF DeferMirror, Leave, TypeOK
  <2> QED
    BY <1>24, <2>1, <2>2, <2>3
    DEF DeferMirror, AfterSync, Leave, ContextInv, HasDocument, TypeOK, Closings,
     Bodies, OnVpn, OnLocal, Restoring
<1>25. ASSUME NEW a \in Apps, ClearActive(a) PROVE ContextInv'
  <2>1. CASE ~Leave(a)
    BY <2>1, <1>25 DEF ClearActive, ContextInv, HasDocument, TypeOK, Closings,
     Bodies, OnVpn, OnLocal, Restoring
  <2>2. CASE Leave(a)
    BY <2>2, <1>25 DEF ClearActive, Leave, ContextInv, HasDocument, TypeOK, Closings,
     Bodies, OnVpn, OnLocal, Restoring
  <2> QED
    BY <2>1, <2>2
<1>26. ASSUME NEW a \in Apps, Crash(a) PROVE ContextInv'
  BY <1>26, LeaveContext DEF Crash, ContextInv, HasDocument, TypeOK, Closings,
     Bodies, OnVpn, OnLocal, Restoring
<1>27. ASSUME NEW a \in Apps, NEW k \in AllKinds, Start(a, k) PROVE ContextInv'
  BY <1>27, LeaveContext DEF Start, ContextInv, HasDocument, TypeOK, Closings,
     Bodies, OnVpn, OnLocal, Restoring
<1>28. ASSUME NEW c \in Checkouts, NEW r \in Relays, ChangeRelay(c, r) PROVE ContextInv'
  BY <1>28, LeaveContext DEF ChangeRelay, ContextInv, HasDocument, TypeOK, Closings,
     Bodies, OnVpn, OnLocal, Restoring
<1>29. ASSUME NEW r \in Runs, DeleteRun(r) PROVE ContextInv'
  BY <1>29, LeaveContext DEF DeleteRun, ContextInv, HasDocument, TypeOK, Closings,
     Bodies, OnVpn, OnLocal, Restoring
<1>30. CASE UNCHANGED vars
  BY <1>30 DEF vars, ContextInv, HasDocument
<1> QED
  BY <1>1, <1>2, <1>3, <1>4, <1>5, <1>6, <1>7, <1>8, <1>9, <1>10, <1>11,
     <1>12, <1>13, <1>14, <1>15, <1>16, <1>17, <1>18, <1>19, <1>20, <1>21,
     <1>22, <1>23, <1>24, <1>25, <1>26, <1>27, <1>28, <1>29, <1>30 DEF Next,
     Proceed

\* Every state of the machine-policy model is well typed, active.json points to
\* a document of the journal or to none, and so does every task that is in the
\* body of a workflow or in its end; only what an older version left behind is
\* undone without one.  Nobody else works on a transaction that was never written
\* (MachinePolicyJournal.prepare, recover_pending).
THEOREM Typing == Spec => [](TypeOK /\ ContextInv)
<1>1. Init => TypeOK /\ ContextInv
  BY InitTypeOK, InitContextInv
<1>2. TypeOK /\ ContextInv /\ [Next]_vars => (TypeOK /\ ContextInv)'
  BY StepTypeOK, StepContextInv
<1> QED
  BY <1>1, <1>2, PTL DEF Spec

-----------------------------------------------------------------------------
(***************************************************************************)
(* Safety.  Only the holder of the machine lease is at work on the machine *)
(* and on the journal, so what its task has established stands until its   *)
(* own next step: four facts about every process, vacuous outside.         *)
(***************************************************************************)
\* Whoever is past AcquireMachine holds machine-policy.lock until it leaves.
Leased(a) == pc[a] \in PlacesUnderMachineLease => machineLease = a

\* Which tasks come where.
Stage(a) ==
    /\ pc[a] = "guard" => task[a] \in {"legacy", "manual"}
    /\ pc[a] = "recover" => task[a] \in {"flow", "restore"}
    /\ pc[a] = "workspace" => task[a] \in {"flow", "legacy", "manual"}
    /\ pc[a] = "prepare" => task[a] \in {"flow", "manual"}
    /\ pc[a] \in {"doc", "pointer"} => task[a] = "flow"
    /\ pc[a] \in {"manifest", "defer", "clear"} => task[a] \in {"flow", "restore"}
    /\ pc[a] \in {"mirror", "sync"} => task[a] \in {"flow", "restore", "reconcile"}
    /\ pc[a] \in Bodies => task[a] \in {"flow", "restore", "legacy"}

\* Its transaction is the open one and its checkout's.
Opened(a) == active = tx[a] /\ Owned(a, tx[a])

\* How the task stands to the journal where it is.
Work(a) ==
    /\ pc[a] \in {"workspace", "prepare", "doc", "pointer", "manual"} => active = None
    /\ pc[a] = "pointer" => Owned(a, tx[a]) /\ docs[tx[a]].status = "pending"
    /\ pc[a] \in Bodies /\ task[a] = "legacy" => active = None
    /\ pc[a] \in Bodies /\ task[a] # "legacy" =>
          Opened(a) /\ docs[tx[a]].status \in {"pending", "failed"}
    /\ pc[a] \in {"manifest", "mirror", "sync", "defer", "clear"}
          /\ task[a] # "reconcile" => Opened(a)
    /\ pc[a] \in {"manifest", "mirror"} /\ task[a] # "reconcile" /\ ok[a] =>
          AlreadyRestored(tx[a])
    /\ pc[a] \in {"sync", "defer", "clear"} /\ task[a] # "reconcile" =>
          AlreadyRestored(tx[a])
    /\ pc[a] = "record" /\ ok[a] => touched \notin Tx

\* How the machine stands to the step it is in.
Route(a) ==
    /\ pc[a] \in {"routing"} \cup OnVpn => ~machine.excluded
    /\ pc[a] = "local" /\ task[a] = "legacy" => ~machine.excluded
    /\ pc[a] \in OnVpn => machine.vpn = goal[a]
    /\ pc[a] \in OnLocal => machine.vpn = Off

AppInv(a) == Leased(a) /\ Stage(a) /\ Work(a) /\ Route(a)
PolicyInv == TouchedIsJournaled /\ \A a \in Apps : AppInv(a)


\* The other processes are where they were.
OthersKept(a) ==
    \A b \in Apps \ {a} : /\ pc'[b] = pc[b] /\ task'[b] = task[b]
                           /\ goal'[b] = goal[b] /\ tx'[b] = tx[b]
                           /\ ok'[b] = ok[b]

\* What the properties below are about stays.
StandsStill == UNCHANGED <<machine, active, docs, touched>>

\* The lease is kept, given back by its holder, or taken when it is free.
LeaseMoves(a) ==
    \/ machineLease' = machineLease
    \/ machineLease' = IF machineLease = a THEN None ELSE machineLease
    \/ machineLease = None

\* A step of one process leaves the others' facts alone: those under the lease
\* have it, so the one that steps has not and changes nothing of theirs.
LEMMA OneAtATime ==
  ASSUME TypeOK, PolicyInv, NEW a \in Apps, OthersKept(a), LeaseMoves(a),
         pc[a] \in PlacesUnderMachineLease \/ StandsStill,
         TouchedIsJournaled', AppInv(a)'
  PROVE  PolicyInv'
<1> SUFFICES ASSUME NEW b \in Apps \ {a} PROVE AppInv(b)'
  BY DEF PolicyInv
<1>1. /\ pc'[b] = pc[b] /\ task'[b] = task[b] /\ goal'[b] = goal[b]
      /\ tx'[b] = tx[b] /\ ok'[b] = ok[b]
  BY DEF OthersKept
<1>2. AppInv(b) /\ Leased(a)
  BY DEF PolicyInv, AppInv
<1>3. CASE pc[b] \notin PlacesUnderMachineLease
  BY <1>1, <1>3 DEF AppInv, Leased, Stage, Work, Route, Bodies,
     PlacesUnderMachineLease, Restoring, Working, OnVpn, OnLocal
<1>4. CASE pc[b] \in PlacesUnderMachineLease
  <2>1. machineLease = b /\ b # a /\ machineLease # None
    BY <1>2, <1>4, ConstantsAssumption DEF AppInv, Leased
  <2>2. machineLease' = b /\ StandsStill
    BY <1>2, <2>1 DEF LeaseMoves, Leased
  <2>3. Leased(b)' /\ Stage(b)' /\ Route(b)'
    BY <1>1, <1>2, <2>2 DEF AppInv, Leased, Stage, Route, StandsStill
  <2>4. Work(b)'
    BY <1>1, <1>2, <2>2 DEF AppInv, Work, Opened, Owned, AlreadyRestored, StandsStill
  <2> QED
    BY <2>3, <2>4 DEF AppInv
<1> QED
  BY <1>3, <1>4

\* Without the lease nothing is claimed.
LEMMA IdleIsFree ==
  ASSUME NEW a \in Apps, pc'[a] \in {"idle", "start", "plain"}
  PROVE  AppInv(a)'
  BY DEF AppInv, Leased, Stage, Work, Route, Bodies,
     PlacesUnderMachineLease, Restoring, Working, OnVpn, OnLocal

LEMMA LeaveKeepsOthers ==
  ASSUME TypeOK, NEW a \in Apps, Leave(a)
  PROVE  OthersKept(a) /\ LeaseMoves(a) /\ pc'[a] = "idle"
  BY DEF Leave, Free, OthersKept, LeaseMoves, TypeOK

LEMMA LeaveKeepsInv ==
  ASSUME TypeOK, PolicyInv, NEW a \in Apps, Leave(a), StandsStill
  PROVE  PolicyInv'
<1>1. TouchedIsJournaled'
  BY DEF PolicyInv, TouchedIsJournaled, StandsStill
<1> QED
  BY <1>1, LeaveKeepsOthers, IdleIsFree, OneAtATime

\* A write of the status, and a write of the sync status.
LEMMA StatusWritten ==
  ASSUME TypeOK, NEW a \in Apps, HasDocument(a), NEW s,
         docs' = [docs EXCEPT ![tx[a]].status = s]
  PROVE  /\ docs'[tx[a]].status = s
         /\ docs'[tx[a]].origin = docs[tx[a]].origin
         /\ docs'[tx[a]].target = docs[tx[a]].target
         /\ \A t \in Tx \ {tx[a]} : docs'[t] = docs[t]
  BY DocumentType DEF TypeOK, Documents

LEMMA SyncWritten ==
  ASSUME TypeOK, NEW a \in Apps, HasDocument(a), NEW s,
         docs' = [docs EXCEPT ![tx[a]].sync = s]
  PROVE  \A t \in Tx : /\ docs'[t].status = docs[t].status
                       /\ docs'[t].origin = docs[t].origin
                       /\ docs'[t].target = docs[t].target
  BY DocumentType DEF TypeOK, Documents

\* The repair of a transaction that is not restored is asked for; a restored
\* one owes the machine nothing.
LEMMA NothingOwed ==
  ASSUME TypeOK, PolicyInv, NEW a \in Apps,
         \/ Work(a) /\ pc[a] \in {"workspace", "prepare", "doc", "pointer", "manual"}
         \/ Opened(a) /\ AlreadyRestored(tx[a])
  PROVE  touched \notin Tx
<1>1. active = None \/ (active = tx[a] /\ AlreadyRestored(tx[a]))
  BY DEF Work, Opened
<1> QED
  BY <1>1, ConstantsAssumption DEF PolicyInv, TouchedIsJournaled, AlreadyRestored

\* A process steps alone: past AcquireMachine, or without touching the rest.
LEMMA StepsAlone ==
  ASSUME TypeOK, NEW a \in Apps, Proceed(a)
  PROVE  /\ OthersKept(a) /\ LeaseMoves(a)
         /\ pc[a] \in PlacesUnderMachineLease \/ StandsStill
<1> USE LeaveKeepsOthers DEF files, locks, locals
<1>1. CASE AcquireMachine(a)
  <2>1. OthersKept(a) /\ LeaseMoves(a)
    BY <1>1 DEF AcquireMachine, OthersKept, LeaseMoves, TypeOK
  <2>2. pc[a] \in PlacesUnderMachineLease \/ StandsStill
    BY <1>1 DEF AcquireMachine, StandsStill,
       PlacesUnderMachineLease, Restoring, Working, OnVpn, OnLocal
  <2> QED
    BY <2>1, <2>2
<1>2. CASE TurnedAway(a)
  <2>1. OthersKept(a) /\ LeaseMoves(a)
    BY <1>2 DEF TurnedAway, OthersKept, LeaseMoves, TypeOK
  <2>2. pc[a] \in PlacesUnderMachineLease \/ StandsStill
    BY <1>2 DEF TurnedAway, StandsStill,
       PlacesUnderMachineLease, Restoring, Working, OnVpn, OnLocal
  <2> QED
    BY <2>1, <2>2
<1>3. CASE Guard(a)
  <2>1. OthersKept(a) /\ LeaseMoves(a)
    BY <1>3 DEF Guard, OthersKept, LeaseMoves, TypeOK
  <2>2. pc[a] \in PlacesUnderMachineLease \/ StandsStill
    BY <1>3 DEF Guard, StandsStill,
       PlacesUnderMachineLease, Restoring, Working, OnVpn, OnLocal
  <2> QED
    BY <2>1, <2>2
<1>4. CASE AcquireWorkspace(a)
  <2>1. OthersKept(a) /\ LeaseMoves(a)
    BY <1>4 DEF AcquireWorkspace, OthersKept, LeaseMoves, TypeOK
  <2>2. pc[a] \in PlacesUnderMachineLease \/ StandsStill
    BY <1>4 DEF AcquireWorkspace, StandsStill,
       PlacesUnderMachineLease, Restoring, Working, OnVpn, OnLocal
  <2> QED
    BY <2>1, <2>2
<1>5. CASE NothingPending(a)
  <2>1. OthersKept(a) /\ LeaseMoves(a)
    BY <1>5 DEF NothingPending, OthersKept, LeaseMoves, TypeOK
  <2>2. pc[a] \in PlacesUnderMachineLease \/ StandsStill
    BY <1>5 DEF NothingPending, StandsStill,
       PlacesUnderMachineLease, Restoring, Working, OnVpn, OnLocal
  <2> QED
    BY <2>1, <2>2
<1>6. CASE ForeignPending(a)
  <2>1. OthersKept(a) /\ LeaseMoves(a)
    BY <1>6 DEF ForeignPending, OthersKept, LeaseMoves, TypeOK
  <2>2. pc[a] \in PlacesUnderMachineLease \/ StandsStill
    BY <1>6 DEF ForeignPending, StandsStill,
       PlacesUnderMachineLease, Restoring, Working, OnVpn, OnLocal
  <2> QED
    BY <2>1, <2>2
<1>7. CASE RecoverPending(a)
  <2>1. OthersKept(a) /\ LeaseMoves(a)
    BY <1>7 DEF RecoverPending, OthersKept, LeaseMoves, TypeOK
  <2>2. pc[a] \in PlacesUnderMachineLease \/ StandsStill
    BY <1>7 DEF RecoverPending, StandsStill,
       PlacesUnderMachineLease, Restoring, Working, OnVpn, OnLocal
  <2> QED
    BY <2>1, <2>2
<1>8. CASE Prepare(a)
  <2>1. OthersKept(a) /\ LeaseMoves(a)
    BY <1>8 DEF Prepare, OthersKept, LeaseMoves, TypeOK
  <2>2. pc[a] \in PlacesUnderMachineLease \/ StandsStill
    BY <1>8 DEF Prepare, StandsStill,
       PlacesUnderMachineLease, Restoring, Working, OnVpn, OnLocal
  <2> QED
    BY <2>1, <2>2
<1>9. CASE WriteDocument(a)
  <2>1. OthersKept(a) /\ LeaseMoves(a)
    BY <1>9 DEF WriteDocument, OthersKept, LeaseMoves, TypeOK
  <2>2. pc[a] \in PlacesUnderMachineLease \/ StandsStill
    BY <1>9 DEF WriteDocument, StandsStill,
       PlacesUnderMachineLease, Restoring, Working, OnVpn, OnLocal
  <2> QED
    BY <2>1, <2>2
<1>10. CASE WritePointer(a)
  <2>1. OthersKept(a) /\ LeaseMoves(a)
    BY <1>10 DEF WritePointer, OthersKept, LeaseMoves, TypeOK
  <2>2. pc[a] \in PlacesUnderMachineLease \/ StandsStill
    BY <1>10 DEF WritePointer, StandsStill,
       PlacesUnderMachineLease, Restoring, Working, OnVpn, OnLocal
  <2> QED
    BY <2>1, <2>2
<1>11. CASE RouteChrome(a)
  <2>1. OthersKept(a) /\ LeaseMoves(a)
    BY <1>11 DEF RouteChrome, OthersKept, LeaseMoves, TypeOK, Command, Finally, Touched
  <2>2. pc[a] \in PlacesUnderMachineLease \/ StandsStill
    BY <1>11 DEF RouteChrome, StandsStill,
       PlacesUnderMachineLease, Restoring, Working, OnVpn, OnLocal
  <2> QED
    BY <2>1, <2>2
<1>12. CASE ConnectRelay(a)
  <2>1. OthersKept(a) /\ LeaseMoves(a)
    BY <1>12 DEF ConnectRelay, OthersKept, LeaseMoves, TypeOK, Command, Finally, Touched
  <2>2. pc[a] \in PlacesUnderMachineLease \/ StandsStill
    BY <1>12 DEF ConnectRelay, StandsStill,
       PlacesUnderMachineLease, Restoring, Working, OnVpn, OnLocal
  <2> QED
    BY <2>1, <2>2
<1>13. CASE DisconnectForLocal(a)
  <2>1. OthersKept(a) /\ LeaseMoves(a)
    BY <1>13 DEF DisconnectForLocal, OthersKept, LeaseMoves, TypeOK, Command, Finally, Touched
  <2>2. pc[a] \in PlacesUnderMachineLease \/ StandsStill
    BY <1>13 DEF DisconnectForLocal, StandsStill,
       PlacesUnderMachineLease, Restoring, Working, OnVpn, OnLocal
  <2> QED
    BY <2>1, <2>2
<1>14. CASE EndSteps(a)
  <2>1. OthersKept(a) /\ LeaseMoves(a)
    BY <1>14 DEF EndSteps, OthersKept, LeaseMoves, TypeOK, Finally
  <2>2. pc[a] \in PlacesUnderMachineLease \/ StandsStill
    BY <1>14 DEF EndSteps, StandsStill,
       PlacesUnderMachineLease, Restoring, Working, OnVpn, OnLocal
  <2> QED
    BY <2>1, <2>2
<1>15. CASE EndUnrestored(a)
  <2>1. OthersKept(a) /\ LeaseMoves(a)
    BY <1>15 DEF EndUnrestored, OthersKept, LeaseMoves, TypeOK
  <2>2. pc[a] \in PlacesUnderMachineLease \/ StandsStill
    BY <1>15 DEF EndUnrestored, StandsStill,
       PlacesUnderMachineLease, Restoring, Working, OnVpn, OnLocal
  <2> QED
    BY <2>1, <2>2
<1>16. CASE RestoreVpn(a)
  <2>1. OthersKept(a) /\ LeaseMoves(a)
    BY <1>16 DEF RestoreVpn, OthersKept, LeaseMoves, TypeOK
  <2>2. pc[a] \in PlacesUnderMachineLease \/ StandsStill
    BY <1>16 DEF RestoreVpn, StandsStill,
       PlacesUnderMachineLease, Restoring, Working, OnVpn, OnLocal
  <2> QED
    BY <2>1, <2>2
<1>17. CASE RestoreChrome(a)
  <2>1. OthersKept(a) /\ LeaseMoves(a)
    BY <1>17 DEF RestoreChrome, OthersKept, LeaseMoves, TypeOK
  <2>2. pc[a] \in PlacesUnderMachineLease \/ StandsStill
    BY <1>17 DEF RestoreChrome, StandsStill,
       PlacesUnderMachineLease, Restoring, Working, OnVpn, OnLocal
  <2> QED
    BY <2>1, <2>2
<1>18. CASE RestoredUnrecorded(a)
  <2>1. OthersKept(a) /\ LeaseMoves(a)
    BY <1>18 DEF RestoredUnrecorded, OthersKept, LeaseMoves, TypeOK
  <2>2. pc[a] \in PlacesUnderMachineLease \/ StandsStill
    BY <1>18 DEF RestoredUnrecorded, StandsStill,
       PlacesUnderMachineLease, Restoring, Working, OnVpn, OnLocal
  <2> QED
    BY <2>1, <2>2
<1>19. CASE RecordAttempt(a)
  <2>1. OthersKept(a) /\ LeaseMoves(a)
    BY <1>19 DEF RecordAttempt, OthersKept, LeaseMoves, TypeOK
  <2>2. pc[a] \in PlacesUnderMachineLease \/ StandsStill
    BY <1>19 DEF RecordAttempt, StandsStill,
       PlacesUnderMachineLease, Restoring, Working, OnVpn, OnLocal
  <2> QED
    BY <2>1, <2>2
<1>20. CASE RecordRestoration(a)
  <2>1. OthersKept(a) /\ LeaseMoves(a)
    BY <1>20 DEF RecordRestoration, OthersKept, LeaseMoves, TypeOK
  <2>2. pc[a] \in PlacesUnderMachineLease \/ StandsStill
    BY <1>20 DEF RecordRestoration, StandsStill,
       PlacesUnderMachineLease, Restoring, Working, OnVpn, OnLocal
  <2> QED
    BY <2>1, <2>2
<1>21. CASE RecoveryFailed(a)
  <2>1. OthersKept(a) /\ LeaseMoves(a)
    BY <1>21 DEF RecoveryFailed, OthersKept, LeaseMoves, TypeOK
  <2>2. pc[a] \in PlacesUnderMachineLease \/ StandsStill
    BY <1>21 DEF RecoveryFailed, StandsStill,
       PlacesUnderMachineLease, Restoring, Working, OnVpn, OnLocal
  <2> QED
    BY <2>1, <2>2
<1>22. CASE MirrorOrigin(a)
  <2>1. OthersKept(a) /\ LeaseMoves(a)
    BY <1>22 DEF MirrorOrigin, OthersKept, LeaseMoves, TypeOK
  <2>2. pc[a] \in PlacesUnderMachineLease \/ StandsStill
    BY <1>22 DEF MirrorOrigin, StandsStill,
       PlacesUnderMachineLease, Restoring, Working, OnVpn, OnLocal
  <2> QED
    BY <2>1, <2>2
<1>23. CASE SetManifestSync(a)
  <2>1. OthersKept(a) /\ LeaseMoves(a)
    BY <1>23 DEF SetManifestSync, OthersKept, LeaseMoves, TypeOK, AfterSync
  <2>2. pc[a] \in PlacesUnderMachineLease \/ StandsStill
    BY <1>23 DEF SetManifestSync, StandsStill,
       PlacesUnderMachineLease, Restoring, Working, OnVpn, OnLocal
  <2> QED
    BY <2>1, <2>2
<1>24. CASE DeferMirror(a)
  <2>1. OthersKept(a) /\ LeaseMoves(a)
    BY <1>24 DEF DeferMirror, OthersKept, LeaseMoves, TypeOK
  <2>2. pc[a] \in PlacesUnderMachineLease \/ StandsStill
    BY <1>24 DEF DeferMirror, StandsStill,
       PlacesUnderMachineLease, Restoring, Working, OnVpn, OnLocal
  <2> QED
    BY <2>1, <2>2
<1>25. CASE ClearActive(a)
  <2>1. OthersKept(a) /\ LeaseMoves(a)
    BY <1>25 DEF ClearActive, OthersKept, LeaseMoves, TypeOK
  <2>2. pc[a] \in PlacesUnderMachineLease \/ StandsStill
    BY <1>25 DEF ClearActive, StandsStill,
       PlacesUnderMachineLease, Restoring, Working, OnVpn, OnLocal
  <2> QED
    BY <2>1, <2>2
<1> QED
  BY <1>1, <1>2, <1>3, <1>4, <1>5, <1>6, <1>7, <1>8, <1>9, <1>10, <1>11, <1>12, <1>13, <1>14,
     <1>15, <1>16, <1>17, <1>18, <1>19, <1>20, <1>21, <1>22, <1>23, <1>24, <1>25 DEF Proceed

LEMMA InitPolicyInv == Init => PolicyInv
  BY ConstantsAssumption DEF Init, PolicyInv, TouchedIsJournaled, AppInv, Leased, Stage,
     Work, Route, Bodies, PlacesUnderMachineLease, Restoring, Working, OnVpn, OnLocal

LEMMA StepPolicyInv == TypeOK /\ ContextInv /\ PolicyInv /\ [Next]_vars => PolicyInv'
<1> SUFFICES ASSUME TypeOK, ContextInv, PolicyInv, [Next]_vars PROVE PolicyInv'
  OBVIOUS
<1> USE DEF files, locks, locals
<1>1. ASSUME NEW a \in Apps, AcquireMachine(a) PROVE PolicyInv'
  <2>1. TouchedIsJournaled'
    BY <1>1 DEF AcquireMachine, PolicyInv, TouchedIsJournaled
  <2>2. Leased(a)' /\ Stage(a)'
    BY <1>1 DEF AcquireMachine, PolicyInv, AppInv, Leased, Stage, Bodies, TypeOK, AllKinds,
       PlacesUnderMachineLease, Restoring, Working, OnVpn, OnLocal
  <2>3. Work(a)'
    BY <1>1 DEF AcquireMachine, PolicyInv, AppInv, Stage, Work, Opened, Owned,
       AlreadyRestored, Bodies, TypeOK, AllKinds, Restoring, OnVpn, OnLocal
  <2>4. Route(a)'
    BY <1>1 DEF AcquireMachine, PolicyInv, AppInv, Stage, Route, TypeOK, OnVpn, OnLocal
  <2> QED
    BY <1>1, <2>1, <2>2, <2>3, <2>4, StepsAlone, OneAtATime DEF AppInv, Proceed
<1>2. ASSUME NEW a \in Apps, TurnedAway(a) PROVE PolicyInv'
  BY <1>2, LeaveKeepsInv DEF TurnedAway, StandsStill
<1>3. ASSUME NEW a \in Apps, Guard(a) PROVE PolicyInv'
  <2>1. CASE Leave(a)
    BY <1>3, <2>1, LeaveKeepsInv DEF Guard, StandsStill
  <2>2. CASE ~Leave(a)
    <3>1. TouchedIsJournaled'
      BY <1>3, <2>2 DEF Guard, PolicyInv, TouchedIsJournaled
    <3>2. Leased(a)' /\ Stage(a)'
      BY <1>3, <2>2 DEF Guard, PolicyInv, AppInv, Leased, Stage, Bodies, TypeOK, AllKinds,
         PlacesUnderMachineLease, Restoring, Working, OnVpn, OnLocal
    <3>3. Work(a)'
      BY <1>3, <2>2 DEF Guard, PolicyInv, AppInv, Stage, Work, Opened, Owned,
         AlreadyRestored, Bodies, TypeOK, Restoring, OnVpn, OnLocal
    <3>4. Route(a)'
      BY <1>3, <2>2 DEF Guard, PolicyInv, AppInv, Stage, Route, TypeOK, OnVpn, OnLocal
    <3> QED
      BY <1>3, <3>1, <3>2, <3>3, <3>4, StepsAlone, OneAtATime DEF AppInv, Proceed
  <2> QED
    BY <2>1, <2>2
<1>4. ASSUME NEW a \in Apps, AcquireWorkspace(a) PROVE PolicyInv'
  <2>1. TouchedIsJournaled'
    BY <1>4 DEF AcquireWorkspace, PolicyInv, TouchedIsJournaled
  <2>2. Leased(a)' /\ Stage(a)'
    BY <1>4 DEF AcquireWorkspace, PolicyInv, AppInv, Leased, Stage, Bodies, TypeOK, AllKinds,
       PlacesUnderMachineLease, Restoring, Working, OnVpn, OnLocal
  <2>3. Work(a)'
    BY <1>4 DEF AcquireWorkspace, PolicyInv, AppInv, Stage, Work, Opened, Owned,
       AlreadyRestored, Bodies, TypeOK, Restoring, OnVpn, OnLocal
  <2>4. Route(a)'
    BY <1>4 DEF AcquireWorkspace, PolicyInv, AppInv, Stage, Route, TypeOK, OnVpn, OnLocal
  <2> QED
    BY <1>4, <2>1, <2>2, <2>3, <2>4, StepsAlone, OneAtATime DEF AppInv, Proceed
<1>5. ASSUME NEW a \in Apps, NothingPending(a) PROVE PolicyInv'
  <2>1. CASE Leave(a)
    BY <1>5, <2>1, LeaveKeepsInv DEF NothingPending, StandsStill
  <2>2. CASE ~Leave(a)
    <3>1. TouchedIsJournaled'
      BY <1>5, <2>2 DEF NothingPending, PolicyInv, TouchedIsJournaled
    <3>2. Leased(a)' /\ Stage(a)'
      BY <1>5, <2>2
      DEF NothingPending, PolicyInv, AppInv, Leased, Stage, Bodies, TypeOK, AllKinds,
         PlacesUnderMachineLease, Restoring, Working, OnVpn, OnLocal
    <3>3. Work(a)'
      BY <1>5, <2>2 DEF NothingPending, PolicyInv, AppInv, Stage, Work, Opened, Owned,
         AlreadyRestored, Bodies, TypeOK, Restoring, OnVpn, OnLocal
    <3>4. Route(a)'
      BY <1>5, <2>2 DEF NothingPending, PolicyInv, AppInv, Stage, Route, TypeOK, OnVpn, OnLocal
    <3> QED
      BY <1>5, <3>1, <3>2, <3>3, <3>4, StepsAlone, OneAtATime DEF AppInv, Proceed
  <2> QED
    BY <2>1, <2>2
<1>6. ASSUME NEW a \in Apps, ForeignPending(a) PROVE PolicyInv'
  BY <1>6, LeaveKeepsInv DEF ForeignPending, StandsStill
<1>7. ASSUME NEW a \in Apps, RecoverPending(a) PROVE PolicyInv'
  <2>1. TouchedIsJournaled'
    BY <1>7 DEF RecoverPending, PolicyInv, TouchedIsJournaled
  <2>2. Leased(a)' /\ Stage(a)'
    BY <1>7 DEF RecoverPending, PolicyInv, AppInv, Leased, Stage, Bodies, TypeOK, AllKinds,
       PlacesUnderMachineLease, Restoring, Working, OnVpn, OnLocal
  <2>3. Work(a)'
    <3>1. docs[active].status \in TransactionStatuses
      BY <1>7 DEF RecoverPending, ContextInv, TypeOK, Documents
    <3>2. pc'[a] = "clear" \/ pc'[a] = "vpn"
      BY <1>7 DEF RecoverPending, TypeOK
    <3>3. tx'[a] = active /\ Opened(a)'
      BY <1>7 DEF RecoverPending, Opened, Owned, TypeOK
    <3>4. task'[a] = task[a] /\ task[a] \in {"flow", "restore"}
      BY <1>7 DEF RecoverPending, PolicyInv, AppInv, Stage
    <3>5. CASE AlreadyRestored(active)
      <4>1. pc'[a] = "clear" /\ AlreadyRestored(tx[a])'
        BY <1>7, <3>3, <3>5 DEF RecoverPending, AlreadyRestored, TypeOK
      <4> QED
        BY <3>3, <4>1 DEF Work, Bodies, Restoring, OnVpn, OnLocal
    <3>6. CASE ~AlreadyRestored(active)
      <4>1. pc'[a] = "vpn" /\ docs'[tx'[a]].status \in {"pending", "failed"}
        BY <1>7, <3>1, <3>3, <3>6
        DEF RecoverPending, AlreadyRestored, TransactionStatuses, TypeOK
      <4> QED
        BY <3>3, <3>4, <4>1 DEF Work, Bodies, Restoring, OnVpn, OnLocal
    <3> QED
      BY <3>5, <3>6
  <2>4. Route(a)'
    BY <1>7 DEF RecoverPending, PolicyInv, AppInv, Stage, Route, TypeOK, OnVpn, OnLocal
  <2> QED
    BY <1>7, <2>1, <2>2, <2>3, <2>4, StepsAlone, OneAtATime DEF AppInv, Proceed
<1>8. ASSUME NEW a \in Apps, Prepare(a) PROVE PolicyInv'
  <2>1. CASE Leave(a)
    BY <1>8, <2>1, LeaveKeepsInv DEF Prepare, StandsStill
  <2>2. CASE ~Leave(a)
    <3>1. TouchedIsJournaled'
      BY <1>8, <2>2 DEF Prepare, PolicyInv, TouchedIsJournaled
    <3>2. Leased(a)' /\ Stage(a)'
      BY <1>8, <2>2 DEF Prepare, PolicyInv, AppInv, Leased, Stage, Bodies, TypeOK, AllKinds,
         PlacesUnderMachineLease, Restoring, Working, OnVpn, OnLocal
    <3>3. Work(a)'
      BY <1>8, <2>2 DEF Prepare, PolicyInv, AppInv, Stage, Work, Opened, Owned,
         AlreadyRestored, Bodies, TypeOK, Restoring, OnVpn, OnLocal
    <3>4. Route(a)'
      BY <1>8, <2>2 DEF Prepare, PolicyInv, AppInv, Stage, Route, TypeOK, OnVpn, OnLocal
    <3> QED
      BY <1>8, <3>1, <3>2, <3>3, <3>4, StepsAlone, OneAtATime DEF AppInv, Proceed
  <2> QED
    BY <2>1, <2>2
<1>9. ASSUME NEW a \in Apps, WriteDocument(a) PROVE PolicyInv'
  <2>1. CASE Leave(a)
    <3>1. pc'[a] = "idle"
      BY <2>1, LeaveKeepsOthers
    <3>2. UNCHANGED docs
      BY <1>9, <3>1 DEF WriteDocument, TypeOK, AfterSync
    <3> QED
      BY <1>9, <2>1, <3>2, LeaveKeepsInv DEF WriteDocument, StandsStill
  <2>2. CASE ~Leave(a)
    <3>1. TouchedIsJournaled'
      BY <1>9, NothingOwed DEF WriteDocument, PolicyInv, AppInv, TouchedIsJournaled
    <3>2. Leased(a)' /\ Stage(a)'
      BY <1>9, <2>2
      DEF WriteDocument, PolicyInv, AppInv, Leased, Stage, Bodies, TypeOK, AllKinds,
         PlacesUnderMachineLease, Restoring, Working, OnVpn, OnLocal
    <3>3. Work(a)'
      BY <1>9, <2>2 DEF WriteDocument, PolicyInv, AppInv, Stage, Work, Opened, Owned,
         AlreadyRestored, Bodies, TypeOK, Restoring, OnVpn, OnLocal
    <3>4. Route(a)'
      BY <1>9, <2>2 DEF WriteDocument, PolicyInv, AppInv, Stage, Route, TypeOK, OnVpn, OnLocal
    <3> QED
      BY <1>9, <3>1, <3>2, <3>3, <3>4, StepsAlone, OneAtATime DEF AppInv, Proceed
  <2> QED
    BY <2>1, <2>2
<1>10. ASSUME NEW a \in Apps, WritePointer(a) PROVE PolicyInv'
  <2>1. CASE Leave(a)
    <3>1. pc'[a] = "idle"
      BY <2>1, LeaveKeepsOthers
    <3>2. UNCHANGED active
      BY <1>10, <3>1 DEF WritePointer, TypeOK, AfterSync
    <3> QED
      BY <1>10, <2>1, <3>2, LeaveKeepsInv DEF WritePointer, StandsStill
  <2>2. CASE ~Leave(a)
    <3>1. TouchedIsJournaled'
      BY <1>10, NothingOwed DEF WritePointer, PolicyInv, AppInv, TouchedIsJournaled
    <3>2. Leased(a)' /\ Stage(a)'
      BY <1>10, <2>2
      DEF WritePointer, PolicyInv, AppInv, Leased, Stage, Bodies, TypeOK, AllKinds,
         PlacesUnderMachineLease, Restoring, Working, OnVpn, OnLocal
    <3>3. Work(a)'
      BY <1>10, <2>2 DEF WritePointer, PolicyInv, AppInv, Stage, Work, Opened, Owned,
         AlreadyRestored, Bodies, TypeOK, Restoring, OnVpn, OnLocal
    <3>4. Route(a)'
      BY <1>10, <2>2 DEF WritePointer, PolicyInv, AppInv, Stage, Route, TypeOK, OnVpn, OnLocal
    <3> QED
      BY <1>10, <3>1, <3>2, <3>3, <3>4, StepsAlone, OneAtATime DEF AppInv, Proceed
  <2> QED
    BY <2>1, <2>2
<1>11. ASSUME NEW a \in Apps, RouteChrome(a) PROVE PolicyInv'
  <2>1. TouchedIsJournaled'
    <3>1. pc[a] \in Bodies /\ Work(a)
      BY <1>11 DEF RouteChrome, PolicyInv, AppInv, Bodies, OnVpn, OnLocal
    <3> QED
      BY <1>11, <3>1, ConstantsAssumption DEF RouteChrome, Command, Touched, Work, Opened,
         TouchedIsJournaled
  <2>2. Leased(a)' /\ Stage(a)'
    BY <1>11
    DEF RouteChrome, PolicyInv, AppInv, Leased, Stage, Bodies, TypeOK, AllKinds, Command,
        Finally,
        Touched,
       PlacesUnderMachineLease, Restoring, Working, OnVpn, OnLocal
  <2>3. Work(a)'
    BY <1>11 DEF RouteChrome, PolicyInv, AppInv, Stage, Work, Opened, Owned,
       AlreadyRestored, Bodies, TypeOK, Command, Finally, Touched, Restoring, OnVpn, OnLocal
  <2>4. Route(a)'
    BY <1>11
    DEF RouteChrome, PolicyInv, AppInv, Stage, Route, TypeOK, Command, Finally, Touched, OnVpn,
        OnLocal
  <2> QED
    BY <1>11, <2>1, <2>2, <2>3, <2>4, StepsAlone, OneAtATime DEF AppInv, Proceed
<1>12. ASSUME NEW a \in Apps, ConnectRelay(a) PROVE PolicyInv'
  <2>1. TouchedIsJournaled'
    <3>1. pc[a] \in Bodies /\ Work(a)
      BY <1>12 DEF ConnectRelay, PolicyInv, AppInv, Bodies, OnVpn, OnLocal
    <3> QED
      BY <1>12, <3>1, ConstantsAssumption DEF ConnectRelay, Command, Touched, Work, Opened,
         TouchedIsJournaled
  <2>2. Leased(a)' /\ Stage(a)'
    BY <1>12
    DEF ConnectRelay, PolicyInv, AppInv, Leased, Stage, Bodies, TypeOK, AllKinds, Command,
        Finally, Touched,
       PlacesUnderMachineLease, Restoring, Working, OnVpn, OnLocal
  <2>3. Work(a)'
    BY <1>12 DEF ConnectRelay, PolicyInv, AppInv, Stage, Work, Opened, Owned,
       AlreadyRestored, Bodies, TypeOK, Command, Finally, Touched, Restoring, OnVpn, OnLocal
  <2>4. Route(a)'
    BY <1>12
    DEF ConnectRelay, PolicyInv, AppInv, Stage, Route, TypeOK, Command, Finally, Touched,
        OnVpn,
        OnLocal
  <2> QED
    BY <1>12, <2>1, <2>2, <2>3, <2>4, StepsAlone, OneAtATime DEF AppInv, Proceed
<1>13. ASSUME NEW a \in Apps, DisconnectForLocal(a) PROVE PolicyInv'
  <2>1. TouchedIsJournaled'
    <3>1. pc[a] \in Bodies /\ Work(a)
      BY <1>13 DEF DisconnectForLocal, PolicyInv, AppInv, Bodies, OnVpn, OnLocal
    <3> QED
      BY <1>13, <3>1, ConstantsAssumption
      DEF DisconnectForLocal, Command, Touched, Work, Opened,
         TouchedIsJournaled
  <2>2. Leased(a)' /\ Stage(a)'
    BY <1>13
    DEF DisconnectForLocal, PolicyInv, AppInv, Leased, Stage, Bodies, TypeOK, AllKinds,
        Command,
        Finally, Touched,
       PlacesUnderMachineLease, Restoring, Working, OnVpn, OnLocal
  <2>3. Work(a)'
    BY <1>13 DEF DisconnectForLocal, PolicyInv, AppInv, Stage, Work, Opened, Owned,
       AlreadyRestored, Bodies, TypeOK, Command, Finally, Touched, Restoring, OnVpn, OnLocal
  <2>4. Route(a)'
    BY <1>13
    DEF DisconnectForLocal, PolicyInv, AppInv, Stage, Route, TypeOK, Command, Finally, Touched,
        OnVpn, OnLocal
  <2> QED
    BY <1>13, <2>1, <2>2, <2>3, <2>4, StepsAlone, OneAtATime DEF AppInv, Proceed
<1>14. ASSUME NEW a \in Apps, EndSteps(a) PROVE PolicyInv'
  <2>1. TouchedIsJournaled'
    BY <1>14 DEF EndSteps, PolicyInv, TouchedIsJournaled, Finally
  <2>2. Leased(a)' /\ Stage(a)'
    BY <1>14 DEF EndSteps, PolicyInv, AppInv, Leased, Stage, Bodies, TypeOK, AllKinds, Finally,
       PlacesUnderMachineLease, Restoring, Working, OnVpn, OnLocal
  <2>3. Work(a)'
    BY <1>14 DEF EndSteps, PolicyInv, AppInv, Stage, Work, Opened, Owned,
       AlreadyRestored, Bodies, TypeOK, Finally, Restoring, OnVpn, OnLocal
  <2>4. Route(a)'
    BY <1>14 DEF EndSteps, PolicyInv, AppInv, Stage, Route, TypeOK, Finally, OnVpn, OnLocal
  <2> QED
    BY <1>14, <2>1, <2>2, <2>3, <2>4, StepsAlone, OneAtATime DEF AppInv, Proceed
<1>15. ASSUME NEW a \in Apps, EndUnrestored(a) PROVE PolicyInv'
  BY <1>15, LeaveKeepsInv DEF EndUnrestored, StandsStill
<1>16. ASSUME NEW a \in Apps, RestoreVpn(a) PROVE PolicyInv'
  <2>1. TouchedIsJournaled'
    BY <1>16 DEF RestoreVpn, PolicyInv, TouchedIsJournaled
  <2>2. Leased(a)' /\ Stage(a)'
    BY <1>16 DEF RestoreVpn, PolicyInv, AppInv, Leased, Stage, Bodies, TypeOK, AllKinds,
       PlacesUnderMachineLease, Restoring, Working, OnVpn, OnLocal
  <2>3. Work(a)'
    BY <1>16 DEF RestoreVpn, PolicyInv, AppInv, Stage, Work, Opened, Owned,
       AlreadyRestored, Bodies, TypeOK, Restoring, OnVpn, OnLocal
  <2>4. Route(a)'
    BY <1>16 DEF RestoreVpn, PolicyInv, AppInv, Stage, Route, TypeOK, OnVpn, OnLocal
  <2> QED
    BY <1>16, <2>1, <2>2, <2>3, <2>4, StepsAlone, OneAtATime DEF AppInv, Proceed
<1>17. ASSUME NEW a \in Apps, RestoreChrome(a) PROVE PolicyInv'
  <2>1. TouchedIsJournaled'
    BY <1>17, ConstantsAssumption DEF RestoreChrome, PolicyInv, TouchedIsJournaled
  <2>2. Leased(a)' /\ Stage(a)'
    BY <1>17 DEF RestoreChrome, PolicyInv, AppInv, Leased, Stage, Bodies, TypeOK, AllKinds,
       PlacesUnderMachineLease, Restoring, Working, OnVpn, OnLocal
  <2>3. Work(a)'
    <3>1. pc'[a] = "record" /\ Work(a)
      BY <1>17 DEF RestoreChrome, PolicyInv, AppInv, TypeOK
    <3>2. ok'[a] => touched' \notin Tx
      <4>1. CASE ok' = ok /\ touched' = IF ok[a] THEN None ELSE touched
        BY <4>1, ConstantsAssumption
      <4>2. CASE ok' = [ok EXCEPT ![a] = FALSE]
        BY <4>2 DEF TypeOK
      <4> QED
        BY <1>17, <4>1, <4>2 DEF RestoreChrome
    <3> QED
      BY <1>17, <3>1, <3>2 DEF RestoreChrome, Work, Opened, Owned, Bodies, Restoring,
         OnVpn, OnLocal
  <2>4. Route(a)'
    BY <1>17 DEF RestoreChrome, PolicyInv, AppInv, Stage, Route, TypeOK, OnVpn, OnLocal
  <2> QED
    BY <1>17, <2>1, <2>2, <2>3, <2>4, StepsAlone, OneAtATime DEF AppInv, Proceed
<1>18. ASSUME NEW a \in Apps, RestoredUnrecorded(a) PROVE PolicyInv'
  BY <1>18, LeaveKeepsInv DEF RestoredUnrecorded, StandsStill
<1>19. ASSUME NEW a \in Apps, RecordAttempt(a) PROVE PolicyInv'
  <2>1. TouchedIsJournaled'
    <3>1. HasDocument(a) /\ Work(a)
      BY <1>19 DEF RecordAttempt, ContextInv, PolicyInv, AppInv, Bodies, Restoring
    <3>2. CASE docs' = docs
      BY <1>19, <3>2 DEF RecordAttempt, PolicyInv, TouchedIsJournaled
    <3>3. CASE ok[a]
      BY <1>19, <3>1, <3>3 DEF RecordAttempt, Work, TouchedIsJournaled
    <3>4. CASE ~ok[a] /\ docs' # docs
      <4>1. docs' = [docs EXCEPT ![tx[a]].status = "failed"]
        BY <1>19, <3>4 DEF RecordAttempt
      <4>2. \A t \in Tx : docs'[t] = docs[t] \/ docs'[t].status = "failed"
        BY <3>1, <4>1, StatusWritten
      <4> QED
        BY <1>19, <4>2 DEF RecordAttempt, PolicyInv, TouchedIsJournaled
    <3> QED
      BY <3>2, <3>3, <3>4
  <2>2. Leased(a)' /\ Stage(a)'
    BY <1>19 DEF RecordAttempt, PolicyInv, AppInv, Leased, Stage, Bodies, TypeOK, AllKinds,
       PlacesUnderMachineLease, Restoring, Working, OnVpn, OnLocal
  <2>3. Work(a)'
    <3>1. HasDocument(a) /\ Work(a) /\ pc[a] \in Bodies
      BY <1>19 DEF RecordAttempt, ContextInv, PolicyInv, AppInv, Bodies, Restoring
    <3>2. /\ pc'[a] \in {"manifest", "mirror"}
          /\ tx'[a] = tx[a] /\ active' = active /\ task'[a] = task[a]
      BY <1>19 DEF RecordAttempt, TypeOK
    <3>3. Opened(a)
      BY <1>19, <3>1 DEF RecordAttempt, Work
    <3>4. docs'[tx[a]].origin = docs[tx[a]].origin /\ (ok'[a] => AlreadyRestored(tx[a])')
      <4>1. CASE docs' = docs /\ ok' = [ok EXCEPT ![a] = FALSE]
        BY <4>1 DEF TypeOK
      <4>2. CASE ok' = ok /\ docs' = [docs EXCEPT ![tx[a]].status =
                                        IF ok[a] THEN "restored" ELSE "failed"]
        <5>. DEFINE s == IF ok[a] THEN "restored" ELSE "failed"
        <5>2. docs' = [docs EXCEPT ![tx[a]].status = s]
          BY <4>2
        <5>. HIDE DEF s
        <5>3. docs'[tx[a]].status = s /\ docs'[tx[a]].origin = docs[tx[a]].origin
          BY <3>1, <5>2, StatusWritten
        <5>1. (ok[a] => docs'[tx[a]].status = "restored")
              /\ docs'[tx[a]].origin = docs[tx[a]].origin
          BY <5>3 DEF s
        <5> QED
          BY <3>2, <4>2, <5>1 DEF AlreadyRestored
      <4> QED
        BY <1>19, <4>1, <4>2 DEF RecordAttempt
    <3>5. Opened(a)'
      BY <3>2, <3>3, <3>4 DEF Opened, Owned
    <3> QED
      BY <3>2, <3>4, <3>5 DEF Work, Bodies, AlreadyRestored, Restoring, OnVpn, OnLocal
  <2>4. Route(a)'
    BY <1>19 DEF RecordAttempt, PolicyInv, AppInv, Stage, Route, TypeOK, OnVpn, OnLocal
  <2> QED
    BY <1>19, <2>1, <2>2, <2>3, <2>4, StepsAlone, OneAtATime DEF AppInv, Proceed
<1>20. ASSUME NEW a \in Apps, RecordRestoration(a) PROVE PolicyInv'
  <2>1. CASE Leave(a)
    BY <1>20, <2>1, LeaveKeepsInv DEF RecordRestoration, StandsStill
  <2>2. CASE ~Leave(a)
    <3>1. TouchedIsJournaled'
      BY <1>20, <2>2 DEF RecordRestoration, PolicyInv, TouchedIsJournaled
    <3>2. Leased(a)' /\ Stage(a)'
      BY <1>20, <2>2
      DEF RecordRestoration, PolicyInv, AppInv, Leased, Stage, Bodies, TypeOK, AllKinds,
         PlacesUnderMachineLease, Restoring, Working, OnVpn, OnLocal
    <3>3. Work(a)'
      BY <1>20, <2>2 DEF RecordRestoration, PolicyInv, AppInv, Stage, Work, Opened, Owned,
         AlreadyRestored, Bodies, TypeOK, Restoring, OnVpn, OnLocal
    <3>4. Route(a)'
      BY <1>20, <2>2
      DEF RecordRestoration, PolicyInv, AppInv, Stage, Route, TypeOK, OnVpn, OnLocal
    <3> QED
      BY <1>20, <3>1, <3>2, <3>3, <3>4, StepsAlone, OneAtATime DEF AppInv, Proceed
  <2> QED
    BY <2>1, <2>2
<1>21. ASSUME NEW a \in Apps, RecoveryFailed(a) PROVE PolicyInv'
  BY <1>21, LeaveKeepsInv DEF RecoveryFailed, StandsStill
<1>22. ASSUME NEW a \in Apps, MirrorOrigin(a) PROVE PolicyInv'
  <2>1. TouchedIsJournaled'
    BY <1>22 DEF MirrorOrigin, PolicyInv, TouchedIsJournaled
  <2>2. Leased(a)' /\ Stage(a)'
    BY <1>22 DEF MirrorOrigin, PolicyInv, AppInv, Leased, Stage, Bodies, TypeOK, AllKinds,
       PlacesUnderMachineLease, Restoring, Working, OnVpn, OnLocal
  <2>3. Work(a)'
    BY <1>22 DEF MirrorOrigin, PolicyInv, AppInv, Stage, Work, Opened, Owned,
       AlreadyRestored, Bodies, TypeOK, Restoring, OnVpn, OnLocal
  <2>4. Route(a)'
    BY <1>22 DEF MirrorOrigin, PolicyInv, AppInv, Stage, Route, TypeOK, OnVpn, OnLocal
  <2> QED
    BY <1>22, <2>1, <2>2, <2>3, <2>4, StepsAlone, OneAtATime DEF AppInv, Proceed
<1>23. ASSUME NEW a \in Apps, SetManifestSync(a) PROVE PolicyInv'
  <2>1. CASE docs' = docs /\ Leave(a)
    BY <1>23, <2>1, LeaveKeepsInv DEF SetManifestSync, StandsStill
  <2>2. CASE docs' = [docs EXCEPT ![tx[a]].sync = seen[a]] /\ Owned(a, tx[a])
    <3>1. HasDocument(a)
      BY <1>23 DEF SetManifestSync, ContextInv, Closings
    <3>2. \A t \in Tx : /\ docs'[t].status = docs[t].status
                         /\ docs'[t].origin = docs[t].origin
      BY <2>2, <3>1, SyncWritten
    <3>3. TouchedIsJournaled'
      BY <1>23, <3>2 DEF SetManifestSync, PolicyInv, TouchedIsJournaled
    <3>4. pc[a] \in PlacesUnderMachineLease
      BY <1>23 DEF SetManifestSync, PlacesUnderMachineLease
    <3>5. CASE Leave(a)
      BY <3>3, <3>4, <3>5, LeaveKeepsOthers, IdleIsFree, OneAtATime
    <3>6. CASE task[a] # "reconcile" /\ Goto(a, AfterSync(a)) /\ UNCHANGED <<locks, locals>>
      <4>1. OthersKept(a) /\ LeaseMoves(a) /\ pc'[a] \in {"defer", "clear"}
        BY <3>6 DEF OthersKept, LeaseMoves, AfterSync, TypeOK
      <4>2. /\ Stage(a) /\ Leased(a) /\ Opened(a) /\ AlreadyRestored(tx[a])
            /\ tx[a] \in Tx
        BY <1>23, <3>1, <3>6 DEF SetManifestSync, PolicyInv, AppInv, Work, HasDocument
      <4>3. Leased(a)' /\ Stage(a)'
        BY <1>23, <3>6, <4>1, <4>2 DEF SetManifestSync, Leased, Stage, Bodies,
           PlacesUnderMachineLease, Restoring, OnVpn, OnLocal
      <4>4. Opened(a)' /\ AlreadyRestored(tx[a])' /\ tx' = tx
        BY <1>23, <3>2, <3>6, <4>2 DEF SetManifestSync, Opened, Owned, AlreadyRestored
      <4>5. Work(a)'
        BY <4>1, <4>4 DEF Work, Bodies, AlreadyRestored, Restoring, OnVpn, OnLocal
      <4>6. Route(a)'
        BY <4>1 DEF Route, OnVpn, OnLocal
      <4> QED
        BY <3>3, <3>4, <4>1, <4>3, <4>5, <4>6, OneAtATime DEF AppInv
    <3> QED
      BY <1>23, <2>2, <3>5, <3>6 DEF SetManifestSync
  <2> QED
    BY <1>23, <2>1, <2>2 DEF SetManifestSync
<1>24. ASSUME NEW a \in Apps, DeferMirror(a) PROVE PolicyInv'
  <2>1. CASE Leave(a)
    <3>1. pc'[a] = "idle"
      BY <2>1, LeaveKeepsOthers
    <3>2. UNCHANGED docs
      BY <1>24, <3>1 DEF DeferMirror, TypeOK, AfterSync
    <3> QED
      BY <1>24, <2>1, <3>2, LeaveKeepsInv DEF DeferMirror, StandsStill
  <2>2. CASE ~Leave(a)
    <3>1. TouchedIsJournaled'
      <4>1. Opened(a) /\ AlreadyRestored(tx[a])
        BY <1>24 DEF DeferMirror, PolicyInv, AppInv, Work, Stage
      <4> QED
        BY <1>24, <4>1, NothingOwed DEF DeferMirror, TouchedIsJournaled
    <3>2. Leased(a)' /\ Stage(a)'
      BY <1>24, <2>2
      DEF DeferMirror, PolicyInv, AppInv, Leased, Stage, Bodies, TypeOK, AllKinds,
         PlacesUnderMachineLease, Restoring, Working, OnVpn, OnLocal
    <3>3. Work(a)'
      <4>1. HasDocument(a) /\ Opened(a)
        BY <1>24 DEF DeferMirror, PolicyInv, AppInv, Work, Stage, ContextInv, Closings
      <4>2. docs' = [docs EXCEPT ![tx[a]].status = "restored_manifest_pending"]
        BY <1>24, <2>2 DEF DeferMirror
      <4>3. /\ docs'[tx[a]].status = "restored_manifest_pending"
            /\ docs'[tx[a]].origin = docs[tx[a]].origin
        BY <4>1, <4>2, StatusWritten
      <4>4. pc'[a] = "clear" /\ tx' = tx /\ active' = active
        BY <1>24, <2>2 DEF DeferMirror, TypeOK
      <4>5. Opened(a)' /\ AlreadyRestored(tx[a])'
        BY <4>1, <4>3, <4>4 DEF Opened, Owned, AlreadyRestored
      <4> QED
        BY <4>4, <4>5 DEF Work, Bodies, AlreadyRestored, Restoring, OnVpn, OnLocal
    <3>4. Route(a)'
      BY <1>24, <2>2 DEF DeferMirror, PolicyInv, AppInv, Stage, Route, TypeOK, OnVpn, OnLocal
    <3> QED
      BY <1>24, <3>1, <3>2, <3>3, <3>4, StepsAlone, OneAtATime DEF AppInv, Proceed
  <2> QED
    BY <2>1, <2>2
<1>25. ASSUME NEW a \in Apps, ClearActive(a) PROVE PolicyInv'
  <2>1. CASE Leave(a)
    <3>1. Opened(a) /\ AlreadyRestored(tx[a])
      BY <1>25 DEF ClearActive, PolicyInv, AppInv, Work, Stage
    <3>2. TouchedIsJournaled'
      BY <1>25, <3>1, NothingOwed DEF ClearActive, TouchedIsJournaled
    <3>3. pc[a] \in PlacesUnderMachineLease
      BY <1>25 DEF ClearActive, PlacesUnderMachineLease
    <3> QED
      BY <2>1, <3>2, <3>3, LeaveKeepsOthers, IdleIsFree, OneAtATime
  <2>2. CASE ~Leave(a)
    <3>1. TouchedIsJournaled'
      <4>1. Opened(a) /\ AlreadyRestored(tx[a])
        BY <1>25 DEF ClearActive, PolicyInv, AppInv, Work, Stage
      <4> QED
        BY <1>25, <4>1, NothingOwed DEF ClearActive, TouchedIsJournaled
    <3>2. Leased(a)' /\ Stage(a)'
      BY <1>25, <2>2
      DEF ClearActive, PolicyInv, AppInv, Leased, Stage, Bodies, TypeOK, AllKinds,
         PlacesUnderMachineLease, Restoring, Working, OnVpn, OnLocal
    <3>3. Work(a)'
      BY <1>25, <2>2 DEF ClearActive, PolicyInv, AppInv, Stage, Work, Opened, Owned,
         AlreadyRestored, Bodies, TypeOK, Restoring, OnVpn, OnLocal
    <3>4. Route(a)'
      BY <1>25, <2>2 DEF ClearActive, PolicyInv, AppInv, Stage, Route, TypeOK, OnVpn, OnLocal
    <3> QED
      BY <1>25, <3>1, <3>2, <3>3, <3>4, StepsAlone, OneAtATime DEF AppInv, Proceed
  <2> QED
    BY <2>1, <2>2
<1>26. ASSUME NEW a \in Apps, Crash(a) PROVE PolicyInv'
  BY <1>26, LeaveKeepsInv DEF Crash, StandsStill
<1>27. ASSUME NEW a \in Apps, NEW k \in AllKinds, Start(a, k) PROVE PolicyInv'
  <2>1. OthersKept(a) /\ LeaseMoves(a) /\ StandsStill /\ pc'[a] = "start"
    BY <1>27 DEF Start, OthersKept, LeaseMoves, StandsStill, TypeOK
  <2>2. TouchedIsJournaled'
    BY <1>27 DEF Start, PolicyInv, TouchedIsJournaled
  <2> QED
    BY <2>1, <2>2, IdleIsFree, OneAtATime
<1>28. ASSUME NEW c \in Checkouts, NEW r \in Relays, ChangeRelay(c, r) PROVE PolicyInv'
  BY <1>28 DEF ChangeRelay, PolicyInv, TouchedIsJournaled, AppInv, Leased, Stage, Work,
     Route, Opened, Owned, AlreadyRestored
<1>29. ASSUME NEW r \in Runs, DeleteRun(r) PROVE PolicyInv'
  BY <1>29 DEF DeleteRun, PolicyInv, TouchedIsJournaled, AppInv, Leased, Stage, Work,
     Route, Opened, Owned, AlreadyRestored
<1>30. CASE UNCHANGED vars
  BY <1>30 DEF vars, PolicyInv, TouchedIsJournaled, AppInv, Leased, Stage, Work,
     Route, Opened, Owned, AlreadyRestored
<1> QED
  BY <1>1, <1>2, <1>3, <1>4, <1>5, <1>6, <1>7, <1>8, <1>9, <1>10, <1>11,
     <1>12, <1>13, <1>14, <1>15, <1>16, <1>17, <1>18, <1>19, <1>20, <1>21,
     <1>22, <1>23, <1>24, <1>25, <1>26, <1>27, <1>28, <1>29, <1>30 DEF Next,
     Proceed

LEMMA PolicyInvariants == Spec => [](TypeOK /\ ContextInv /\ PolicyInv)
<1>1. Init => TypeOK /\ ContextInv /\ PolicyInv
  BY InitTypeOK, InitContextInv, InitPolicyInv
<1>2. TypeOK /\ ContextInv /\ PolicyInv /\ [Next]_vars
          => (TypeOK /\ ContextInv /\ PolicyInv)'
  BY StepTypeOK, StepContextInv, StepPolicyInv
<1> QED
  BY <1>1, <1>2, PTL DEF Spec

\* While a transaction has changed the machine and not put it back, active.json
\* points to it and its status asks for recovery, through crashes, failed writes
\* and the attempts of other checkouts (MachinePolicyJournal, recover_pending).
THEOREM Journaled == Spec => []TouchedIsJournaled
<1>1. PolicyInv => TouchedIsJournaled
  BY DEF PolicyInv
<1> QED
  BY <1>1, PolicyInvariants, PTL

\* A step of a workflow runs under the route it asked for, whatever other
\* processes, recoveries and operators do meanwhile (run_step, _ensure_route).
THEOREM RoutesHold == Spec => []StepsKeepTheirRoute
<1>1. PolicyInv => StepsKeepTheirRoute
  BY DEF PolicyInv, AppInv, Route, StepsKeepTheirRoute
<1> QED
  BY <1>1, PolicyInvariants, PTL

\* Who changes the machine has the lease and is in the body of a workflow or in
\* the restoration; it changes neither the journal nor its place in it.
LEMMA WhoTouches ==
  ASSUME TypeOK, PolicyInv, [Next]_vars, machine' # machine
  PROVE  \E a \in Apps : /\ machineLease = a /\ pc[a] \in Bodies
                         /\ UNCHANGED <<files, active, locks>>
<1>1. PICK a \in Apps : \/ RouteChrome(a) \/ ConnectRelay(a) \/ DisconnectForLocal(a)
                        \/ RestoreVpn(a) \/ RestoreChrome(a)
  BY DEF Next, Proceed, vars, AcquireMachine, TurnedAway, Guard, AcquireWorkspace,
     NothingPending, ForeignPending, RecoverPending, Prepare, WriteDocument,
     WritePointer, EndSteps, EndUnrestored, RestoredUnrecorded, RecordAttempt,
     RecordRestoration, RecoveryFailed, MirrorOrigin, SetManifestSync, DeferMirror,
     ClearActive, Crash, Start, ChangeRelay, DeleteRun
<1>2. pc[a] \in Bodies /\ UNCHANGED <<files, active, locks>>
  BY <1>1 DEF RouteChrome, ConnectRelay, DisconnectForLocal, RestoreVpn, RestoreChrome,
     Command, Bodies, OnVpn, OnLocal, Restoring
<1>3. machineLease = a
  BY <1>2 DEF PolicyInv, AppInv, Leased, Bodies, PlacesUnderMachineLease, Working
<1> QED
  BY <1>2, <1>3

LEMMA StepManual ==
  TypeOK /\ ContextInv /\ PolicyInv /\ [Next]_vars
      => \A a \in Apps : At(a, "manual") => machine' = machine
<1> SUFFICES ASSUME TypeOK, ContextInv, PolicyInv, [Next]_vars,
                    NEW a \in Apps, At(a, "manual"), machine' # machine
             PROVE  FALSE
  OBVIOUS
<1>1. PICK b \in Apps : machineLease = b /\ pc[b] \in Bodies
  BY WhoTouches
<1>2. machineLease = a
  BY DEF PolicyInv, AppInv, Leased, PlacesUnderMachineLease, Working
<1> QED
  BY <1>1, <1>2 DEF Bodies, OnVpn, OnLocal, Restoring

\* While a manual step runs, nothing changes the machine: its operator declared
\* the network by hand (run_manual_step).
THEOREM ManualStepsStand == Spec => ManualRouteStands
<1>1. TypeOK /\ ContextInv /\ PolicyInv /\ [Next]_vars
          => [\A a \in Apps : At(a, "manual") => machine' = machine]_vars
  BY StepManual
<1> QED
  BY <1>1, PolicyInvariants, PTL DEF Spec, ManualRouteStands

\* The journal changes by a new document or by a field of the document at hand,
\* whose owner has the lease.
Rewrites(a) ==
    /\ machineLease = a /\ pc[a] \in {"record", "sync", "defer"}
    /\ HasDocument(a) /\ Owned(a, tx[a])
    /\ DocumentWritten(a)

LEMMA HowDocumentsChange ==
  ASSUME TypeOK, ContextInv, PolicyInv, [Next]_vars
  PROVE  \/ UNCHANGED docs
         \/ \E a \in Apps : WriteDocument(a)
         \/ \E a \in Apps : Rewrites(a)
<1> SUFFICES ASSUME docs' # docs, \A a \in Apps : ~WriteDocument(a)
             PROVE  \E a \in Apps : Rewrites(a)
  OBVIOUS
<1>1. PICK a \in Apps : RecordAttempt(a) \/ SetManifestSync(a) \/ DeferMirror(a)
  BY DEF Next, Proceed, vars, files, AcquireMachine, TurnedAway, Guard, AcquireWorkspace,
     NothingPending, ForeignPending, RecoverPending, Prepare, WritePointer, RouteChrome,
     ConnectRelay, DisconnectForLocal, Command, EndSteps, EndUnrestored, RestoreVpn,
     RestoreChrome, RestoredUnrecorded, RecordRestoration, RecoveryFailed, MirrorOrigin,
     ClearActive, Crash, Start, ChangeRelay, DeleteRun
<1>2. machineLease = a /\ pc[a] \in {"record", "sync", "defer"}
  BY <1>1 DEF RecordAttempt, SetManifestSync, DeferMirror, PolicyInv, AppInv, Leased,
     PlacesUnderMachineLease, Restoring
<1>3. HasDocument(a)
  BY <1>1 DEF RecordAttempt, SetManifestSync, DeferMirror, ContextInv, Closings, Bodies,
     Restoring
<1>4. Owned(a, tx[a])
  BY <1>1 DEF RecordAttempt, SetManifestSync, DeferMirror, PolicyInv, AppInv, Work,
     Stage, Opened
<1>5. DocumentWritten(a)
  <2>1. seen[a] \in SyncStatuses
    BY DEF TypeOK
  <2> QED
    BY <1>1, <2>1 DEF RecordAttempt, SetManifestSync, DeferMirror, DocumentWritten,
       TransactionStatuses
<1> QED
  BY <1>2, <1>3, <1>4, <1>5 DEF Rewrites

LEMMA StepDocuments ==
  TypeOK /\ ContextInv /\ PolicyInv /\ [Next]_vars
      => \A t \in Tx : docs[t] # None /\ docs'[t] # docs[t] =>
            machineLease # None /\ home[machineLease] = docs[t].origin
<1> SUFFICES ASSUME TypeOK, ContextInv, PolicyInv, [Next]_vars,
                    NEW t \in Tx, docs[t] # None, docs'[t] # docs[t]
             PROVE  machineLease # None /\ home[machineLease] = docs[t].origin
  OBVIOUS
<1>1. \A a \in Apps : ~WriteDocument(a)
  BY DEF WriteDocument, TypeOK
<1>2. PICK a \in Apps : Rewrites(a)
  BY <1>1, HowDocumentsChange
<1>3. tx[a] = t
  BY <1>2, WrittenType DEF Rewrites
<1> QED
  BY <1>2, <1>3, ConstantsAssumption DEF Rewrites, Owned

\* A transaction's document is rewritten only by a process of its checkout that
\* has the machine lease, stale readers of the pointer included
\* (owns_document, set_manifest_sync, record_restoration_attempt).
THEOREM OwnersWrite == Spec => OnlyItsOwnerWrites
<1>1. TypeOK /\ ContextInv /\ PolicyInv /\ [Next]_vars
          => [\A t \in Tx : docs[t] # None /\ docs'[t] # docs[t] =>
                machineLease # None /\ home[machineLease] = docs[t].origin]_vars
  BY StepDocuments
<1> QED
  BY <1>1, PolicyInvariants, PTL DEF Spec, OnlyItsOwnerWrites

-----------------------------------------------------------------------------
(***************************************************************************)
(* What the fence promises however the preferences are edited: it is the   *)
(* open transaction's checkout that touches the machine, and a transaction *)
(* is closed with the machine restored.                                    *)
(***************************************************************************)
\* The VPN, and then the machine, is at the target of the restoration.
Arrives(a) ==
    /\ pc[a] = "chrome" /\ ok[a] => machine.vpn = goal[a]
    /\ pc[a] = "record" /\ ok[a] => machine = Target(goal[a])
AllArrive == \A a \in Apps : Arrives(a)

\* A step of one process leaves the others where they have arrived.
LEMMA OthersArrive ==
  ASSUME TypeOK, PolicyInv, AllArrive, NEW a \in Apps, Proceed(a), Arrives(a)'
  PROVE  \A b \in Apps : Arrives(b)'
<1> SUFFICES ASSUME NEW b \in Apps \ {a} PROVE Arrives(b)'
  OBVIOUS
<1>1. /\ pc'[b] = pc[b] /\ goal'[b] = goal[b] /\ ok'[b] = ok[b]
      /\ pc[a] \in PlacesUnderMachineLease \/ StandsStill
  BY StepsAlone DEF OthersKept
<1>2. CASE pc[b] \in {"chrome", "record"}
  <2>1. pc[a] \notin PlacesUnderMachineLease
    BY <1>2 DEF PolicyInv, AppInv, Leased, PlacesUnderMachineLease, Restoring
  <2> QED
    BY <1>1, <2>1 DEF StandsStill, AllArrive, Arrives
<1>3. CASE pc[b] \notin {"chrome", "record"}
  BY <1>1, <1>3 DEF Arrives
<1> QED
  BY <1>2, <1>3

LEMMA StepArrives ==
  ASSUME TypeOK, PolicyInv, AllArrive, NEW a \in Apps, Proceed(a)
  PROVE  Arrives(a)'
<1>1. CASE RestoreVpn(a)
  <2>1. pc'[a] = "chrome" /\ goal' = goal
    BY <1>1 DEF RestoreVpn, TypeOK
  <2>2. CASE machine' = [machine EXCEPT !.vpn = goal[a]]
    BY <2>1, <2>2 DEF Arrives, TypeOK
  <2>3. CASE ok' = [ok EXCEPT ![a] = FALSE]
    BY <2>1, <2>3 DEF Arrives, TypeOK
  <2> QED
    BY <1>1, <2>2, <2>3 DEF RestoreVpn
<1>2. CASE RestoreChrome(a)
  <2>1. pc'[a] = "record" /\ goal' = goal /\ pc[a] = "chrome"
    BY <1>2 DEF RestoreChrome, TypeOK
  <2>2. CASE machine' = [machine EXCEPT !.excluded = TRUE] /\ ok' = ok
    <3>1. ok[a] => machine.vpn = goal[a]
      BY <2>1 DEF AllArrive, Arrives
    <3>2. ok[a] => machine' = Target(goal[a])
      BY <2>2, <3>1 DEF Target, TypeOK
    <3> QED
      BY <2>1, <2>2, <3>2 DEF Arrives
  <2>3. CASE ok' = [ok EXCEPT ![a] = FALSE]
    BY <2>1, <2>3 DEF Arrives, TypeOK
  <2> QED
    BY <1>2, <2>2, <2>3 DEF RestoreChrome
<1>3. CASE ~RestoreVpn(a) /\ ~RestoreChrome(a)
  <2>1. pc'[a] \notin {"chrome", "record"}
    BY <1>3 DEF Proceed, Leave, Finally, AfterSync, TypeOK, AcquireMachine, TurnedAway,
       Guard, AcquireWorkspace, NothingPending, ForeignPending, RecoverPending, Prepare,
       WriteDocument, WritePointer, RouteChrome, ConnectRelay, DisconnectForLocal,
       Command, EndSteps, EndUnrestored, RestoredUnrecorded, RecordAttempt,
       RecordRestoration, RecoveryFailed, MirrorOrigin, SetManifestSync, DeferMirror,
       ClearActive
  <2> QED
    BY <2>1 DEF Arrives
<1> QED
  BY <1>1, <1>2, <1>3

\* What changes what is open, and how.
LEMMA HowThePointerMoves ==
  ASSUME TypeOK, ContextInv, PolicyInv, [Next]_vars, active' # active
  PROVE  \E a \in Apps :
            /\ machineLease = a
            /\ UNCHANGED <<machine, docs>>
            /\ \/ /\ pc[a] = "pointer" /\ active = None /\ active' = tx[a]
                  /\ docs[tx[a]].status = "pending" /\ Owned(a, tx[a])
                  /\ tx[a] \in Tx
                  /\ UNCHANGED machineLease
               \/ /\ pc[a] = "clear" /\ active' = None
                  /\ Opened(a) /\ AlreadyRestored(tx[a])
                  /\ machineLease' \in {None, a}
<1>1. PICK a \in Apps : WritePointer(a) \/ ClearActive(a)
  BY DEF Next, Proceed, vars, AcquireMachine, TurnedAway, Guard, AcquireWorkspace,
     NothingPending, ForeignPending, RecoverPending, Prepare, WriteDocument, RouteChrome,
     ConnectRelay, DisconnectForLocal, Command, EndSteps, EndUnrestored, RestoreVpn,
     RestoreChrome, RestoredUnrecorded, RecordAttempt, RecordRestoration, RecoveryFailed,
     MirrorOrigin, SetManifestSync, DeferMirror, Crash, Start, ChangeRelay, DeleteRun
<1>2. machineLease = a /\ UNCHANGED <<machine, docs>>
  BY <1>1 DEF WritePointer, ClearActive, files, PolicyInv, AppInv, Leased,
     PlacesUnderMachineLease
<1>3. CASE WritePointer(a)
  <2>1. active = None /\ docs[tx[a]].status = "pending" /\ Owned(a, tx[a])
    BY <1>3 DEF WritePointer, PolicyInv, AppInv, Work
  <2>2. pc[a] = "pointer" /\ active' = tx[a] /\ UNCHANGED machineLease /\ tx[a] \in Tx
    BY <1>3 DEF WritePointer, locks, ContextInv, Closings, HasDocument
  <2> QED
    BY <1>2, <2>1, <2>2
<1>4. CASE ClearActive(a)
  <2>1. Opened(a) /\ AlreadyRestored(tx[a]) /\ pc[a] = "clear"
    BY <1>4 DEF ClearActive, PolicyInv, AppInv, Work, Stage
  <2>2. active' = None
    BY <1>4, <2>1 DEF ClearActive, Opened
  <2>3. machineLease' \in {None, a}
    BY <1>2, <1>4 DEF ClearActive, Leave, Free, locks
  <2> QED
    BY <1>2, <2>1, <2>2, <2>3
<1> QED
  BY <1>1, <1>3, <1>4

\* Only a restoration that arrived is recorded as one.
LEMMA HowRestoredComesAbout ==
  ASSUME TypeOK, ContextInv, PolicyInv, [Next]_vars, active # None,
         active' = active, AlreadyRestored(active)', ~AlreadyRestored(active)
  PROVE  \E a \in Apps : /\ pc[a] = "record" /\ ok[a] /\ Opened(a)
                         /\ UNCHANGED machine
                         /\ docs'[active].target = docs[active].target
<1>1. active \in Tx /\ docs[active] # None /\ docs' # docs
  BY DEF ContextInv, TypeOK, AlreadyRestored
<1>2. \A a \in Apps : ~WriteDocument(a)
  BY DEF WriteDocument, PolicyInv, AppInv, Work
<1>3. PICK a \in Apps : RecordAttempt(a) \/ SetManifestSync(a) \/ DeferMirror(a)
  BY <1>1, <1>2
  DEF Next, Proceed, vars, files, AcquireMachine, TurnedAway, Guard, AcquireWorkspace,
     NothingPending, ForeignPending, RecoverPending, Prepare, WritePointer, RouteChrome,
     ConnectRelay, DisconnectForLocal, Command, EndSteps, EndUnrestored, RestoreVpn,
     RestoreChrome, RestoredUnrecorded, RecordRestoration, RecoveryFailed, MirrorOrigin,
     ClearActive, Crash, Start, ChangeRelay, DeleteRun
<1>4. HasDocument(a)
  BY <1>3 DEF RecordAttempt, SetManifestSync, DeferMirror, ContextInv, Closings, Bodies,
     Restoring
<1>5. CASE SetManifestSync(a)
  <2>1. docs' = [docs EXCEPT ![tx[a]].sync = seen[a]]
    BY <1>1, <1>5 DEF SetManifestSync
  <2> QED
    BY <1>1, <1>4, <2>1, SyncWritten DEF AlreadyRestored
<1>6. CASE DeferMirror(a)
  <2>1. active = tx[a] /\ AlreadyRestored(tx[a])
    BY <1>6 DEF DeferMirror, PolicyInv, AppInv, Work, Stage, Opened
  <2> QED
    BY <2>1 DEF AlreadyRestored
<1>7. CASE RecordAttempt(a)
  <2>1. Opened(a) /\ pc[a] = "record" /\ UNCHANGED machine
    BY <1>7 DEF RecordAttempt, PolicyInv, AppInv, Work, Bodies, Restoring
  <2>2. ok[a]
    <3>1. SUFFICES ASSUME ~ok[a] PROVE FALSE
      OBVIOUS
    <3>2. docs' = [docs EXCEPT ![tx[a]].status = "failed"]
      BY <1>1, <1>7, <3>1 DEF RecordAttempt
    <3>3. docs'[tx[a]].status = "failed"
      BY <1>4, <3>2, StatusWritten
    <3> QED
      BY <2>1, <3>3 DEF AlreadyRestored, Opened
  <2>3. docs' = [docs EXCEPT ![tx[a]].status = "restored"]
    BY <1>1, <1>7, <2>2 DEF RecordAttempt
  <2>4. docs'[active].target = docs[active].target
    BY <1>4, <2>1, <2>3, StatusWritten DEF Opened
  <2> QED
    BY <2>1, <2>2, <2>4
<1> QED
  BY <1>3, <1>5, <1>6, <1>7

LEMMA StepAllArrive ==
  ASSUME TypeOK, PolicyInv, AllArrive, [Next]_vars
  PROVE  AllArrive'
<1> SUFFICES ASSUME NEW b \in Apps PROVE Arrives(b)'
  BY DEF AllArrive
<1>1. ASSUME NEW a \in Apps, Proceed(a) PROVE Arrives(b)'
  BY <1>1, StepArrives, OthersArrive
<1>2. ASSUME NEW a \in Apps, Crash(a) PROVE Arrives(b)'
  <2>1. pc'[a] = "idle" /\ OthersKept(a) /\ UNCHANGED machine
    BY <1>2, LeaveKeepsOthers DEF Crash
  <2> QED
    BY <2>1 DEF OthersKept, Arrives, AllArrive
<1>3. ASSUME NEW a \in Apps, NEW k \in AllKinds, Start(a, k) PROVE Arrives(b)'
  <2>1. pc'[a] = "start" /\ OthersKept(a) /\ UNCHANGED machine
    BY <1>3 DEF Start, OthersKept, TypeOK
  <2> QED
    BY <2>1 DEF OthersKept, Arrives, AllArrive
<1> QED
  BY <1>1, <1>2, <1>3 DEF Next, ChangeRelay, DeleteRun, vars, locals, AllArrive, Arrives

\* A transaction that counts as restored has left the VPN connected and Chrome
\* excluded, and nothing has changed that since.
RestoredIsRestored ==
    active # None /\ AlreadyRestored(active) => \E r \in Relays : machine = Target(r)

LEMMA StepRestored ==
  ASSUME TypeOK, ContextInv, PolicyInv, AllArrive, RestoredIsRestored, [Next]_vars
  PROVE  RestoredIsRestored'
<1> SUFFICES ASSUME active' # None, AlreadyRestored(active)'
             PROVE  \E r \in Relays : machine' = Target(r)
  BY DEF RestoredIsRestored, Target
<1>1. CASE active' # active
  <2>1. PICK a \in Apps : /\ UNCHANGED docs /\ active' = tx[a]
                          /\ docs[tx[a]].status = "pending"
    BY <1>1, HowThePointerMoves
  <2> QED
    BY <2>1 DEF AlreadyRestored
<1>2. CASE active' = active /\ AlreadyRestored(active)
  <2>1. UNCHANGED machine
    <3>1. SUFFICES ASSUME machine' # machine PROVE FALSE
      OBVIOUS
    <3>2. PICK a \in Apps : pc[a] \in Bodies
      BY <3>1, WhoTouches
    <3> QED
      BY <1>2, <3>2 DEF PolicyInv, AppInv, Work, Opened, AlreadyRestored
  <2> QED
    BY <1>2, <2>1 DEF RestoredIsRestored
<1>3. CASE active' = active /\ ~AlreadyRestored(active)
  <2>1. PICK a \in Apps : pc[a] = "record" /\ ok[a] /\ UNCHANGED machine
    BY <1>3, HowRestoredComesAbout
  <2>2. machine = Target(goal[a])
    BY <2>1 DEF AllArrive, Arrives
  <2>3. goal[a] \in Relays
    BY <2>1 DEF TypeOK
  <2> QED
    BY <2>1, <2>2, <2>3
<1> QED
  BY <1>1, <1>2, <1>3

\* The machine changes only at the hands of who holds its lease, in the checkout
\* of the open transaction if there is one.
OnlyItsOwnerTouches ==
    [][machine' # machine =>
         /\ machineLease # None
         /\ active # None => docs[active].origin = home[machineLease]]_vars

LEMMA StepOwnerTouches ==
  ASSUME TypeOK, ContextInv, PolicyInv, [Next]_vars, machine' # machine
  PROVE  /\ machineLease # None
         /\ active # None => docs[active].origin = home[machineLease]
<1>1. PICK a \in Apps : machineLease = a /\ pc[a] \in Bodies
  BY WhoTouches
<1>2. active # None => docs[active].origin = home[a]
  BY <1>1 DEF PolicyInv, AppInv, Work, Opened, Owned
<1> QED
  BY <1>1, <1>2, ConstantsAssumption

\* For any processes, checkouts, edits of the preferences, crashes and failures:
\* the machine of an open transaction is changed by its own checkout only, under
\* the machine lease (owns_document, MachinePolicyJournal).
THEOREM ForeignersKeepOff == Spec => OnlyItsOwnerTouches
<1>1. TypeOK /\ ContextInv /\ PolicyInv /\ [Next]_vars =>
        (machine' # machine =>
           /\ machineLease # None
           /\ active # None => docs[active].origin = home[machineLease])
  BY StepOwnerTouches
<1> QED
  BY <1>1, PolicyInvariants, PTL DEF Spec, OnlyItsOwnerTouches

\* The pointer leaves a transaction for nothing else than the machine, and only
\* with the VPN connected to a configured relay and Chrome excluded.
NothingClosesUnrestored ==
    [][active # None /\ active' # active =>
         /\ active' = None
         /\ \E r \in Relays : machine = Target(r) /\ machine' = machine]_vars

LEMMA StepCloses ==
  ASSUME TypeOK, ContextInv, PolicyInv, RestoredIsRestored, [Next]_vars,
         active # None, active' # active
  PROVE  /\ active' = None
         /\ \E r \in Relays : machine = Target(r) /\ machine' = machine
<1>1. PICK a \in Apps : /\ active' = None /\ Opened(a) /\ AlreadyRestored(tx[a])
                        /\ UNCHANGED machine
  BY HowThePointerMoves
<1>2. active = tx[a]
  BY <1>1 DEF Opened
<1> QED
  BY <1>1, <1>2 DEF RestoredIsRestored

\* For any processes, checkouts, edits of the preferences, crashes and failures:
\* no transaction is replaced by another, and none is closed before the VPN is
\* connected and Chrome excluded again (clear_active, recover_pending).
THEOREM ClosedIsRestored == Spec => NothingClosesUnrestored
<1>1. Init => AllArrive /\ RestoredIsRestored
  BY DEF Init, AllArrive, Arrives, RestoredIsRestored
<1>2. TypeOK /\ ContextInv /\ PolicyInv /\ AllArrive /\ RestoredIsRestored /\ [Next]_vars
        => AllArrive' /\ RestoredIsRestored'
  BY StepAllArrive, StepRestored
<1>3. TypeOK /\ ContextInv /\ PolicyInv /\ RestoredIsRestored /\ [Next]_vars =>
        (active # None /\ active' # active =>
           /\ active' = None
           /\ \E r \in Relays : machine = Target(r) /\ machine' = machine)
  BY StepCloses
<1> QED
  BY <1>1, <1>2, <1>3, PolicyInvariants, PTL DEF Spec, NothingClosesUnrestored

-----------------------------------------------------------------------------
(***************************************************************************)
(* The fence.  While nobody edits the relay preferences, every controller  *)
(* has its checkout's relay and every document its origin's, so a finished *)
(* restoration leaves the machine where the open document says.            *)
(***************************************************************************)
Steady == MaxRelayChanges = 0

SteadyRelays ==
    /\ relay = firstRelay
    /\ \A a \in Apps : pc[a] # "idle" => goal[a] = firstRelay[home[a]]
    /\ \A t \in Tx : docs[t] # None => docs[t].target = firstRelay[docs[t].origin]

AtTarget ==
    /\ active # None /\ AlreadyRestored(active) => machine = Target(docs[active].target)
    /\ AllArrive

LEMMA RelaysStay ==
  ASSUME Steady, TypeOK, [Next]_vars
  PROVE  relay' = relay
<1>1. \A c \in Checkouts, r \in Relays : ~ChangeRelay(c, r)
  <2>1. used.relays \in 0..0
    BY DEF TypeOK, Steady
  <2> QED
    BY <2>1 DEF ChangeRelay, Steady
<1> QED
  BY <1>1 DEF Next, Proceed, vars, AcquireMachine, TurnedAway, Guard, AcquireWorkspace,
     NothingPending, ForeignPending, RecoverPending, Prepare, WriteDocument,
     WritePointer, RouteChrome, ConnectRelay, DisconnectForLocal, Command, EndSteps,
     EndUnrestored, RestoreVpn, RestoreChrome, RestoredUnrecorded, RecordAttempt,
     RecordRestoration, RecoveryFailed, MirrorOrigin, SetManifestSync, DeferMirror,
     ClearActive, Crash, Start, DeleteRun

\* A running task keeps the controller it was started with.
LEMMA GoalsStay ==
  ASSUME TypeOK, [Next]_vars, NEW a \in Apps, pc'[a] # "idle"
  PROVE  \/ pc[a] # "idle" /\ goal'[a] = goal[a]
         \/ goal'[a] = relay[home[a]]
<1>1. ASSUME NEW b \in Apps, Leave(b)
      PROVE  pc[a] # "idle" /\ goal'[a] = goal[a]
  BY <1>1 DEF Leave, TypeOK
<1>2. ASSUME NEW b \in Apps, Proceed(b), ~Leave(b)
      PROVE  pc[a] # "idle" /\ goal'[a] = goal[a]
  <2>1. UNCHANGED goal
    BY <1>2 DEF Proceed, locals, AcquireMachine, TurnedAway, Guard, AcquireWorkspace,
       NothingPending, ForeignPending, RecoverPending, Prepare, WriteDocument,
       WritePointer, RouteChrome, ConnectRelay, DisconnectForLocal, Command, EndSteps,
       EndUnrestored, RestoreVpn, RestoreChrome, RestoredUnrecorded, RecordAttempt,
       RecordRestoration, RecoveryFailed, MirrorOrigin, SetManifestSync, DeferMirror,
       ClearActive
  <2>2. pc[b] # "idle" /\ OthersKept(b)
    BY <1>2, StepsAlone DEF Proceed, AcquireMachine, TurnedAway, Guard, AcquireWorkspace,
       NothingPending, ForeignPending, RecoverPending, Prepare, WriteDocument,
       WritePointer, RouteChrome, ConnectRelay, DisconnectForLocal, EndSteps,
       EndUnrestored, RestoreVpn, RestoreChrome, RestoredUnrecorded, RecordAttempt,
       RecordRestoration, RecoveryFailed, MirrorOrigin, SetManifestSync, DeferMirror,
       ClearActive, OnVpn, OnLocal
  <2> QED
    BY <2>1, <2>2 DEF OthersKept
<1>3. ASSUME NEW b \in Apps, NEW k \in AllKinds, Start(b, k)
      PROVE  \/ pc[a] # "idle" /\ goal'[a] = goal[a]
             \/ goal'[a] = relay[home[a]]
  BY <1>3 DEF Start, TypeOK
<1> QED
  BY <1>1, <1>2, <1>3 DEF Next, Crash, ChangeRelay, DeleteRun, vars, locals

LEMMA StepSteadyRelays ==
  ASSUME Steady, TypeOK, ContextInv, PolicyInv, SteadyRelays, [Next]_vars
  PROVE  SteadyRelays'
<1>1. relay' = firstRelay
  BY RelaysStay DEF SteadyRelays
<1>2. \A a \in Apps : pc'[a] # "idle" => goal'[a] = firstRelay[home[a]]
  BY GoalsStay DEF SteadyRelays
<1>3. ASSUME NEW t \in Tx, docs'[t] # None
      PROVE  docs'[t].target = firstRelay[docs'[t].origin]
  <2>1. CASE UNCHANGED docs
    BY <1>3, <2>1 DEF SteadyRelays
  <2>2. ASSUME NEW a \in Apps, WriteDocument(a)
        PROVE  docs'[t].target = firstRelay[docs'[t].origin]
    <3>1. \/ docs' = docs
          \/ \E u \in Tx : docs' = [docs EXCEPT ![u] =
                [origin |-> home[a], run |-> run[a], target |-> goal[a],
                 status |-> "pending", sync |-> "pending"]]
      BY <2>2 DEF WriteDocument
    <3>2. goal[a] = firstRelay[home[a]]
      BY <2>2 DEF WriteDocument, SteadyRelays
    <3> QED
      BY <1>3, <3>1, <3>2 DEF SteadyRelays, TypeOK
  <2>3. ASSUME NEW a \in Apps, Rewrites(a)
        PROVE  docs'[t].target = firstRelay[docs'[t].origin]
    BY <1>3, <2>3, WrittenType DEF Rewrites, SteadyRelays, HasDocument
  <2> QED
    BY <2>1, <2>2, <2>3, HowDocumentsChange
<1> QED
  BY <1>1, <1>2, <1>3 DEF SteadyRelays

\* An open document keeps its origin and its target.
LEMMA OpenStays ==
  ASSUME TypeOK, ContextInv, PolicyInv, [Next]_vars, active # None
  PROVE  /\ docs'[active].origin = docs[active].origin
         /\ docs'[active].target = docs[active].target
<1>1. active \in Tx
  BY DEF TypeOK
<1>2. \A a \in Apps : ~WriteDocument(a)
  BY DEF WriteDocument, PolicyInv, AppInv, Work
<1>3. ASSUME NEW a \in Apps, Rewrites(a)
      PROVE  /\ docs'[active].origin = docs[active].origin
             /\ docs'[active].target = docs[active].target
  BY <1>1, <1>3, WrittenType DEF Rewrites
<1> QED
  BY <1>2, <1>3, HowDocumentsChange

LEMMA StepAtTarget ==
  ASSUME TypeOK, ContextInv, PolicyInv, SteadyRelays, AtTarget, [Next]_vars
  PROVE  AtTarget'
<1>1. AllArrive'
  BY StepAllArrive DEF AtTarget
<1>2. ASSUME active' # None, AlreadyRestored(active)'
      PROVE  machine' = Target(docs'[active'].target)
  <2>1. CASE active' # active
    <3>1. PICK a \in Apps : /\ UNCHANGED docs /\ active' = tx[a]
                            /\ docs[tx[a]].status = "pending"
      BY <1>2, <2>1, HowThePointerMoves
    <3> QED
      BY <1>2, <3>1 DEF AlreadyRestored
  <2>2. CASE active' = active /\ AlreadyRestored(active)
    <3>1. UNCHANGED machine
      <4>1. SUFFICES ASSUME machine' # machine PROVE FALSE
        OBVIOUS
      <4>2. PICK a \in Apps : pc[a] \in Bodies
        BY <4>1, WhoTouches
      <4> QED
        BY <1>2, <2>2, <4>2 DEF PolicyInv, AppInv, Work, Opened, AlreadyRestored
    <3> QED
      BY <1>2, <2>2, <3>1, OpenStays DEF AtTarget
  <2>3. CASE active' = active /\ ~AlreadyRestored(active)
    <3>1. PICK a \in Apps : /\ pc[a] = "record" /\ ok[a] /\ Opened(a)
                            /\ UNCHANGED machine
                            /\ docs'[active].target = docs[active].target
      BY <1>2, <2>3, HowRestoredComesAbout
    <3>2. machine = Target(firstRelay[home[a]])
      BY <3>1 DEF AtTarget, AllArrive, Arrives, SteadyRelays
    <3>3. docs[active].target = firstRelay[home[a]]
      BY <1>2, <2>3, <3>1 DEF SteadyRelays, Opened, Owned, ContextInv, TypeOK
    <3> QED
      BY <2>3, <3>1, <3>2, <3>3
  <2> QED
    BY <2>1, <2>2, <2>3
<1> QED
  BY <1>1, <1>2 DEF AtTarget

\* The lease comes to who had none, leaves with who had it, or stays.
LEMMA HowTheLeaseMoves ==
  ASSUME TypeOK, PolicyInv, [Next]_vars, machineLease' # machineLease
  PROVE  \/ machineLease' = None
         \/ machineLease = None /\ machineLease' \in Apps /\ StandsStill /\ UNCHANGED docs
<1>1. ASSUME NEW a \in Apps, Leave(a) PROVE machineLease' = None
  BY <1>1 DEF Leave, Free
<1>2. ASSUME NEW a \in Apps, AcquireMachine(a)
      PROVE  machineLease = None /\ machineLease' \in Apps /\ StandsStill /\ UNCHANGED docs
  BY <1>2 DEF AcquireMachine, StandsStill, files
<1>3. \E a \in Apps : Leave(a) \/ AcquireMachine(a)
  BY DEF Next, Proceed, vars, locks, TurnedAway, Guard, AcquireWorkspace,
     NothingPending, ForeignPending, RecoverPending, Prepare, WriteDocument,
     WritePointer, RouteChrome, ConnectRelay, DisconnectForLocal, Command, EndSteps,
     EndUnrestored, RestoreVpn, RestoreChrome, RestoredUnrecorded, RecordAttempt,
     RecordRestoration, RecoveryFailed, MirrorOrigin, SetManifestSync, DeferMirror,
     ClearActive, Crash, Start, ChangeRelay, DeleteRun
<1> QED
  BY <1>1, <1>2, <1>3

\* The fence's variables in the terms of this model.
User == IF machineLease = None THEN None ELSE home[machineLease]
Owner == IF active = None THEN None ELSE docs[active].origin
Goal == IF active = None THEN None ELSE docs[active].target

LEMMA StepFence ==
  ASSUME TypeOK, ContextInv, PolicyInv, SteadyRelays, AtTarget, [Next]_vars, TypeOK'
  PROVE  [MachineFence!FenceNext]_(MachineFence!fenceVars)
<1>1. CASE active' # active
  <2>1. PICK a \in Apps :
            /\ machineLease = a
            /\ UNCHANGED <<machine, docs>>
            /\ \/ /\ pc[a] = "pointer" /\ active = None /\ active' = tx[a]
                  /\ docs[tx[a]].status = "pending" /\ Owned(a, tx[a])
                  /\ tx[a] \in Tx
                  /\ UNCHANGED machineLease
               \/ /\ pc[a] = "clear" /\ active' = None
                  /\ Opened(a) /\ AlreadyRestored(tx[a])
                  /\ machineLease' \in {None, a}
    BY <1>1, HowThePointerMoves
  <2>2. machineLease # None /\ User = home[a] /\ home[a] # None
    BY <2>1, ConstantsAssumption DEF User
  <2>3. CASE active = None /\ active' = tx[a] /\ Owned(a, tx[a]) /\ UNCHANGED machineLease
    <3>1. HasDocument(a)
      BY <2>1, <2>3, <1>1 DEF ContextInv, Closings, Opened
    <3>2. docs[tx[a]].target \in Relays /\ tx[a] # None
      BY <3>1, ConstantsAssumption DEF HasDocument, TypeOK, Documents
    <3>3. MachineFence!Open(docs[tx[a]].target)
      BY <2>1, <2>2, <2>3, <3>2 DEF MachineFence!Open, User, Owned
    <3> QED
      BY <3>2, <3>3 DEF MachineFence!FenceNext
  <2>4. CASE active' = None /\ Opened(a) /\ AlreadyRestored(tx[a])
               /\ machineLease' \in {None, a}
    <3>1. active # None /\ active = tx[a] /\ docs[active].origin = home[a]
      BY <1>1, <2>4 DEF Opened, Owned
    <3>2. machine = Target(docs[active].target)
      BY <2>4, <3>1 DEF AtTarget
    <3>3. MachineFence!Close
      BY <2>1, <2>2, <2>4, <3>1, <3>2 DEF MachineFence!Close, User, Target
    <3> QED
      BY <3>3 DEF MachineFence!FenceNext
  <2> QED
    BY <2>1, <2>3, <2>4
<1>2. CASE active' = active
  <2>1. Owner' = Owner /\ Goal' = Goal
    BY <1>2, OpenStays DEF Owner, Goal
  <2>2. CASE machine' # machine
    <3>1. PICK a \in Apps : /\ machineLease = a /\ pc[a] \in Bodies
                            /\ UNCHANGED <<files, active, locks>>
      BY <2>2, WhoTouches
    <3>2. Owner \in {None, home[a]}
      BY <3>1 DEF PolicyInv, AppInv, Work, Opened, Owned, Owner
    <3>3. User = home[a] /\ home[a] # None /\ UNCHANGED User
      BY <3>1, ConstantsAssumption DEF User, locks
    <3>4. machine' \in [vpn : Relays \cup {Off}, excluded : BOOLEAN]
      BY DEF TypeOK
    <3>5. MachineFence!Touch
      BY <2>1, <3>2, <3>3, <3>4
      DEF MachineFence!Touch, MachineFence!Machines, User, Owner, Goal
    <3> QED
      BY <3>5 DEF MachineFence!FenceNext
  <2>3. CASE machine' = machine /\ machineLease' = machineLease
    BY <2>1, <2>3 DEF MachineFence!fenceVars, User, Owner, Goal
  <2>4. CASE machine' = machine /\ machineLease' # machineLease
    <3>1. CASE machineLease' = None
      <4>1. MachineFence!Go
        BY <2>1, <2>4, <3>1 DEF MachineFence!Go, Owner, Goal
      <4> QED
        BY <4>1 DEF MachineFence!FenceNext
    <3>2. CASE machineLease = None /\ machineLease' \in Apps
      <4>1. machineLease' # None /\ home[machineLease'] \in Checkouts
        BY <3>2, ConstantsAssumption
      <4>2. MachineFence!Come(home[machineLease'])
        BY <2>1, <2>4, <3>2, <4>1 DEF MachineFence!Come, Owner, Goal
      <4> QED
        BY <4>1, <4>2 DEF MachineFence!FenceNext
    <3> QED
      BY <2>4, <3>1, <3>2, HowTheLeaseMoves
  <2> QED
    BY <2>2, <2>3, <2>4
<1> QED
  BY <1>1, <1>2

LEMMA InitFence == Init => SteadyRelays /\ AtTarget /\ MachineFence!FenceInit
  BY DEF Init, SteadyRelays, AtTarget, AllArrive, Arrives, MachineFence!FenceInit,
     MachineFence!Machines

\* The journal, the leases and the recovery implement the fence while the relay
\* preferences stay: no foreign checkout touches the machine of an open
\* transaction, and none is closed before the machine is at its target
\* (machine_policy.py, run and run_step).
THEOREM FenceHolds == ASSUME Steady PROVE Spec => ImplementsFence
<1>1. Init => SteadyRelays /\ AtTarget /\ MachineFence!FenceInit
  BY InitFence
<1>2. /\ TypeOK /\ ContextInv /\ PolicyInv /\ SteadyRelays /\ AtTarget /\ [Next]_vars
      => SteadyRelays' /\ AtTarget' /\ [MachineFence!FenceNext]_(MachineFence!fenceVars)
  BY StepSteadyRelays, StepAtTarget, StepTypeOK, StepFence
<1> QED
  BY <1>1, <1>2, PolicyInvariants, PTL DEF Spec, ImplementsFence, MachineFence!Fence

-----------------------------------------------------------------------------
(***************************************************************************)
(* Getting on                                                              *)
(***************************************************************************)
\* What a task still has before it.  It restores the machine once to recover,
\* before its own work, and once when it has finished that.
Left(place, round) ==
    LET again == IF round = "recover" THEN 18 ELSE 0 IN
    CASE place = "start" -> 27        [] place = "recover" -> 26
      [] place = "guard" -> 18        [] place = "workspace" -> 17
      [] place = "prepare" -> 16      [] place = "doc" -> 15
      [] place = "pointer" -> 14      [] place = "open" -> 13
      [] place = "routing" -> 12      [] place = "routed" -> 11
      [] place = "local" -> 10        [] place = "rerouted" -> 9
      [] place \in {"relocal", "plain", "manual"} -> 8
      [] place = "vpn" -> again + 7   [] place = "chrome" -> again + 6
      [] place = "record" -> again + 5
      [] place \in {"mirror", "manifest"} -> again + 4
      [] place = "sync" -> again + 3  [] place = "defer" -> again + 2
      [] place = "clear" -> again + 1 [] OTHER -> 0

GetsOn(a) ==
    \/ pc[a] = "idle" /\ pc'[a] = "start"
    \/ Left(pc'[a], phase'[a]) < Left(pc[a], phase[a])

\* Every step of a process leads its task to a later place and turns no task
\* back; the operator's edits, which are bounded, move none.
Onward ==
    /\ \/ \E a \in Apps : GetsOn(a)
       \/ used' # used
    /\ \A a \in Apps : GetsOn(a) \/ UNCHANGED <<pc[a], phase[a]>>

NoStepIsInVain == [][Onward]_vars

\* Only MyFreeCams takes a second look through the VPN.
SecondLook == \A a \in Apps : pc[a] = "rerouted" => task[a] = "legacy"

Stepping == {"open", "routing"} \cup OnVpn \cup OnLocal

\* One process moves, the others stay.
LEMMA OneMoves ==
    ASSUME TypeOK, NEW a \in Apps, NEW place \in Places, Goto(a, place),
           phase' \in [Apps -> {"recover", "finish"}],
           \A b \in Apps : b # a => phase'[b] = phase[b],
           Left(place, phase'[a]) < Left(pc[a], phase[a])
    PROVE  Onward
<1>1. \A b \in Apps : pc'[b] = IF b = a THEN place ELSE pc[b]
  BY DEF Goto, TypeOK
<1>2. GetsOn(a) /\ \A b \in Apps : b # a => UNCHANGED <<pc[b], phase[b]>>
  BY <1>1 DEF GetsOn
<1> QED
  BY <1>2 DEF Onward

LEMMA GoesOn ==
    ASSUME TypeOK, NEW a \in Apps, NEW place \in Places, Goto(a, place), phase' = phase,
           Left(place, phase[a]) < Left(pc[a], phase[a])
    PROVE  Onward
  BY OneMoves DEF TypeOK

\* A task that ends has nothing left, from wherever it ends.
LEMMA EndsWell ==
    ASSUME TypeOK, NEW a \in Apps, pc[a] # "idle", Leave(a)
    PROVE  Onward
<1>1. Goto(a, "idle") /\ "idle" \in Places
  BY DEF Leave, Places
<1>2. /\ phase' \in [Apps -> {"recover", "finish"}]
      /\ \A b \in Apps : b # a => phase'[b] = phase[b]
  BY DEF Leave, TypeOK
<1>3. pc[a] \in Places /\ phase[a] \in {"recover", "finish"}
  BY DEF TypeOK
<1>4. Left("idle", phase'[a]) < Left(pc[a], phase[a])
  BY <1>3 DEF Left, Places, PlacesUnderMachineLease, Restoring, Working, OnVpn, OnLocal
<1> QED
  BY <1>1, <1>2, <1>4, OneMoves

\* The restoration that finishes a flow comes after all its steps.
LEMMA RestoresLast ==
    ASSUME TypeOK, NEW a \in Apps, pc[a] \in Stepping, Finally(a)
    PROVE  Onward
<1>1. Goto(a, "vpn") /\ "vpn" \in Places
  BY DEF Finally, Places, PlacesUnderMachineLease, Restoring
<1>2. /\ phase' \in [Apps -> {"recover", "finish"}] /\ phase'[a] = "finish"
      /\ \A b \in Apps : b # a => phase'[b] = phase[b]
  BY DEF Finally, TypeOK
<1>3. Left("vpn", "finish") < Left(pc[a], phase[a])
  BY DEF Left, Stepping, OnVpn, OnLocal
<1> QED
  BY <1>1, <1>2, <1>3, OneMoves

LEMMA CommandGoesOn ==
    ASSUME TypeOK, NEW a \in Apps, NEW place \in Places, NEW change,
           pc[a] \in Stepping, Command(a, place, change),
           Left(place, phase[a]) < Left(pc[a], phase[a])
    PROVE  Onward
<1>1. CASE Goto(a, place) /\ phase' = phase
  BY <1>1, GoesOn
<1>2. CASE Finally(a)
  BY <1>2, RestoresLast
<1> QED
  BY <1>1, <1>2 DEF Command

\* Every step of a process leads its task on.
LEMMA StepGetsOn ==
    TypeOK /\ SecondLook /\ [Next]_vars => [Onward]_vars
<1> SUFFICES ASSUME TypeOK, SecondLook, Next PROVE Onward
  OBVIOUS
<1> USE DEF At
<1>0. /\ \A place \in {"workspace", "recover", "guard", "mirror", "plain", "open", "prepare",
                       "doc", "manual", "pointer", "routing", "routed", "rerouted", "local",
                       "relocal", "vpn", "chrome", "record", "manifest", "sync", "defer",
                       "clear"} : place \in Places
      /\ \A a \in Apps : phase[a] \in {"recover", "finish"}
  BY DEF TypeOK, Places, PlacesUnderMachineLease, Restoring, Working, OnVpn, OnLocal
<1>1. ASSUME NEW a \in Apps, NEW k \in AllKinds, Start(a, k) PROVE Onward
  <2>1. /\ \A b \in Apps : pc'[b] = IF b = a THEN "start" ELSE pc[b]
        /\ phase' = phase /\ pc[a] = "idle"
    BY <1>1 DEF Start, Goto, TypeOK
  <2> QED
    BY <2>1 DEF Onward, GetsOn
<1>2. ASSUME NEW a \in Apps, Leave(a), pc[a] # "idle" PROVE Onward
  BY <1>2, EndsWell
<1>3. ASSUME NEW a \in Apps,
             \/ TurnedAway(a) \/ ForeignPending(a) \/ EndUnrestored(a)
             \/ RestoredUnrecorded(a) \/ RecoveryFailed(a) \/ Crash(a)
      PROVE  Onward
  <2>1. Leave(a) /\ pc[a] # "idle"
    BY <1>3 DEF TurnedAway, ForeignPending, EndUnrestored, RestoredUnrecorded,
       RecoveryFailed, Crash
  <2> QED
    BY <1>2, <2>1
<1>4. ASSUME NEW a \in Apps, AcquireMachine(a) \/ AcquireWorkspace(a) PROVE Onward
  <2>1. /\ phase' = phase
        /\ \/ /\ pc[a] = "start"
              /\ \E place \in {"recover", "guard", "mirror", "plain"} : Goto(a, place)
           \/ /\ pc[a] = "workspace"
              /\ \E place \in {"plain", "open", "prepare"} : Goto(a, place)
    BY <1>4 DEF AcquireMachine, AcquireWorkspace, locals
  <2>2. /\ \A place \in {"recover", "guard", "mirror", "plain"} :
             Left(place, phase[a]) < Left("start", phase[a])
        /\ \A place \in {"plain", "open", "prepare"} :
             Left(place, phase[a]) < Left("workspace", phase[a])
    BY DEF Left
  <2> QED
    BY <1>0, <2>1, <2>2, GoesOn
<1>5. ASSUME NEW a \in Apps, Guard(a) \/ NothingPending(a) \/ RecoverPending(a) PROVE Onward
  <2>1. CASE Leave(a)
    BY <1>2, <1>5, <2>1 DEF Guard, NothingPending, RecoverPending
  <2>2. CASE ~Leave(a)
    <3>1. /\ phase' = phase
          /\ \/ pc[a] = "guard" /\ Goto(a, "workspace")
             \/ /\ pc[a] = "recover"
                /\ \E place \in {"workspace", "clear", "vpn"} : Goto(a, place)
      BY <1>5, <2>2 DEF Guard, NothingPending, RecoverPending, locals
    <3>2. /\ Left("workspace", phase[a]) < Left("guard", phase[a])
          /\ \A place \in {"workspace", "clear", "vpn"} :
               Left(place, phase[a]) < Left("recover", phase[a])
      BY DEF Left
    <3> QED
      BY <1>0, <3>1, <3>2, GoesOn
  <2> QED
    BY <2>1, <2>2
<1>6. ASSUME NEW a \in Apps, Prepare(a) \/ WriteDocument(a) \/ WritePointer(a) PROVE Onward
  <2>1. CASE Leave(a)
    BY <1>2, <1>6, <2>1 DEF Prepare, WriteDocument, WritePointer
  <2>2. CASE ~Leave(a)
    <3>1. /\ phase' = phase
          /\ \/ pc[a] = "prepare" /\ \E place \in {"doc", "manual"} : Goto(a, place)
             \/ pc[a] = "doc" /\ Goto(a, "pointer")
             \/ pc[a] = "pointer" /\ Goto(a, "open")
      BY <1>6, <2>2 DEF Prepare, WriteDocument, WritePointer, locals
    <3>2. /\ \A place \in {"doc", "manual"} :
               Left(place, phase[a]) < Left("prepare", phase[a])
          /\ Left("pointer", phase[a]) < Left("doc", phase[a])
          /\ Left("open", phase[a]) < Left("pointer", phase[a])
      BY DEF Left
    <3> QED
      BY <1>0, <3>1, <3>2, GoesOn
  <2> QED
    BY <2>1, <2>2
<1>7. ASSUME NEW a \in Apps, RouteChrome(a) PROVE Onward
  <2>1. Left("routing", phase[a]) < Left("open", phase[a])
    BY DEF Left
  <2> QED
    BY <1>0, <1>7, <2>1, CommandGoesOn DEF RouteChrome, Stepping
<1>8. ASSUME NEW a \in Apps, ConnectRelay(a) PROVE Onward
  <2>1. /\ Left("routed", phase[a]) < Left("routing", phase[a])
        /\ Left("rerouted", phase[a]) < Left("local", phase[a])
    BY DEF Left
  <2> QED
    BY <1>0, <1>8, <2>1, CommandGoesOn DEF ConnectRelay, Stepping, OnLocal
<1>9. ASSUME NEW a \in Apps, DisconnectForLocal(a) PROVE Onward
  <2>1. \/ pc[a] \in {"open", "routed"} /\ Command(a, "local", [machine EXCEPT !.vpn = Off])
        \/ pc[a] \in {"open", "rerouted"} /\ Command(a, "relocal", [machine EXCEPT !.vpn = Off])
    BY <1>9 DEF DisconnectForLocal, SecondLook, OnVpn
  <2>2. /\ \A place \in {"open", "routed"} : Left("local", phase[a]) < Left(place, phase[a])
        /\ \A place \in {"open", "rerouted"} : Left("relocal", phase[a]) < Left(place, phase[a])
    BY DEF Left
  <2>3. pc[a] \in Stepping
    BY <2>1 DEF Stepping, OnVpn
  <2> QED
    BY <1>0, <2>1, <2>2, <2>3, CommandGoesOn
<1>10. ASSUME NEW a \in Apps, EndSteps(a) PROVE Onward
  BY <1>10, RestoresLast DEF EndSteps, Stepping
<1>11. ASSUME NEW a \in Apps, RestoreVpn(a) \/ RestoreChrome(a) \/ RecordAttempt(a)
       PROVE  Onward
  <2>1. /\ phase' = phase
        /\ \/ pc[a] = "vpn" /\ Goto(a, "chrome")
           \/ pc[a] = "chrome" /\ Goto(a, "record")
           \/ pc[a] = "record" /\ \E place \in {"manifest", "mirror"} : Goto(a, place)
    BY <1>11 DEF RestoreVpn, RestoreChrome, RecordAttempt
  <2>2. /\ Left("chrome", phase[a]) < Left("vpn", phase[a])
        /\ Left("record", phase[a]) < Left("chrome", phase[a])
        /\ \A place \in {"manifest", "mirror"} :
             Left(place, phase[a]) < Left("record", phase[a])
    BY DEF Left
  <2> QED
    BY <1>0, <2>1, <2>2, GoesOn
<1>12. ASSUME NEW a \in Apps, \/ RecordRestoration(a) \/ MirrorOrigin(a) \/ SetManifestSync(a)
                              \/ DeferMirror(a)
       PROVE  Onward
  <2>1. CASE Leave(a)
    BY <1>2, <1>12, <2>1 DEF RecordRestoration, MirrorOrigin, SetManifestSync, DeferMirror
  <2>2. CASE ~Leave(a)
    <3>1. /\ phase' = phase
          /\ \/ pc[a] \in {"manifest", "mirror"} /\ Goto(a, "sync")
             \/ pc[a] = "sync" /\ \E place \in {"defer", "clear"} : Goto(a, place)
             \/ pc[a] = "defer" /\ Goto(a, "clear")
      BY <1>12, <2>2
      DEF RecordRestoration, MirrorOrigin, SetManifestSync, AfterSync, DeferMirror, locals
    <3>2. /\ \A place \in {"manifest", "mirror"} :
               Left("sync", phase[a]) < Left(place, phase[a])
          /\ \A place \in {"defer", "clear"} : Left(place, phase[a]) < Left("sync", phase[a])
          /\ Left("clear", phase[a]) < Left("defer", phase[a])
      BY DEF Left
    <3> QED
      BY <1>0, <3>1, <3>2, GoesOn
  <2> QED
    BY <2>1, <2>2
<1>13. ASSUME NEW a \in Apps, ClearActive(a) PROVE Onward
  <2>1. CASE Leave(a)
    BY <1>2, <1>13, <2>1 DEF ClearActive
  <2>2. CASE ~Leave(a)
    <3>1. /\ phase' = phase /\ phase[a] = "recover"
          /\ pc[a] = "clear" /\ Goto(a, "workspace")
      BY <1>13, <2>2 DEF ClearActive
    <3>2. Left("workspace", "recover") < Left("clear", "recover")
      BY DEF Left
    <3> QED
      BY <1>0, <3>1, <3>2, GoesOn
  <2> QED
    BY <2>1, <2>2
<1>14. ASSUME (\E c \in Checkouts, r \in Relays : ChangeRelay(c, r))
              \/ (\E r \in Runs : DeleteRun(r))
       PROVE  Onward
  <2>1. UNCHANGED <<pc, phase>>
    BY <1>14 DEF ChangeRelay, DeleteRun, locals
  <2>2. used' # used
    <3>1. \/ used' = [used EXCEPT !.relays = @ + 1]
          \/ used' = [used EXCEPT !.failures = @ + 1]
      BY <1>14 DEF ChangeRelay, DeleteRun, Fails
    <3>2. /\ used \in [crashes : 0..MaxCrashes, failures : 0..MaxFailures,
                       relays : 0..MaxRelayChanges]
          /\ used.relays \in Nat /\ used.failures \in Nat
      BY ConstantsAssumption DEF TypeOK
    <3>3. CASE used' = [used EXCEPT !.relays = @ + 1]
      <4>1. used'.relays = used.relays + 1
        BY <3>2, <3>3
      <4> QED
        BY <3>2, <4>1
    <3>4. CASE used' = [used EXCEPT !.failures = @ + 1]
      <4>1. used'.failures = used.failures + 1
        BY <3>2, <3>4
      <4> QED
        BY <3>2, <4>1
    <3> QED
      BY <3>1, <3>3, <3>4
  <2> QED
    BY <2>1, <2>2 DEF Onward
<1> QED
  BY <1>1, <1>3, <1>4, <1>5, <1>6, <1>7, <1>8, <1>9, <1>10, <1>11, <1>12, <1>13, <1>14
  DEF Next, Proceed

\* Every step keeps who looks twice.
LEMMA StepSecondLook ==
    TypeOK /\ SecondLook /\ [Next]_vars => SecondLook'
<1> SUFFICES ASSUME TypeOK, SecondLook, [Next]_vars PROVE SecondLook'
  OBVIOUS
<1> USE DEF TypeOK, SecondLook, At
<1>1. ASSUME NEW a \in Apps, NEW place \in Places, Goto(a, place), place # "rerouted",
             \A b \in Apps : b # a => task'[b] = task[b]
      PROVE  SecondLook'
  BY <1>1 DEF Goto
<1>2. ASSUME NEW a \in Apps, Leave(a) PROVE SecondLook'
  BY <1>1, <1>2 DEF Leave, Places
<1>3. ASSUME NEW a \in Apps, NEW k \in AllKinds, Start(a, k) PROVE SecondLook'
  BY <1>1, <1>3 DEF Start, Places
<1>4. ASSUME NEW a \in Apps,
             \/ TurnedAway(a) \/ ForeignPending(a) \/ EndUnrestored(a)
             \/ RestoredUnrecorded(a) \/ RecoveryFailed(a) \/ Crash(a)
      PROVE  SecondLook'
  BY <1>2, <1>4 DEF TurnedAway, ForeignPending, EndUnrestored, RestoredUnrecorded,
     RecoveryFailed, Crash
<1>5. ASSUME NEW a \in Apps, NEW place \in Places, NEW change, Command(a, place, change),
             place # "rerouted" \/ task[a] = "legacy"
      PROVE  SecondLook'
  <2>1. task' = task /\ \/ pc' = [pc EXCEPT ![a] = place]
                        \/ pc' = [pc EXCEPT ![a] = "vpn"]
    BY <1>5 DEF Command, Finally, Goto
  <2> QED
    BY <1>5, <2>1
<1>6. ASSUME NEW a \in Apps, RouteChrome(a) \/ ConnectRelay(a) \/ DisconnectForLocal(a)
      PROVE  SecondLook'
  <2>1. \E place \in Places :
          /\ place # "rerouted" \/ task[a] = "legacy"
          /\ \E change : Command(a, place, change)
    BY <1>6 DEF RouteChrome, ConnectRelay, DisconnectForLocal, Places,
       PlacesUnderMachineLease, Working, OnVpn, OnLocal
  <2> QED
    BY <1>5, <2>1
<1>7. ASSUME NEW a \in Apps,
             \/ AcquireMachine(a) \/ Guard(a) \/ AcquireWorkspace(a) \/ NothingPending(a)
             \/ RecoverPending(a) \/ Prepare(a) \/ WriteDocument(a) \/ WritePointer(a)
      PROVE  SecondLook'
  <2>1. CASE Leave(a)
    BY <1>2, <2>1
  <2>2. CASE ~Leave(a)
    <3>1. /\ task' = task
          /\ \E place \in {"workspace", "recover", "guard", "mirror", "plain", "open",
                           "prepare", "doc", "manual", "pointer", "clear", "vpn"} :
               pc' = [pc EXCEPT ![a] = place]
      BY <1>7, <2>2 DEF AcquireMachine, Guard, AcquireWorkspace, NothingPending,
         RecoverPending, Prepare, WriteDocument, WritePointer, Goto, locals
    <3> QED
      BY <3>1
  <2> QED
    BY <2>1, <2>2
<1>8. ASSUME NEW a \in Apps,
             \/ EndSteps(a) \/ RestoreVpn(a) \/ RestoreChrome(a) \/ RecordAttempt(a)
             \/ RecordRestoration(a) \/ MirrorOrigin(a) \/ SetManifestSync(a)
             \/ DeferMirror(a) \/ ClearActive(a)
      PROVE  SecondLook'
  <2>1. CASE Leave(a)
    BY <1>2, <2>1
  <2>2. CASE ~Leave(a)
    <3>1. /\ task' = task
          /\ \E place \in {"vpn", "chrome", "record", "manifest", "mirror", "sync", "defer",
                           "clear", "workspace"} :
               pc' = [pc EXCEPT ![a] = place]
      BY <1>8, <2>2 DEF EndSteps, Finally, RestoreVpn, RestoreChrome, RecordAttempt,
         RecordRestoration, MirrorOrigin, SetManifestSync, AfterSync, DeferMirror,
         ClearActive, Goto, locals
    <3> QED
      BY <3>1
  <2> QED
    BY <2>1, <2>2
<1>9. ASSUME (\E c \in Checkouts, r \in Relays : ChangeRelay(c, r))
             \/ (\E r \in Runs : DeleteRun(r)) \/ UNCHANGED vars
      PROVE  SecondLook'
  BY <1>9 DEF ChangeRelay, DeleteRun, locals, vars
<1> QED
  BY <1>3, <1>4, <1>6, <1>7, <1>8, <1>9 DEF Next, Proceed

\* For any processes and checkouts, crashes and failures: a task goes through
\* its places once, restoring at most twice, and comes to its end when it is
\* let run (machine_policy.py, run_step, recover_pending, restore).
THEOREM Progress == Spec => NoStepIsInVain
<1>1. Init => SecondLook
  BY DEF Init, SecondLook
<1>2. TypeOK /\ SecondLook /\ [Next]_vars => [Onward]_vars
  BY StepGetsOn
<1> QED
  BY <1>1, <1>2, PolicyInvariants, StepSecondLook, PTL DEF Spec, NoStepIsInVain
=============================================================================
