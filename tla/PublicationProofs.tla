-------------------------- MODULE PublicationProofs --------------------------
(***************************************************************************)
(* Theorems about Publication, for any number of sessions, runs, pages,    *)
(* views, crashes and failed writes.                                       *)
(***************************************************************************)
EXTENDS Publication, TLAPS

USE DEF At, Goto, Stop

LEMMA NamesType ==
  ASSUME NEW c \in Content
  PROVE  Names(c) \in SUBSET Urls
  BY DEF Names, Content, Entry

LEMMA MergeType ==
  ASSUME NEW c \in Content, NEW found \in SUBSET Urls, NEW r \in Runs
  PROVE  Merge(c, found, r) \in Content
  BY PublicationAssumption DEF Merge, Content, Entry

LEMMA LiveType == ASSUME TypeOK PROVE Live \in Content
  BY DEF TypeOK, Live, Content

LEMMA NoRevisionType == NoRevision \in Revision
  BY DEF NoRevision, Revision, Content

LEMMA InitTypeOK == Init => TypeOK
<1> SUFFICES ASSUME Init PROVE TypeOK
  OBVIOUS
<1>1. {<<u, NoRun>> : u \in SeedUrls} \in Content
  BY PublicationAssumption DEF Content, Entry
<1>2. SeedUrls \in SUBSET Urls
  BY PublicationAssumption
<1> QED
  BY <1>1, <1>2, NoRevisionType DEF Init, TypeOK, PCs, StagedFiles

LEMMA StepTypeOK == TypeOK /\ [Next]_vars => TypeOK'
<1> SUFFICES ASSUME TypeOK, [Next]_vars PROVE TypeOK'
  OBVIOUS
<1> USE PublicationAssumption
    DEF TypeOK, master, runDocs, staging, decided, session, bounds, PCs,
        PhaseAWrites, PhaseBWrites, RollForwardWrites, Recorded
<1>1. ASSUME NEW r \in Runs, CreateManifest(r) PROVE TypeOK'
  BY <1>1 DEF CreateManifest
<1>2. CASE CreateRunState
  BY <1>2 DEF CreateRunState
<1>3. CASE CompleteSteps
  BY <1>3 DEF CompleteSteps
<1>4. CASE EndBeforeVerify
  BY <1>4, NoRevisionType DEF EndBeforeVerify
<1>5. ASSUME NEW s \in Sessions, ResumeRun(s) PROVE TypeOK'
  BY <1>5 DEF ResumeRun
<1>6. ASSUME NEW s \in Sessions, ManualStep4(s) PROVE TypeOK'
  BY <1>6 DEF ManualStep4
<1>7. CASE RecoverNothing
  BY <1>7 DEF RecoverNothing
<1>9. CASE RecoverCommitted
  BY <1>9 DEF RecoverCommitted
<1>10. CASE VerifyWithoutSteps
  BY <1>10 DEF VerifyWithoutSteps
<1>11. CASE VerifySome
  BY <1>11 DEF VerifySome
<1>12. CASE VerifyIncomplete
  BY <1>12, NoRevisionType DEF VerifyIncomplete
<1>13. ASSUME NEW found \in Findings, VerifyComplete(found) PROVE TypeOK'
  BY <1>13 DEF VerifyComplete
<1>14. CASE VerifyAgain
  BY <1>14 DEF VerifyAgain
<1>15. CASE PhaseAReuse
  BY <1>15 DEF PhaseAReuse
<1>17. CASE PhaseACancel
  BY <1>17 DEF PhaseACancel
<1>18. CASE StartPreparing
  BY <1>18 DEF StartPreparing
<1>19. CASE RecordArtifact
  BY <1>19 DEF RecordArtifact
<1>20. CASE StageJson
  <2>1. cur \in Runs /\ Merge(Live, blocked[cur], cur) \in Content
    BY <1>20, LiveType, MergeType DEF StageJson
  <2>2. mem' \in Revision /\ mem'.json \in Content
    BY <1>20, <2>1 DEF StageJson, Revision
  <2>3. staged' \in [Runs -> StagedFiles]
    <3>1. staged[cur] \in StagedFiles
      BY <2>1
    <3>2. [staged[cur] EXCEPT !.json = mem'.json] \in StagedFiles
      BY <2>2, <3>1 DEF StagedFiles
    <3>3. staged' = [staged EXCEPT ![cur] = [staged[cur] EXCEPT !.json = mem'.json]]
      BY <1>20 DEF StageJson
    <3> QED
      BY <2>1, <3>2, <3>3
  <2> QED
    BY <1>20, <2>2, <2>3 DEF StageJson
<1>21. CASE StageTxt
  <2>1. cur \in Runs /\ Names(mem.json) \in SUBSET Urls
    BY <1>21, NamesType DEF StageTxt, Revision
  <2>2. staged' \in [Runs -> StagedFiles]
    <3>1. staged[cur] \in StagedFiles
      BY <2>1
    <3>2. [staged[cur] EXCEPT !.txt = Names(mem.json)] \in StagedFiles
      BY <2>1, <3>1 DEF StagedFiles
    <3>3. staged' = [staged EXCEPT ![cur] = [staged[cur] EXCEPT !.txt = Names(mem.json)]]
      BY <1>21 DEF StageTxt
    <3> QED
      BY <2>1, <3>2, <3>3
  <2> QED
    BY <1>21, <2>2 DEF StageTxt
<1>22. CASE StageMeta
  <2>1. cur \in Runs /\ mem.rev \in Nat
    BY <1>22 DEF StageMeta, Revision
  <2>2. staged' \in [Runs -> StagedFiles]
    <3>1. staged[cur] \in StagedFiles
      BY <2>1
    <3>2. [staged[cur] EXCEPT !.meta = mem.rev] \in StagedFiles
      BY <2>1, <3>1 DEF StagedFiles
    <3>3. staged' = [staged EXCEPT ![cur] = [staged[cur] EXCEPT !.meta = mem.rev]]
      BY <1>22 DEF StageMeta
    <3> QED
      BY <2>1, <3>2, <3>3
  <2> QED
    BY <1>22, <2>2 DEF StageMeta
<1>23. CASE WriteJournal
  BY <1>23 DEF WriteJournal
<1>24. CASE SetPrepared
  BY <1>24 DEF SetPrepared
<1>25. CASE ShadowSuccess
  BY <1>25, NoRevisionType DEF ShadowSuccess
<1>26. CASE BoundaryCancel
  BY <1>26 DEF BoundaryCancel
<1>27. CASE RejectStale
  BY <1>27 DEF RejectStale
<1>28. CASE WriteWitness
  BY <1>28 DEF WriteWitness, Revision
<1>29. CASE SetCommitted
  BY <1>29 DEF SetCommitted
<1>30. CASE SetCommittedRejected
  BY <1>30 DEF SetCommittedRejected
<1>31. CASE SetPointer
  BY <1>31 DEF SetPointer
<1>32. CASE ReconcilePointer
  BY <1>32 DEF ReconcilePointer
<1>33. CASE CommitUnneeded
  BY <1>33 DEF CommitUnneeded
<1>34. CASE CommitRefused
  BY <1>34 DEF CommitRefused
<1>35. CASE BackupMaster
  BY <1>35 DEF BackupMaster, Backup
<1>36. CASE WriteLiveJson
  BY <1>36 DEF WriteLiveJson, StagedFiles
<1>37. CASE WriteLiveTxt
  BY <1>37 DEF WriteLiveTxt, StagedFiles
<1>38. CASE WriteLiveMeta
  BY <1>38 DEF WriteLiveMeta, StagedFiles
<1>39. CASE SetProjecting
  BY <1>39 DEF SetProjecting, Advance
<1>40. ASSUME NEW v \in Views, Project(v) PROVE TypeOK'
  BY <1>40 DEF Project
<1>41. CASE SealCheckpoint
  BY <1>41 DEF SealCheckpoint, Revision
<1>42. CASE SetProjected
  BY <1>42 DEF SetProjected, Advance
<1>44. CASE ClearRecovery
  BY <1>44 DEF ClearRecovery
<1>45. CASE RecordOutcome
  <2>1. Recorded[pc] \in {"succeeded", "failed", "new_generation", "cancelled"}
    BY <1>45 DEF RecordOutcome
  <2>2. verify' \in [Runs -> {"none", "succeeded", "failed", "new_generation",
                             "cancelled", "incomplete"}]
    BY <1>45, <2>1 DEF RecordOutcome
  <2> QED
    BY <1>45, <2>2, NoRevisionType DEF RecordOutcome
<1>46. CASE RequireRecovery
  BY <1>46 DEF RequireRecovery
<1>47. CASE WriteFails
  <2>1. faults' \in Nat
    BY <1>47 DEF WriteFails
  <2>2. PICK h \in Handlers : IF h = "abandon" THEN Stop
                             ELSE Goto(h) /\ UNCHANGED <<cur, mem, via, shadow>>
    BY <1>47 DEF WriteFails
  <2>3. pc # "idle" /\ h \in {"abandon", "record_failed", "require_recovery"}
    BY <1>47, <2>2 DEF WriteFails, Handlers
  <2>4. UNCHANGED <<master, runDocs, staging, decided, session, crashes>>
    BY <1>47 DEF WriteFails
  <2>5. CASE h = "abandon"
    BY <2>1, <2>2, <2>4, <2>5, NoRevisionType
  <2>6. CASE h # "abandon"
    BY <2>1, <2>2, <2>3, <2>4, <2>6
  <2> QED
    BY <2>5, <2>6
<1>48. CASE Crash
  <2>1. crashes' \in Nat
    BY <1>48 DEF Crash
  <2>2. UNCHANGED <<master, runDocs, staging, decided, session, faults>> /\ Stop
    BY <1>48 DEF Crash
  <2> QED
    BY <2>1, <2>2, NoRevisionType
<1>49. ASSUME NEW s \in Sessions, NEW v \in Views, LoseView(s, v) PROVE TypeOK'
  BY <1>49 DEF LoseView
<1>50. ASSUME NEW r \in Runs, LoseJournal(r) PROVE TypeOK'
  BY <1>50, NoRevisionType DEF LoseJournal
<1>51. CASE UNCHANGED vars
  BY <1>51 DEF vars
<1> QED
  BY <1>1, <1>2, <1>3, <1>4, <1>5, <1>6, <1>7, <1>9, <1>10, <1>11, <1>12, <1>13, <1>14,
     <1>15, <1>17, <1>18, <1>19, <1>20, <1>21, <1>22, <1>23, <1>24, <1>25, <1>26, <1>27,
     <1>28, <1>29, <1>30, <1>31, <1>32, <1>33, <1>34, <1>35, <1>36, <1>37, <1>38, <1>39,
     <1>40, <1>41, <1>42, <1>44, <1>45, <1>46, <1>47, <1>48, <1>49, <1>50, <1>51
     DEF Next, PickRun, Prepare, PhaseA, PhaseB, RollForward, Finish, Environment

\* Every file and the process keep their types, whatever fails.
THEOREM Typing == Spec => []TypeOK
<1> QED
  BY InitTypeOK, StepTypeOK, PTL DEF Spec
-----------------------------------------------------------------------------
(* Nothing shows before the witness.  The property is not inductive: it     *)
(* needs to know that the process only gets past the boundary with the     *)
(* witness on disk, and that staged files hold entries of other runs only  *)
(* once these are decided.                                                 *)

Staging == {"artifacts", "stage_txt", "stage_meta", "write_journal", "set_prepared"}
RollingForward == RollForwardWrites \cup {"verify_after", "record_success"}
Deciding == {"set_committed", "set_pointer"}

\* Past the boundary the current run has its witness.
DecisionIsDurable ==
  pc \in Deciding \cup RollingForward \cup {"require_recovery"} => witness[cur] # 0

\* A run the process or a session can name has a manifest.
RunsAreCreated ==
  /\ pc # "idle" => pub[cur] # "absent"
  /\ \A s \in Sessions : active[s] # NoRun => pub[active[s]] # "absent"

\* What is staged for a run was added by it, by the seed or by decided runs.
StagedIsOwnOrDecided ==
  \A r \in Runs : staged[r].json # NoFile =>
    \A e \in staged[r].json : e[2] = r \/ e[2] = NoRun \/ witness[e[2]] # 0

\* The revision that reaches the boundary is a real one.
RevisionIsNumbered ==
  pc \in (Staging \ {"artifacts"}) \cup {"boundary"} => mem.rev # 0

VisibleInv == /\ NothingVisibleBeforeWitness /\ DecisionIsDurable /\ RunsAreCreated
              /\ StagedIsOwnOrDecided /\ RevisionIsNumbered
LEMMA InitVisibleInv == Init => VisibleInv
  BY PublicationAssumption
  DEF Init, VisibleInv, NothingVisibleBeforeWitness, DecisionIsDurable,
      RunsAreCreated, StagedIsOwnOrDecided, RevisionIsNumbered, Live, Rank,
      Deciding, RollingForward, RollForwardWrites, Staging

\* A failed write changes no file, and what handles it calls for recovery only
\* of a run that has its witness.
LEMMA FailedWrite ==
  ASSUME TypeOK, DecisionIsDurable, WriteFails
  PROVE  /\ UNCHANGED <<master, runDocs, staging, decided, session>>
         /\ \/ Stop
            \/ /\ pc # "idle" /\ pc' \in {"record_failed", "require_recovery"}
               /\ pc' = "require_recovery" => witness[cur] # 0
               /\ UNCHANGED <<cur, mem, via, shadow>>
<1>1. PICK h \in Handlers : IF h = "abandon" THEN Stop
                           ELSE Goto(h) /\ UNCHANGED <<cur, mem, via, shadow>>
  BY DEF WriteFails
<1>2. h \in {"abandon", "record_failed", "require_recovery"}
  BY <1>1 DEF Handlers, WriteFails
<1>3. h = "require_recovery" => witness[cur] # 0
  BY <1>1 DEF Handlers, DecisionIsDurable, Deciding, RollingForward,
              PhaseAWrites, PhaseBWrites, RollForwardWrites
<1> QED
  BY <1>1, <1>2, <1>3 DEF WriteFails

LEMMA StepVisibleInv == TypeOK /\ VisibleInv /\ [Next]_vars => VisibleInv'
<1> SUFFICES ASSUME TypeOK, VisibleInv, [Next]_vars PROVE VisibleInv'
  OBVIOUS
<1> USE PublicationAssumption
    DEF VisibleInv, NothingVisibleBeforeWitness, DecisionIsDurable,
        RunsAreCreated, StagedIsOwnOrDecided, RevisionIsNumbered, Live, Rank,
        Deciding, RollingForward, RollForwardWrites, Staging, TypeOK,
        master, runDocs, staging, decided, session, bounds
<1>1. ASSUME NEW r \in Runs, CreateManifest(r) PROVE VisibleInv'
  BY <1>1 DEF CreateManifest
<1>2. CASE CreateRunState
  BY <1>2 DEF CreateRunState
<1>3. CASE CompleteSteps
  BY <1>3 DEF CompleteSteps
<1>4. CASE EndBeforeVerify
  BY <1>4 DEF EndBeforeVerify
<1>5. ASSUME NEW s \in Sessions, ResumeRun(s) PROVE VisibleInv'
  BY <1>5 DEF ResumeRun
<1>6. ASSUME NEW s \in Sessions, ManualStep4(s) PROVE VisibleInv'
  BY <1>6 DEF ManualStep4
<1>7. CASE RecoverNothing
  BY <1>7 DEF RecoverNothing
<1>9. CASE RecoverCommitted
  BY <1>9 DEF RecoverCommitted, NothingToRecover
<1>10. CASE VerifyWithoutSteps
  BY <1>10 DEF VerifyWithoutSteps
<1>11. CASE VerifySome
  BY <1>11 DEF VerifySome
<1>12. CASE VerifyIncomplete
  BY <1>12 DEF VerifyIncomplete
<1>13. ASSUME NEW found \in Findings, VerifyComplete(found) PROVE VisibleInv'
  BY <1>13 DEF VerifyComplete
<1>14. CASE VerifyAgain
  BY <1>14 DEF VerifyAgain
<1>15. CASE PhaseAReuse
  BY <1>15 DEF PhaseAReuse, Reusable, Readable
<1>17. CASE PhaseACancel
  BY <1>17 DEF PhaseACancel
<1>18. CASE StartPreparing
  BY <1>18 DEF StartPreparing
<1>19. CASE RecordArtifact
  BY <1>19 DEF RecordArtifact
<1>20. CASE StageJson
  <2>1. cur \in Runs /\ stagings[cur] \in Nat
    BY <1>20 DEF StageJson
  <2>2. mem'.rev = stagings[cur] + 1 /\ mem'.json = Merge(Live, blocked[cur], cur)
    BY <1>20 DEF StageJson
  <2>3. staged' = [staged EXCEPT ![cur].json = mem'.json]
    BY <1>20 DEF StageJson
  <2>4. staged'[cur].json = Merge(Live, blocked[cur], cur)
        /\ \A r \in Runs \ {cur} : staged'[r] = staged[r]
    BY <2>1, <2>2, <2>3 DEF StagedFiles
  <2>5. \A e \in Merge(Live, blocked[cur], cur) : e \in Live \/ e[2] = cur
    BY DEF Merge
  <2>6. \A e \in Live : e[2] = NoRun \/ (e[2] \in Runs /\ witness[e[2]] # 0)
    BY LiveType DEF Content, Entry
  <2>7. UNCHANGED <<witness, pub, active, cur, sealed, recovery, json, pointer, roots>>
        /\ pc' = "stage_txt" /\ pc = "artifacts"
    BY <1>20 DEF StageJson
  <2>8. StagedIsOwnOrDecided'
    BY <2>4, <2>5, <2>6, <2>7
  <2> QED
    BY <2>1, <2>2, <2>7, <2>8
<1>21. CASE StageTxt
  BY <1>21 DEF StageTxt
<1>22. CASE StageMeta
  BY <1>22 DEF StageMeta
<1>23. CASE WriteJournal
  BY <1>23 DEF WriteJournal
<1>24. CASE SetPrepared
  BY <1>24 DEF SetPrepared
<1>25. CASE ShadowSuccess
  BY <1>25 DEF ShadowSuccess
<1>26. CASE BoundaryCancel
  BY <1>26 DEF BoundaryCancel
<1>27. CASE RejectStale
  BY <1>27 DEF RejectStale
<1>28. CASE WriteWitness
  BY <1>28 DEF WriteWitness
<1>29. CASE SetCommitted
  BY <1>29 DEF SetCommitted
<1>30. CASE SetCommittedRejected
  BY <1>30 DEF SetCommittedRejected
<1>31. CASE SetPointer
  BY <1>31 DEF SetPointer
<1>32. CASE ReconcilePointer
  BY <1>32 DEF ReconcilePointer
<1>33. CASE CommitUnneeded
  BY <1>33 DEF CommitUnneeded
<1>34. CASE CommitRefused
  BY <1>34 DEF CommitRefused
<1>35. CASE BackupMaster
  BY <1>35 DEF BackupMaster
<1>36. CASE WriteLiveJson
  <2>1. pc = "live_json" /\ cur \in Runs /\ witness[cur] # 0 /\ json' = staged[cur].json
    BY <1>36 DEF WriteLiveJson
  <2>2. UNCHANGED <<witness, staged, pub, active, cur, sealed, recovery, pointer,
                    roots, mem>> /\ pc' = "live_txt"
    BY <1>36 DEF WriteLiveJson
  <2>3. ASSUME NEW r \in Runs, witness[r] = 0, NEW e \in Live' PROVE e[2] # r
    <3>1. staged[cur].json # NoFile /\ e \in staged[cur].json
      BY <2>1, <2>3 DEF Live
    <3>2. e[2] = cur \/ e[2] = NoRun \/ witness[e[2]] # 0
      BY <2>1, <3>1 DEF StagedIsOwnOrDecided
    <3> QED
      BY <2>1, <2>3, <3>2
  <2>4. \A r \in Runs : witness'[r] = 0 => \A e \in Live' : e[2] # r
    BY <2>2, <2>3
  <2>5. NothingVisibleBeforeWitness'
    BY <2>2, <2>4 DEF NothingVisibleBeforeWitness
  <2>6. StagedIsOwnOrDecided' /\ RunsAreCreated'
    BY <2>1, <2>2
  <2>7. DecisionIsDurable' /\ RevisionIsNumbered'
    BY <2>1, <2>2
  <2> QED
    BY <2>5, <2>6, <2>7 DEF VisibleInv
<1>37. CASE WriteLiveTxt
  BY <1>37 DEF WriteLiveTxt
<1>38. CASE WriteLiveMeta
  BY <1>38 DEF WriteLiveMeta
<1>39. CASE SetProjecting
  BY <1>39 DEF SetProjecting, Advance
<1>40. ASSUME NEW v \in Views, Project(v) PROVE VisibleInv'
  BY <1>40 DEF Project
<1>41. CASE SealCheckpoint
  BY <1>41 DEF SealCheckpoint
<1>42. CASE SetProjected
  BY <1>42 DEF SetProjected, Advance
<1>44. CASE ClearRecovery
  BY <1>44 DEF ClearRecovery
<1>45. CASE RecordOutcome
  BY <1>45 DEF RecordOutcome
<1>46. CASE RequireRecovery
  BY <1>46 DEF RequireRecovery
<1>47. CASE WriteFails
  <2>1. UNCHANGED <<master, runDocs, staging, decided, session>>
    BY <1>47, FailedWrite
  <2>2. Stop \/ /\ pc # "idle" /\ pc' \in {"record_failed", "require_recovery"}
                /\ pc' = "require_recovery" => witness[cur] # 0
                /\ UNCHANGED <<cur, mem>>
    BY <1>47, FailedWrite
  <2>3. CASE Stop
    BY <2>1, <2>3
  <2>4. CASE ~Stop
    BY <2>1, <2>2, <2>4
  <2> QED
    BY <2>3, <2>4
<1>48. CASE Crash
  BY <1>48 DEF Crash
<1>49. ASSUME NEW s \in Sessions, NEW v \in Views, LoseView(s, v) PROVE VisibleInv'
  BY <1>49 DEF LoseView
<1>50. ASSUME NEW r \in Runs, LoseJournal(r) PROVE VisibleInv'
  BY <1>50 DEF LoseJournal
<1>51. CASE UNCHANGED vars
  BY <1>51 DEF vars
<1> QED
  BY <1>1, <1>2, <1>3, <1>4, <1>5, <1>6, <1>7, <1>9, <1>10, <1>11, <1>12,
     <1>13, <1>14, <1>15, <1>17, <1>18, <1>19, <1>20, <1>21, <1>22, <1>23, <1>24,
     <1>25, <1>26, <1>27, <1>28, <1>29, <1>30, <1>31, <1>32, <1>33, <1>34, <1>35, <1>36,
     <1>37, <1>38, <1>39, <1>40, <1>41, <1>42, <1>44, <1>45, <1>46, <1>47, <1>48,
     <1>49, <1>50, <1>51
  DEF Next, PickRun, Prepare, PhaseA, PhaseB, RollForward, Finish, Environment
\* Whatever crashes or fails, nothing of a run shows in the master, the root
\* views or the session pointer before its commit witness is durable.
THEOREM WitnessComesFirst == Spec => []NothingVisibleBeforeWitness
<1>1. VisibleInv => NothingVisibleBeforeWitness
  BY DEF VisibleInv
<1> QED
  BY <1>1, Typing, InitVisibleInv, StepVisibleInv, PTL DEF Spec
-----------------------------------------------------------------------------
(* Committed staging is never rebuilt.  Inductive with: staging only       *)
(* happens before the witness, what the process holds in memory is what it *)
(* has staged so far, and the prepared state precedes the witness.         *)

Prepared(r) == Rank(pub[r]) >= Rank("prepared")
Holding == {"set_prepared", "boundary"} \cup Deciding \cup RollingForward

WitnessFollowsPrepared == \A r \in Runs : witness[r] # 0 => Prepared(r)
StagingPrecedesWitness == pc \in Staging => witness[cur] = 0
BoundaryIsPrepared == pc \in {"boundary"} \cup Deciding \cup RollingForward => Prepared(cur)

\* The files staged so far, in the order they are written, are those of mem.
MemoryIsStaged ==
  /\ pc \in (Staging \ {"artifacts"}) \cup {"boundary"} => staged[cur].json = mem.json
  /\ pc \in {"stage_meta", "write_journal", "set_prepared", "boundary"} =>
       staged[cur].txt = Names(mem.json)
  /\ pc \in {"write_journal", "set_prepared", "boundary"} => staged[cur].meta = mem.rev
  /\ pc \in Holding => mem = journal[cur]

StagingInv == /\ CommittedStagingIsKept /\ WitnessFollowsPrepared
              /\ StagingPrecedesWitness /\ BoundaryIsPrepared /\ MemoryIsStaged

LEMMA InitStagingInv == Init => StagingInv
  BY DEF Init, StagingInv, CommittedStagingIsKept, WitnessFollowsPrepared,
         StagingPrecedesWitness, BoundaryIsPrepared, MemoryIsStaged, Staging,
         Deciding, Holding, RollingForward, RollForwardWrites

LEMMA StepStagingInv == TypeOK /\ VisibleInv /\ StagingInv /\ [Next]_vars => StagingInv'
<1> SUFFICES ASSUME TypeOK, VisibleInv, StagingInv, [Next]_vars PROVE StagingInv'
  OBVIOUS
<1> USE DEF TypeOK, StagingInv, CommittedStagingIsKept, WitnessFollowsPrepared,
        StagingPrecedesWitness, BoundaryIsPrepared, MemoryIsStaged, Staging,
        Deciding, Holding, RollingForward, RollForwardWrites, Prepared, Rank, Valid,
        master, runDocs, staging, decided, session, bounds
<1>1. ASSUME NEW r \in Runs, CreateManifest(r) PROVE StagingInv'
  BY <1>1 DEF CreateManifest
<1>2. CASE CreateRunState
  BY <1>2 DEF CreateRunState
<1>3. CASE CompleteSteps
  BY <1>3 DEF CompleteSteps
<1>4. CASE EndBeforeVerify
  BY <1>4 DEF EndBeforeVerify
<1>5. ASSUME NEW s \in Sessions, ResumeRun(s) PROVE StagingInv'
  BY <1>5 DEF ResumeRun
<1>6. ASSUME NEW s \in Sessions, ManualStep4(s) PROVE StagingInv'
  BY <1>6 DEF ManualStep4
<1>7. CASE RecoverNothing
  BY <1>7 DEF RecoverNothing
<1>9. CASE RecoverCommitted
  BY <1>9 DEF RecoverCommitted, NothingToRecover, VisibleInv, RunsAreCreated
<1>10. CASE VerifyWithoutSteps
  BY <1>10 DEF VerifyWithoutSteps
<1>11. CASE VerifySome
  BY <1>11 DEF VerifySome
<1>12. CASE VerifyIncomplete
  BY <1>12 DEF VerifyIncomplete
<1>13. ASSUME NEW found \in Findings, VerifyComplete(found) PROVE StagingInv'
  BY <1>13 DEF VerifyComplete
<1>14. CASE VerifyAgain
  BY <1>14 DEF VerifyAgain
<1>15. CASE PhaseAReuse
  BY <1>15 DEF PhaseAReuse, Reusable, Readable
<1>17. CASE PhaseACancel
  BY <1>17 DEF PhaseACancel
<1>18. CASE StartPreparing
  BY <1>18 DEF StartPreparing, MayStage, Reusable
<1>19. CASE RecordArtifact
  BY <1>19 DEF RecordArtifact
<1>20. CASE StageJson
  BY <1>20 DEF StageJson
<1>21. CASE StageTxt
  BY <1>21 DEF StageTxt
<1>22. CASE StageMeta
  BY <1>22 DEF StageMeta
<1>23. CASE WriteJournal
  BY <1>23 DEF WriteJournal
<1>24. CASE SetPrepared
  BY <1>24 DEF SetPrepared
<1>25. CASE ShadowSuccess
  BY <1>25 DEF ShadowSuccess
<1>26. CASE BoundaryCancel
  BY <1>26 DEF BoundaryCancel
<1>27. CASE RejectStale
  BY <1>27 DEF RejectStale
<1>28. CASE WriteWitness
  <2>1. cur \in Runs /\ pc = "boundary" /\ mem = journal[cur] /\ mem \in Revision
    BY <1>28 DEF WriteWitness
  <2>2. Valid(cur, journal[cur])
    <3>1. staged[cur] \in StagedFiles
      BY <2>1
    <3> QED
      BY <2>1, <3>1 DEF StagedFiles
  <2>3. witness' = [witness EXCEPT ![cur] = journal[cur].rev] /\ pc' = "set_committed"
        /\ UNCHANGED <<staged, journal, pub, cur, mem>>
    BY <1>28, <2>1 DEF WriteWitness
  <2> QED
    BY <2>1, <2>2, <2>3
<1>29. CASE SetCommitted
  BY <1>29 DEF SetCommitted
<1>30. CASE SetCommittedRejected
  BY <1>30 DEF SetCommittedRejected
<1>31. CASE SetPointer
  BY <1>31 DEF SetPointer
<1>32. CASE ReconcilePointer
  BY <1>32 DEF ReconcilePointer
<1>33. CASE CommitUnneeded
  BY <1>33 DEF CommitUnneeded
<1>34. CASE CommitRefused
  BY <1>34 DEF CommitRefused
<1>35. CASE BackupMaster
  BY <1>35 DEF BackupMaster
<1>36. CASE WriteLiveJson
  BY <1>36 DEF WriteLiveJson
<1>37. CASE WriteLiveTxt
  BY <1>37 DEF WriteLiveTxt
<1>38. CASE WriteLiveMeta
  BY <1>38 DEF WriteLiveMeta
<1>39. CASE SetProjecting
  BY <1>39 DEF SetProjecting, Advance
<1>40. ASSUME NEW v \in Views, Project(v) PROVE StagingInv'
  BY <1>40 DEF Project
<1>41. CASE SealCheckpoint
  BY <1>41 DEF SealCheckpoint
<1>42. CASE SetProjected
  BY <1>42 DEF SetProjected, Advance
<1>44. CASE ClearRecovery
  BY <1>44 DEF ClearRecovery
<1>45. CASE RecordOutcome
  BY <1>45 DEF RecordOutcome
<1>46. CASE RequireRecovery
  BY <1>46 DEF RequireRecovery
<1>47. CASE WriteFails
  <2>1. UNCHANGED <<master, runDocs, staging, decided, session>>
    BY <1>47, FailedWrite DEF VisibleInv
  <2>2. Stop \/ (pc' \in {"record_failed", "require_recovery"} /\ UNCHANGED <<cur, mem>>)
    BY <1>47, FailedWrite DEF VisibleInv
  <2>3. CASE Stop
    BY <2>1, <2>3
  <2>4. CASE ~Stop
    BY <2>1, <2>2, <2>4
  <2> QED
    BY <2>3, <2>4
<1>48. CASE Crash
  BY <1>48 DEF Crash
<1>49. ASSUME NEW s \in Sessions,NEW v \in Views, LoseView(s, v) PROVE StagingInv'
  BY <1>49 DEF LoseView
<1>50. ASSUME NEW r \in Runs, LoseJournal(r) PROVE StagingInv'
  BY <1>50 DEF LoseJournal
<1>51. CASE UNCHANGED vars
  BY <1>51 DEF vars
<1> QED
  BY <1>1, <1>2, <1>3, <1>4, <1>5, <1>6, <1>7, <1>9, <1>10, <1>11, <1>12,
     <1>13, <1>14, <1>15, <1>17, <1>18, <1>19, <1>20, <1>21, <1>22, <1>23, <1>24,
     <1>25, <1>26, <1>27, <1>28, <1>29, <1>30, <1>31, <1>32, <1>33, <1>34, <1>35, <1>36,
     <1>37, <1>38, <1>39, <1>40, <1>41, <1>42, <1>44, <1>45, <1>46, <1>47, <1>48,
     <1>49, <1>50, <1>51
  DEF Next, PickRun, Prepare, PhaseA, PhaseB, RollForward, Finish, Environment

\* The revision a commit witness names stays staged, byte for byte, for good.
THEOREM StagingIsKept == Spec => []CommittedStagingIsKept
<1>1. StagingInv => CommittedStagingIsKept
  BY DEF StagingInv
<1> QED
  BY <1>1, Typing, InitVisibleInv, StepVisibleInv, InitStagingInv, StepStagingInv,
     PTL DEF Spec
-----------------------------------------------------------------------------
(* No entry is lost, as long as there is a live master to begin with: a    *)
(* staged revision is the union merge over the live entries it was staged  *)
(* from, and the live JSON is replaced only when it is still that base or  *)
(* already that revision.                                                  *)

\* A revision of run r is the merge of its base with what r found.
MergesItsBase(r, p) ==
  p.rev # 0 => /\ progress[r] = "complete"
               /\ Seeded => p.base # NoFile
               /\ p.json = Merge(IF p.base = NoFile THEN {} ELSE p.base, blocked[r], r)

\* Where the process prepares and where it publishes, its checkpoint is complete.
ChecksFirst ==
  /\ pc \in {"phase_a"} \cup Staging => progress[cur] = "complete"
  /\ pc \in {"create_run_state", "steps"} => progress[cur] = "snapshots"
  /\ \A r \in Runs : pub[r] = "absent" => progress[r] = "snapshots"

EntriesInv ==
  /\ Seeded => json # NoFile
  /\ \A r \in Runs : MergesItsBase(r, journal[r])
  /\ IF pc = "idle" THEN mem = NoRevision ELSE MergesItsBase(cur, mem)
  /\ pc = "live_json" => /\ staged[cur].json = mem.json
                         /\ json \in {NoFile, mem.json} \/ mem.base \in {NoFile, json}
  /\ ChecksFirst

LEMMA InitEntriesInv == Init => EntriesInv
  BY PublicationAssumption
  DEF Init, EntriesInv, MergesItsBase, ChecksFirst, NoRevision, Staging, Content, Entry

LEMMA StepEntriesInv ==
  TypeOK /\ VisibleInv /\ StagingInv /\ EntriesInv /\ [Next]_vars => EntriesInv'
<1> SUFFICES ASSUME TypeOK, VisibleInv, StagingInv, EntriesInv, [Next]_vars
             PROVE  EntriesInv'
  OBVIOUS
<1> USE DEF TypeOK, EntriesInv, MergesItsBase, ChecksFirst, Staging, NoRevision,
        master, runDocs, staging, decided, session, bounds
<1>1. ASSUME NEW r \in Runs, CreateManifest(r) PROVE EntriesInv'
  BY <1>1 DEF CreateManifest
<1>2. CASE CreateRunState
  BY <1>2 DEF CreateRunState
<1>3. CASE CompleteSteps
  BY <1>3 DEF CompleteSteps, VisibleInv, RunsAreCreated
<1>4. CASE EndBeforeVerify
  BY <1>4 DEF EndBeforeVerify
<1>5. ASSUME NEW s \in Sessions, ResumeRun(s) PROVE EntriesInv'
  BY <1>5 DEF ResumeRun
<1>6. ASSUME NEW s \in Sessions, ManualStep4(s) PROVE EntriesInv'
  BY <1>6 DEF ManualStep4
<1>7. CASE RecoverNothing
  BY <1>7 DEF RecoverNothing
<1>9. CASE RecoverCommitted
  BY <1>9 DEF RecoverCommitted
<1>10. CASE VerifyWithoutSteps
  BY <1>10 DEF VerifyWithoutSteps
<1>11. CASE VerifySome
  BY <1>11 DEF VerifySome
<1>12. CASE VerifyIncomplete
  BY <1>12 DEF VerifyIncomplete
<1>13. ASSUME NEW found \in Findings, VerifyComplete(found) PROVE EntriesInv'
  BY <1>13 DEF VerifyComplete
<1>14. CASE VerifyAgain
  BY <1>14 DEF VerifyAgain
<1>15. CASE PhaseAReuse
  BY <1>15 DEF PhaseAReuse
<1>17. CASE PhaseACancel
  BY <1>17 DEF PhaseACancel
<1>18. CASE StartPreparing
  BY <1>18 DEF StartPreparing
<1>19. CASE RecordArtifact
  BY <1>19 DEF RecordArtifact
<1>20. CASE StageJson
  <2>1. cur \in Runs /\ progress[cur] = "complete"
    BY <1>20 DEF StageJson
  <2>2. mem'.base = json /\ mem'.json = Merge(Live, blocked[cur], cur)
    BY <1>20 DEF StageJson
  <2>3. MergesItsBase(cur, mem)'
    BY <1>20, <2>1, <2>2 DEF StageJson, Live, Merge
  <2>4. UNCHANGED <<json, journal, progress, blocked, pub, cur>> /\ pc' = "stage_txt"
    BY <1>20 DEF StageJson
  <2> QED
    BY <2>1, <2>3, <2>4 DEF Merge
<1>21. CASE StageTxt
  BY <1>21 DEF StageTxt
<1>22. CASE StageMeta
  BY <1>22 DEF StageMeta
<1>23. CASE WriteJournal
  BY <1>23 DEF WriteJournal
<1>24. CASE SetPrepared
  BY <1>24 DEF SetPrepared
<1>25. CASE ShadowSuccess
  BY <1>25 DEF ShadowSuccess
<1>26. CASE BoundaryCancel
  BY <1>26 DEF BoundaryCancel
<1>27. CASE RejectStale
  BY <1>27 DEF RejectStale
<1>28. CASE WriteWitness
  BY <1>28 DEF WriteWitness
<1>29. CASE SetCommitted
  BY <1>29 DEF SetCommitted
<1>30. CASE SetCommittedRejected
  BY <1>30 DEF SetCommittedRejected
<1>31. CASE SetPointer
  BY <1>31 DEF SetPointer
<1>32. CASE ReconcilePointer
  BY <1>32 DEF ReconcilePointer
<1>33. CASE CommitUnneeded
  BY <1>33 DEF CommitUnneeded
<1>34. CASE CommitRefused
  BY <1>34 DEF CommitRefused
<1>35. CASE BackupMaster
  BY <1>35 DEF BackupMaster, Conflict, Valid, StagedFiles
<1>36. CASE WriteLiveJson
  <2>1. pc = "live_json" /\ staged[cur].json \in Content
    BY <1>36 DEF WriteLiveJson, Revision
  <2>2. json' # NoFile
    BY <1>36, <2>1, PublicationAssumption DEF WriteLiveJson
  <2> QED
    BY <1>36, <2>1, <2>2 DEF WriteLiveJson
<1>37. CASE WriteLiveTxt
  BY <1>37 DEF WriteLiveTxt
<1>38. CASE WriteLiveMeta
  BY <1>38 DEF WriteLiveMeta
<1>39. CASE SetProjecting
  BY <1>39 DEF SetProjecting, Advance, Rank
<1>40. ASSUME NEW v \in Views, Project(v) PROVE EntriesInv'
  BY <1>40 DEF Project
<1>41. CASE SealCheckpoint
  BY <1>41 DEF SealCheckpoint
<1>42. CASE SetProjected
  BY <1>42 DEF SetProjected, Advance, Rank
<1>44. CASE ClearRecovery
  BY <1>44 DEF ClearRecovery
<1>45. CASE RecordOutcome
  BY <1>45 DEF RecordOutcome
<1>46. CASE RequireRecovery
  BY <1>46 DEF RequireRecovery
<1>47. CASE WriteFails
  <2>1. UNCHANGED <<master, runDocs, staging, decided, session>>
    BY <1>47, FailedWrite DEF VisibleInv
  <2>2. Stop \/ (pc # "idle" /\ pc' \in {"record_failed", "require_recovery"}
                 /\ UNCHANGED <<cur, mem>>)
    BY <1>47, FailedWrite DEF VisibleInv
  <2>3. CASE Stop
    BY <2>1, <2>3
  <2>4. CASE ~Stop
    BY <2>1, <2>2, <2>4
  <2> QED
    BY <2>3, <2>4
<1>48. CASE Crash
  BY <1>48 DEF Crash
<1>49. ASSUME NEW s \in Sessions,NEW v \in Views, LoseView(s, v) PROVE EntriesInv'
  BY <1>49 DEF LoseView
<1>50. ASSUME NEW r \in Runs, LoseJournal(r) PROVE EntriesInv'
  BY <1>50 DEF LoseJournal
<1>51. CASE UNCHANGED vars
  BY <1>51 DEF vars
<1> QED
  BY <1>1, <1>2, <1>3, <1>4, <1>5, <1>6, <1>7, <1>9, <1>10, <1>11, <1>12,
     <1>13, <1>14, <1>15, <1>17, <1>18, <1>19, <1>20, <1>21, <1>22, <1>23, <1>24,
     <1>25, <1>26, <1>27, <1>28, <1>29, <1>30, <1>31, <1>32, <1>33, <1>34, <1>35, <1>36,
     <1>37, <1>38, <1>39, <1>40, <1>41, <1>42, <1>44, <1>45, <1>46, <1>47, <1>48,
     <1>49, <1>50, <1>51
  DEF Next, PickRun, Prepare, PhaseA, PhaseB, RollForward, Finish, Environment
\* The steps the master list can notice; every other one leaves the live JSON,
\* the witnesses, the states and the findings alone.
Noticed == \/ CompleteSteps \/ VerifySome \/ StartPreparing \/ SetPrepared
           \/ WriteWitness \/ SetCommitted \/ WriteLiveJson \/ SetProjecting
           \/ SetProjected \/ (\E r \in Runs : CreateManifest(r))
           \/ (\E found \in Findings : VerifyComplete(found))

LEMMA Frame ==
  ASSUME [Next]_vars
  PROVE  Noticed \/ UNCHANGED <<json, witness, pub, progress, blocked>>
BY DEF Noticed, Next, PickRun, Prepare, PhaseA, PhaseB, RollForward, Finish,
      Environment, vars, master, runDocs, staging, decided, session, bounds,
      CreateRunState, EndBeforeVerify, ResumeRun, ManualStep4, RecoverNothing,
      RecoverCommitted, VerifyWithoutSteps,
      VerifyIncomplete, VerifyAgain, PhaseAReuse, PhaseACancel,
      RecordArtifact, StageJson, StageTxt, StageMeta, WriteJournal,
      ShadowSuccess, BoundaryCancel, RejectStale, SetCommittedRejected,
      SetPointer, ReconcilePointer, CommitUnneeded, CommitRefused,
      BackupMaster, WriteLiveTxt, WriteLiveMeta, Project, SealCheckpoint,
      ClearRecovery, RecordOutcome, RequireRecovery,
      WriteFails, Crash, LoseView, LoseJournal

Wanted(r) == (blocked[r] \cup Manual) \ Blacklist

\* The merge adds the names wanted, and only them.
LEMMA MergeNames ==
  ASSUME NEW c \in Content, NEW found, NEW r
  PROVE  /\ c \subseteq Merge(c, found, r)
         /\ Names(Merge(c, found, r)) = Names(c) \cup ((found \cup Manual) \ Blacklist)
<1> DEFINE added == (found \cup Manual) \ (Blacklist \cup Names(c))
           new == {<<u, r>> : u \in added}
<1>1. Merge(c, found, r) = c \cup new
  BY DEF Merge
<1>2. {e[1] : e \in new} = added
  <2>1. \A u \in added : <<u, r>> \in new /\ <<u, r>>[1] = u
    OBVIOUS
  <2>2. \A e \in new : e[1] \in added
    OBVIOUS
  <2> HIDE DEF new, added
  <2> QED
    BY <2>1, <2>2
<1>3. {e[1] : e \in c \cup new} = {e[1] : e \in c} \cup {e[1] : e \in new}
  OBVIOUS
<1> QED
  BY <1>1, <1>2, <1>3 DEF Names

\* While it rolls forward, the process holds a merge of what the run wants.
LEMMA HoldsTheMerge ==
  ASSUME Seeded, TypeOK, VisibleInv, StagingInv, EntriesInv, pc \in RollingForward
  PROVE  /\ cur \in Runs /\ witness[cur] # 0 /\ progress[cur] = "complete"
         /\ mem.base \in Content /\ mem.json = Merge(mem.base, blocked[cur], cur)
         /\ mem.json \in Content /\ mem.json # NoFile
         /\ Names(mem.json) = Names(mem.base) \cup Wanted(cur)
<1>1. cur \in Runs /\ mem = journal[cur] /\ mem \in Revision /\ pc # "idle"
  BY DEF TypeOK, StagingInv, MemoryIsStaged, Holding, RollingForward, RollForwardWrites
<1>2. witness[cur] # 0 /\ mem.rev # 0
  BY <1>1 DEF VisibleInv, DecisionIsDurable, StagingInv, CommittedStagingIsKept
<1>3. /\ mem.base \in Content /\ mem.json = Merge(mem.base, blocked[cur], cur)
      /\ progress[cur] = "complete"
  BY <1>1, <1>2 DEF EntriesInv, MergesItsBase, Revision
<1>4. mem.json \in Content /\ mem.json # NoFile
  BY <1>1, PublicationAssumption DEF Revision
<1> QED
  BY <1>1, <1>2, <1>3, <1>4, MergeNames DEF Wanted

\* What the one write of the live JSON does to it.
LEMMA LiveWritten ==
  ASSUME Seeded, TypeOK, VisibleInv, StagingInv, EntriesInv, WriteLiveJson
  PROVE  /\ json # NoFile /\ json' # NoFile /\ json \subseteq json'
         /\ Names(json') = Names(json) \cup Wanted(cur)
         /\ cur \in Runs /\ witness[cur] # 0 /\ progress[cur] = "complete"
<1>1. /\ pc = "live_json" /\ json # NoFile /\ staged[cur].json = mem.json
      /\ json \in {NoFile, mem.json} \/ mem.base \in {NoFile, json}
      /\ json' = mem.json
  BY DEF WriteLiveJson, EntriesInv
<1>2. mem.base \in Content /\ mem.json = Merge(mem.base, blocked[cur], cur)
      /\ cur \in Runs /\ witness[cur] # 0 /\ progress[cur] = "complete"
      /\ mem.json # NoFile /\ Names(mem.json) = Names(mem.base) \cup Wanted(cur)
  BY <1>1, HoldsTheMerge DEF RollingForward, RollForwardWrites
<1>3. json = mem.json \/ json = mem.base
  BY <1>1, <1>2, PublicationAssumption
<1>4. mem.base \subseteq mem.json
  BY <1>2, MergeNames
<1> QED
  BY <1>1, <1>2, <1>3, <1>4

LEMMA StepNoEntryIsLost ==
  ASSUME Seeded, TypeOK, VisibleInv, StagingInv, EntriesInv, [Next]_vars
  PROVE  Live \subseteq Live'
<1>1. CASE WriteLiveJson
  BY <1>1, LiveWritten DEF Live
<1>2. CASE ~WriteLiveJson
  <2>1. json' = json
    BY <1>2, Frame DEF Noticed, master, CompleteSteps, VerifySome, StartPreparing,
       SetPrepared, WriteWitness, SetCommitted, SetProjecting, SetProjected,
       CreateManifest, VerifyComplete
  <2> QED
    BY <2>1 DEF Live
<1> QED
  BY <1>1, <1>2

\* With a live master to begin with, no publication, retry, crash or other
\* session ever takes an entry out of the list.
THEOREM EntriesAreKept == ASSUME Seeded PROVE Spec => NoEntryIsLost
<1>1. ASSUME TypeOK, VisibleInv, StagingInv, EntriesInv, [Next]_vars
      PROVE  [Live \subseteq Live']_vars
  BY <1>1, StepNoEntryIsLost
<1> QED
  BY <1>1, Typing, InitVisibleInv, StepVisibleInv, InitStagingInv, StepStagingInv,
     InitEntriesInv, StepEntriesInv, PTL DEF Spec, NoEntryIsLost
-----------------------------------------------------------------------------
(* Published names stay, and the files implement the ledger.               *)

PublishedInv ==
  /\ pc \in {"live_txt", "live_meta", "projecting", "project", "set_projected"} =>
       Wanted(cur) \subseteq Names(Live)
  /\ \A r \in Runs : Rank(pub[r]) >= Rank("projecting") =>
       progress[r] = "complete" /\ Wanted(r) \subseteq Names(Live)

LEMMA InitPublishedInv == Init => PublishedInv
  BY DEF Init, PublishedInv, Rank

\* The names on the list only grow.
LEMMA NamesGrow ==
  ASSUME Seeded, TypeOK, VisibleInv, StagingInv, EntriesInv, [Next]_vars
  PROVE  Names(Live) \subseteq Names(Live')
  BY StepNoEntryIsLost DEF Names

LEMMA StepPublishedInv ==
  ASSUME Seeded, TypeOK, VisibleInv, StagingInv, EntriesInv, PublishedInv, [Next]_vars
  PROVE  PublishedInv'
<1> USE NamesGrow
    DEF PublishedInv, Wanted, TypeOK, Rank,
        master, runDocs, staging, decided, session, bounds
<1>1. ASSUME NEW r \in Runs, CreateManifest(r) PROVE PublishedInv'
  BY <1>1 DEF CreateManifest
<1>2. CASE CreateRunState
  BY <1>2 DEF CreateRunState
<1>3. CASE CompleteSteps
  BY <1>3 DEF CompleteSteps, EntriesInv, ChecksFirst
<1>4. CASE EndBeforeVerify
  BY <1>4 DEF EndBeforeVerify
<1>5. ASSUME NEW s \in Sessions, ResumeRun(s) PROVE PublishedInv'
  BY <1>5 DEF ResumeRun
<1>6. ASSUME NEW s \in Sessions, ManualStep4(s) PROVE PublishedInv'
  BY <1>6 DEF ManualStep4
<1>7. CASE RecoverNothing
  BY <1>7 DEF RecoverNothing
<1>9. CASE RecoverCommitted
  BY <1>9 DEF RecoverCommitted
<1>10. CASE VerifyWithoutSteps
  BY <1>10 DEF VerifyWithoutSteps
<1>11. CASE VerifySome
  BY <1>11 DEF VerifySome
<1>12. CASE VerifyIncomplete
  BY <1>12 DEF VerifyIncomplete
<1>13. ASSUME NEW found \in Findings, VerifyComplete(found) PROVE PublishedInv'
  BY <1>13 DEF VerifyComplete
<1>14. CASE VerifyAgain
  BY <1>14 DEF VerifyAgain
<1>15. CASE PhaseAReuse
  BY <1>15 DEF PhaseAReuse
<1>17. CASE PhaseACancel
  BY <1>17 DEF PhaseACancel
<1>18. CASE StartPreparing
  BY <1>18 DEF StartPreparing
<1>19. CASE RecordArtifact
  BY <1>19 DEF RecordArtifact
<1>20. CASE StageJson
  BY <1>20 DEF StageJson
<1>21. CASE StageTxt
  BY <1>21 DEF StageTxt
<1>22. CASE StageMeta
  BY <1>22 DEF StageMeta
<1>23. CASE WriteJournal
  BY <1>23 DEF WriteJournal
<1>24. CASE SetPrepared
  BY <1>24 DEF SetPrepared
<1>25. CASE ShadowSuccess
  BY <1>25 DEF ShadowSuccess
<1>26. CASE BoundaryCancel
  BY <1>26 DEF BoundaryCancel
<1>27. CASE RejectStale
  BY <1>27 DEF RejectStale
<1>28. CASE WriteWitness
  BY <1>28 DEF WriteWitness
<1>29. CASE SetCommitted
  BY <1>29 DEF SetCommitted
<1>30. CASE SetCommittedRejected
  BY <1>30 DEF SetCommittedRejected
<1>31. CASE SetPointer
  BY <1>31 DEF SetPointer
<1>32. CASE ReconcilePointer
  BY <1>32 DEF ReconcilePointer
<1>33. CASE CommitUnneeded
  <2>1. json = mem.json /\ json # NoFile /\ pc = "commit"
    BY <1>33 DEF CommitUnneeded, AlreadyCommitted, EntriesInv
  <2>2. Wanted(cur) \subseteq Names(Live)
    BY <2>1, HoldsTheMerge DEF Live, RollingForward, RollForwardWrites
  <2>3. UNCHANGED <<json, pub, progress, blocked, cur>> /\ pc' = "projecting"
    BY <1>33 DEF CommitUnneeded
  <2> QED
    BY <2>2, <2>3 DEF Live
<1>34. CASE CommitRefused
  BY <1>34 DEF CommitRefused
<1>35. CASE BackupMaster
  BY <1>35 DEF BackupMaster
<1>36. CASE WriteLiveJson
  <2>1. Live' = json' /\ Live = json /\ Wanted(cur) \subseteq Names(json')
    BY <1>36, LiveWritten DEF Live
  <2>2. UNCHANGED <<pub, progress, blocked, cur>> /\ pc' = "live_txt"
    BY <1>36 DEF WriteLiveJson
  <2> QED
    BY <2>1, <2>2
<1>37. CASE WriteLiveTxt
  BY <1>37 DEF WriteLiveTxt
<1>38. CASE WriteLiveMeta
  BY <1>38 DEF WriteLiveMeta
<1>39. CASE SetProjecting
  <2>1. cur \in Runs /\ progress[cur] = "complete" /\ pc = "projecting"
    BY <1>39, HoldsTheMerge DEF SetProjecting, RollingForward, RollForwardWrites
  <2>2. UNCHANGED <<json, progress, blocked, cur>> /\ pc' = "project"
    BY <1>39 DEF SetProjecting
  <2>3. \A r \in Runs : r # cur => pub'[r] = pub[r]
    BY <1>39 DEF SetProjecting, Advance
  <2> QED
    BY <2>1, <2>2, <2>3 DEF Live
<1>40. ASSUME NEW v \in Views, Project(v) PROVE PublishedInv'
  BY <1>40 DEF Project
<1>41. CASE SealCheckpoint
  BY <1>41 DEF SealCheckpoint
<1>42. CASE SetProjected
  <2>1. cur \in Runs /\ progress[cur] = "complete" /\ pc = "set_projected"
    BY <1>42, HoldsTheMerge DEF SetProjected, RollingForward, RollForwardWrites
  <2>2. UNCHANGED <<json, progress, blocked, cur>> /\ pc' = "verify_after"
    BY <1>42 DEF SetProjected
  <2>3. \A r \in Runs : r # cur => pub'[r] = pub[r]
    BY <1>42 DEF SetProjected, Advance
  <2> QED
    BY <2>1, <2>2, <2>3 DEF Live
<1>44. CASE ClearRecovery
  BY <1>44 DEF ClearRecovery
<1>45. CASE RecordOutcome
  BY <1>45 DEF RecordOutcome
<1>46. CASE RequireRecovery
  BY <1>46 DEF RequireRecovery
<1>47. CASE WriteFails
  <2>1. UNCHANGED <<json, pub, progress, blocked>>
    BY <1>47, FailedWrite DEF VisibleInv
  <2>2. pc' \in {"idle", "record_failed", "require_recovery"}
    BY <1>47, FailedWrite DEF VisibleInv
  <2> QED
    BY <2>1, <2>2 DEF Live
<1>48. CASE Crash
  BY <1>48 DEF Crash
<1>49. ASSUME NEW s \in Sessions,NEW v \in Views, LoseView(s, v) PROVE PublishedInv'
  BY <1>49 DEF LoseView
<1>50. ASSUME NEW r \in Runs, LoseJournal(r) PROVE PublishedInv'
  BY <1>50 DEF LoseJournal
<1>51. CASE UNCHANGED vars
  BY <1>51 DEF vars
<1> QED
  BY <1>1, <1>2, <1>3, <1>4, <1>5, <1>6, <1>7, <1>9, <1>10, <1>11, <1>12,
     <1>13, <1>14, <1>15, <1>17, <1>18, <1>19, <1>20, <1>21, <1>22, <1>23, <1>24,
     <1>25, <1>26, <1>27, <1>28, <1>29, <1>30, <1>31, <1>32, <1>33, <1>34, <1>35, <1>36,
     <1>37, <1>38, <1>39, <1>40, <1>41, <1>42, <1>44, <1>45, <1>46, <1>47, <1>48,
     <1>49, <1>50, <1>51
  DEF Next, PickRun, Prepare, PhaseA, PhaseB, RollForward, Finish, Environment

\* With a live master to begin with, every page a run found blocked is on the
\* list from the moment the run is projecting, whatever the other runs do.
THEOREM PublishedStays == ASSUME Seeded PROVE Spec => []PublishedStaysInMaster
<1>1. PublishedInv => PublishedStaysInMaster
  BY DEF PublishedInv, PublishedStaysInMaster, Wanted
<1>2. TypeOK /\ VisibleInv /\ StagingInv /\ EntriesInv /\ PublishedInv /\ [Next]_vars
        => PublishedInv'
  BY StepPublishedInv
<1> QED
  BY <1>1, <1>2, Typing, InitVisibleInv, StepVisibleInv, InitStagingInv, StepStagingInv,
     InitEntriesInv, StepEntriesInv, InitPublishedInv, PTL DEF Spec

-----------------------------------------------------------------------------
(* The two-phase publication implements the ledger.                        *)

LEMMA InitLedger == Init => Ledger!Init
<1> SUFFICES ASSUME Init PROVE Ledger!Init
  OBVIOUS
<1>1. TypeOK
  BY InitTypeOK
<1>2. Names(Live) \in SUBSET Urls
  BY <1>1, LiveType, NamesType
<1> QED
  BY <1>2 DEF Init, Ledger!Init, Rank

LEMMA StepLedger ==
  ASSUME Seeded, TypeOK, VisibleInv, StagingInv, EntriesInv, PublishedInv, [Next]_vars
  PROVE  [Ledger!Next]_(Ledger!ledger)
<1> DEFINE wanted == [r \in Runs |-> IF progress[r] = "complete"
                         THEN (blocked[r] \cup Manual) \ Blacklist ELSE {}]
           decided0 == {r \in Runs : witness[r] # 0}
           published == {r \in Runs : Rank(pub[r]) >= Rank("projecting")}
<1> USE DEF TypeOK, Rank, master, runDocs, staging, session, bounds
<1> SUFFICES \/ /\ Names(Live') = Names(Live) /\ wanted' = wanted
                /\ decided0' = decided0 /\ published' = published
             \/ \E r \in Runs : Ledger!Find(r) \/ Ledger!Decide(r)
                                \/ Ledger!Absorb(r) \/ Ledger!Settle(r)
  BY DEF Ledger!ledger, Ledger!Next
<1>1. CASE UNCHANGED <<json, witness, pub, progress, blocked>>
  BY <1>1 DEF Live
<1>2. CASE CompleteSteps
  BY <1>2 DEF CompleteSteps, Live, EntriesInv, ChecksFirst, decided
<1>3. CASE VerifySome
  BY <1>3 DEF VerifySome, Live, decided
<1>4. CASE StartPreparing
  BY <1>4 DEF StartPreparing, Live, decided
<1>5. CASE SetPrepared
  <2>1. cur \in Runs /\ Rank(pub[cur]) <= Rank("prepared")
    BY <1>5 DEF SetPrepared, VisibleInv, NothingVisibleBeforeWitness, StagingInv,
                StagingPrecedesWitness, Staging
  <2> QED
    BY <1>5, <2>1 DEF SetPrepared, Live, decided
<1>6. CASE WriteWitness
  <2>1. cur \in Runs /\ mem.rev # 0
    BY <1>6 DEF WriteWitness, VisibleInv, RevisionIsNumbered
  <2>2. decided0' = decided0 \cup {cur}
    BY <1>6, <2>1 DEF WriteWitness
  <2>3. Live' = Live /\ wanted' = wanted /\ published' = published
    BY <1>6 DEF WriteWitness, Live
  <2> QED
    BY <2>1, <2>2, <2>3 DEF Ledger!Decide
<1>7. CASE SetCommitted
  BY <1>7 DEF SetCommitted, Live, decided
<1>8. CASE WriteLiveJson
  BY <1>8, LiveWritten DEF WriteLiveJson, Live, Ledger!Absorb, decided, Wanted
<1>9. CASE SetProjecting
  <2>1. cur \in Runs /\ witness[cur] # 0 /\ wanted[cur] \subseteq Names(Live)
    BY <1>9, HoldsTheMerge
    DEF SetProjecting, RollingForward, RollForwardWrites, PublishedInv, Wanted
  <2>2. Live' = Live /\ wanted' = wanted /\ decided0' = decided0
    BY <1>9 DEF SetProjecting, Live, decided
  <2>3. published' = published \cup {cur}
    BY <1>9, <2>1 DEF SetProjecting, Advance
  <2> QED
    BY <2>1, <2>2, <2>3 DEF Ledger!Settle
<1>10. CASE SetProjected
  <2>1. cur \in Runs /\ witness[cur] # 0 /\ wanted[cur] \subseteq Names(Live)
    BY <1>10, HoldsTheMerge
    DEF SetProjected, RollingForward, RollForwardWrites, PublishedInv, Wanted
  <2>2. Live' = Live /\ wanted' = wanted /\ decided0' = decided0
    BY <1>10 DEF SetProjected, Live, decided
  <2>3. published' = published \cup {cur}
    BY <1>10, <2>1 DEF SetProjected, Advance
  <2> QED
    BY <2>1, <2>2, <2>3 DEF Ledger!Settle
<1>11. CASE \E r \in Runs : CreateManifest(r)
  BY <1>11 DEF CreateManifest, Live, decided
<1>12. CASE \E found \in Findings : VerifyComplete(found)
  <2> PICK found \in Findings : VerifyComplete(found)
    BY <1>12
  <2>1. cur \in Runs /\ progress[cur] # "complete" /\ progress'[cur] = "complete"
    BY DEF VerifyComplete
  <2>2. cur \notin decided0
    BY <2>1 DEF StagingInv, CommittedStagingIsKept, EntriesInv, MergesItsBase
  <2>3. wanted' = [wanted EXCEPT ![cur] = (found \cup Manual) \ Blacklist]
    BY <2>1 DEF VerifyComplete
  <2>4. (found \cup Manual) \ Blacklist \in SUBSET Urls
    BY PublicationAssumption
  <2>5. Live' = Live /\ decided0' = decided0 /\ published' = published
    BY DEF VerifyComplete, Live, decided
  <2> QED
    BY <2>1, <2>2, <2>3, <2>4, <2>5 DEF Ledger!Find
<1>13. Noticed \/ UNCHANGED <<json, witness, pub, progress, blocked>>
  BY Frame
<1> HIDE DEF wanted, decided0, published
<1> QED
  BY <1>1, <1>2, <1>3, <1>4, <1>5, <1>6, <1>7, <1>8, <1>9, <1>10, <1>11, <1>12, <1>13
  DEF Noticed

\* With a live master to begin with, the files behave like the ledger: a run's
\* names are decided once, join the list in one step, and never leave it.
THEOREM Refinement == ASSUME Seeded PROVE Spec => ImplementsLedger
<1>1. TypeOK /\ VisibleInv /\ StagingInv /\ EntriesInv /\ PublishedInv /\ [Next]_vars
        => PublishedInv'
  BY StepPublishedInv
<1>2. TypeOK /\ VisibleInv /\ StagingInv /\ EntriesInv /\ PublishedInv /\ [Next]_vars
        => [Ledger!Next]_(Ledger!ledger)
  BY StepLedger
<1> QED
  BY <1>1, <1>2, Typing, InitVisibleInv, StepVisibleInv, InitStagingInv, StepStagingInv,
     InitEntriesInv, StepEntriesInv, InitPublishedInv, InitLedger, PTL
  DEF Spec, ImplementsLedger, Ledger!Spec

-----------------------------------------------------------------------------
(* Success is never recorded for a partial publication, and the master is  *)
(* never overwritten without a backup.                                     *)

SuccessInv ==
  /\ pc \in {"set_projected", "verify_after", "record_success"} =>
       \A v \in Views : roots[SessionOf[cur]][v] = cur
  /\ pc \in {"verify_after", "record_success"} => pub[cur] = "projected"
  /\ pc = "record_success" => pointer[SessionOf[cur]] = cur /\ ~recovery[cur]
  /\ pc = "live_json" /\ json # NoFile => bak = json

LEMMA InitSuccessInv == Init => SuccessInv
  BY DEF Init, SuccessInv

LEMMA StepSuccessInv ==
  ASSUME TypeOK, VisibleInv, SuccessInv, [Next]_vars
  PROVE  SuccessInv'
<1> USE PublicationAssumption
    DEF SuccessInv, TypeOK, Rank,
        master, runDocs, staging, decided, session, bounds
<1>1. ASSUME NEW r \in Runs, CreateManifest(r) PROVE SuccessInv'
  BY <1>1 DEF CreateManifest
<1>2. CASE CreateRunState
  BY <1>2 DEF CreateRunState
<1>3. CASE CompleteSteps
  BY <1>3 DEF CompleteSteps
<1>4. CASE EndBeforeVerify
  BY <1>4 DEF EndBeforeVerify
<1>5. ASSUME NEW s \in Sessions, ResumeRun(s) PROVE SuccessInv'
  BY <1>5 DEF ResumeRun
<1>6. ASSUME NEW s \in Sessions, ManualStep4(s) PROVE SuccessInv'
  BY <1>6 DEF ManualStep4
<1>7. CASE RecoverNothing
  BY <1>7 DEF RecoverNothing
<1>9. CASE RecoverCommitted
  BY <1>9 DEF RecoverCommitted
<1>10. CASE VerifyWithoutSteps
  BY <1>10 DEF VerifyWithoutSteps
<1>11. CASE VerifySome
  BY <1>11 DEF VerifySome
<1>12. CASE VerifyIncomplete
  BY <1>12 DEF VerifyIncomplete
<1>13. ASSUME NEW found \in Findings, VerifyComplete(found) PROVE SuccessInv'
  BY <1>13 DEF VerifyComplete
<1>14. CASE VerifyAgain
  BY <1>14 DEF VerifyAgain
<1>15. CASE PhaseAReuse
  BY <1>15 DEF PhaseAReuse
<1>17. CASE PhaseACancel
  BY <1>17 DEF PhaseACancel
<1>18. CASE StartPreparing
  BY <1>18 DEF StartPreparing
<1>19. CASE RecordArtifact
  BY <1>19 DEF RecordArtifact
<1>20. CASE StageJson
  BY <1>20 DEF StageJson
<1>21. CASE StageTxt
  BY <1>21 DEF StageTxt
<1>22. CASE StageMeta
  BY <1>22 DEF StageMeta
<1>23. CASE WriteJournal
  BY <1>23 DEF WriteJournal
<1>24. CASE SetPrepared
  BY <1>24 DEF SetPrepared
<1>25. CASE ShadowSuccess
  BY <1>25 DEF ShadowSuccess
<1>26. CASE BoundaryCancel
  BY <1>26 DEF BoundaryCancel
<1>27. CASE RejectStale
  BY <1>27 DEF RejectStale
<1>28. CASE WriteWitness
  BY <1>28 DEF WriteWitness
<1>29. CASE SetCommitted
  BY <1>29 DEF SetCommitted
<1>30. CASE SetCommittedRejected
  BY <1>30 DEF SetCommittedRejected
<1>31. CASE SetPointer
  BY <1>31 DEF SetPointer
<1>32. CASE ReconcilePointer
  BY <1>32 DEF ReconcilePointer
<1>33. CASE CommitUnneeded
  BY <1>33 DEF CommitUnneeded
<1>34. CASE CommitRefused
  BY <1>34 DEF CommitRefused
<1>35. CASE BackupMaster
  BY <1>35 DEF BackupMaster, Backup
<1>36. CASE WriteLiveJson
  BY <1>36 DEF WriteLiveJson
<1>37. CASE WriteLiveTxt
  BY <1>37 DEF WriteLiveTxt
<1>38. CASE WriteLiveMeta
  BY <1>38 DEF WriteLiveMeta
<1>39. CASE SetProjecting
  BY <1>39 DEF SetProjecting
<1>40. ASSUME NEW v \in Views, Project(v) PROVE SuccessInv'
  BY <1>40 DEF Project
<1>41. CASE SealCheckpoint
  BY <1>41 DEF SealCheckpoint
<1>42. CASE SetProjected
  BY <1>42 DEF SetProjected, Advance
<1>44. CASE ClearRecovery
  BY <1>44 DEF ClearRecovery, ProjectedIntact
<1>45. CASE RecordOutcome
  BY <1>45 DEF RecordOutcome, Recorded
<1>46. CASE RequireRecovery
  BY <1>46 DEF RequireRecovery
<1>47. CASE WriteFails
  <2>1. UNCHANGED <<master, runDocs, staging, decided, session>>
    BY <1>47, FailedWrite DEF VisibleInv
  <2>2. pc' \in {"idle", "record_failed", "require_recovery"}
    BY <1>47, FailedWrite DEF VisibleInv
  <2> QED
    BY <2>1, <2>2
<1>48. CASE Crash
  BY <1>48 DEF Crash
<1>49. ASSUME NEW s \in Sessions,NEW v \in Views, LoseView(s, v) PROVE SuccessInv'
  BY <1>49 DEF LoseView
<1>50. ASSUME NEW r \in Runs, LoseJournal(r) PROVE SuccessInv'
  BY <1>50 DEF LoseJournal
<1>51. CASE UNCHANGED vars
  BY <1>51 DEF vars
<1> QED
  BY <1>1, <1>2, <1>3, <1>4, <1>5, <1>6, <1>7, <1>9, <1>10, <1>11, <1>12,
     <1>13, <1>14, <1>15, <1>17, <1>18, <1>19, <1>20, <1>21, <1>22, <1>23, <1>24,
     <1>25, <1>26, <1>27, <1>28, <1>29, <1>30, <1>31, <1>32, <1>33, <1>34, <1>35, <1>36,
     <1>37, <1>38, <1>39, <1>40, <1>41, <1>42, <1>44, <1>45, <1>46, <1>47, <1>48,
     <1>49, <1>50, <1>51
  DEF Next, PickRun, Prepare, PhaseA, PhaseB, RollForward, Finish, Environment

\* A run that publishes succeeds only when everything it publishes is in place.
THEOREM SuccessIsComplete == Spec => SuccessMeansProjected
<1>1. ASSUME TypeOK, SuccessInv, [Next]_vars
      PROVE  [\A r \in Runs :
                verify[r] # "succeeded" /\ verify'[r] = "succeeded" /\ ~shadow =>
                  /\ pub[r] = "projected" /\ pointer[SessionOf[r]] = r /\ ~recovery[r]
                  /\ \A v \in Views : roots[SessionOf[r]][v] = r]_vars
  <2>1. CASE RecordOutcome
    BY <1>1, <2>1 DEF RecordOutcome, Recorded, SuccessInv, TypeOK
  <2>2. CASE ShadowSuccess
    BY <1>1, <2>2 DEF ShadowSuccess
  <2>3. CASE VerifyIncomplete
    BY <1>1, <2>3 DEF VerifyIncomplete, TypeOK
  <2>4. CASE ~RecordOutcome /\ ~ShadowSuccess /\ ~VerifyIncomplete
    <3>1. verify' = verify
      BY <1>1, <2>4 DEF Next, PickRun, Prepare, PhaseA, PhaseB, RollForward, Finish,
         Environment, vars, master, runDocs, staging, decided, session, bounds,
         CreateManifest, CreateRunState, CompleteSteps, EndBeforeVerify, ResumeRun,
         ManualStep4, RecoverNothing, RecoverCommitted,
         VerifyWithoutSteps, VerifySome, VerifyComplete, VerifyAgain, PhaseAReuse,
         PhaseACancel, StartPreparing, RecordArtifact, StageJson,
         StageTxt, StageMeta, WriteJournal, SetPrepared, BoundaryCancel,
         RejectStale, WriteWitness, SetCommitted, SetCommittedRejected, SetPointer,
         ReconcilePointer, CommitUnneeded, CommitRefused, BackupMaster,
         WriteLiveJson, WriteLiveTxt, WriteLiveMeta, SetProjecting, Project,
         SealCheckpoint, SetProjected, ClearRecovery,
         RequireRecovery, WriteFails, Crash, LoseView, LoseJournal
    <3> QED
      BY <3>1
  <2> QED
    BY <2>1, <2>2, <2>3, <2>4
<1> QED
  BY <1>1, Typing, InitVisibleInv, StepVisibleInv, InitSuccessInv, StepSuccessInv,
     PTL DEF Spec, SuccessMeansProjected

\* The live JSON is replaced only when the backup holds what it held.
THEOREM BackupsComeFirst == Spec => OverwritesAreBackedUp
<1>1. ASSUME TypeOK, SuccessInv, [Next]_vars
      PROVE  [json' # json /\ json # NoFile => bak = json]_vars
  <2>1. CASE WriteLiveJson
    BY <1>1, <2>1 DEF WriteLiveJson, SuccessInv
  <2>2. CASE ~WriteLiveJson
    <3>1. json' = json
      BY <1>1, <2>2, Frame DEF Noticed, master, CompleteSteps, VerifySome, StartPreparing,
         SetPrepared, WriteWitness, SetCommitted, SetProjecting, SetProjected,
         CreateManifest, VerifyComplete
    <3> QED
      BY <3>1
  <2> QED
    BY <1>1, <2>1, <2>2
<1> QED
  BY <1>1, Typing, InitVisibleInv, StepVisibleInv, InitSuccessInv, StepSuccessInv,
     PTL DEF Spec, OverwritesAreBackedUp

-----------------------------------------------------------------------------
(* A torn master is repairable: the run that tore it is decided and not yet *)
(* projecting, for projecting comes after its three files are written.      *)

\* How far the three files and the state of the run are written.
WritesInOrder ==
  /\ pc = "live_txt" => json = mem.json
  /\ pc = "live_meta" => json = mem.json /\ txt = Names(json)
  /\ pc = "projecting" => json = mem.json /\ txt = Names(json) /\ meta[1] = cur
  /\ pc \in {"project", "set_projected"} => pub[cur] \in {"projecting", "projected"}

\* The metadata names a decided run; a run past its commit is in the live list.
LiveIsDecided ==
  /\ meta[1] # NoRun => meta[1] \in Runs /\ witness[meta[1]] # 0
  /\ \A r \in Runs : Rank(pub[r]) >= Rank("projecting") => journal[r].json \subseteq json

RepairInv == WritesInOrder /\ LiveIsDecided /\ TornMasterIsRepairable

LEMMA InitRepairInv == Init => RepairInv
<1> SUFFICES ASSUME Init PROVE RepairInv
  OBVIOUS
<1>1. json # NoFile => txt = Names(json)
  <2>1. Names({<<u, NoRun>> : u \in SeedUrls}) = SeedUrls
    <3> DEFINE S == {<<u, NoRun>> : u \in SeedUrls}
    <3>1. \A u \in SeedUrls : <<u, NoRun>> \in S /\ <<u, NoRun>>[1] = u
      OBVIOUS
    <3>2. \A e \in S : e[1] \in SeedUrls
      OBVIOUS
    <3> HIDE DEF S
    <3>3. Names(S) = SeedUrls
      BY <3>1, <3>2 DEF Names
    <3> QED
      BY <3>3 DEF S
  <2> QED
    BY <2>1 DEF Init
<1> QED
  BY <1>1 DEF Init, RepairInv, WritesInOrder, LiveIsDecided, TornMasterIsRepairable, Rank

\* A decided run's journal stays, and so does the decision.
LEMMA DecidedStays ==
  ASSUME TypeOK, VisibleInv, StagingInv, [Next]_vars, NEW r \in Runs, witness[r] # 0
  PROVE  witness'[r] # 0 /\ journal'[r] = journal[r]
<1>1. witness'[r] # 0
  <2>1. CASE WriteWitness
    BY <2>1 DEF WriteWitness, VisibleInv, RevisionIsNumbered, TypeOK
  <2>2. CASE ~WriteWitness
    BY <2>2, Frame DEF Noticed, decided, staging, CompleteSteps, VerifySome,
       StartPreparing, SetPrepared, SetCommitted, WriteLiveJson, SetProjecting,
       SetProjected, CreateManifest, VerifyComplete
  <2> QED
    BY <2>1, <2>2
<1>2. journal'[r] = journal[r]
  <2>1. CASE WriteJournal
    BY <2>1 DEF WriteJournal, StagingInv, StagingPrecedesWitness, Staging, TypeOK
  <2>2. CASE \E s \in Runs : LoseJournal(s)
    BY <2>2 DEF LoseJournal, TypeOK
  <2>3. CASE ~WriteJournal /\ \A s \in Runs : ~LoseJournal(s)
    BY <2>3
    DEF Next, PickRun, Prepare, PhaseA, PhaseB, RollForward, Finish,
        Environment, vars, master, runDocs, staging, decided, session, bounds,
        CreateManifest, CreateRunState, CompleteSteps, EndBeforeVerify, ResumeRun,
        ManualStep4, RecoverNothing, RecoverCommitted,
        VerifyWithoutSteps, VerifySome, VerifyIncomplete, VerifyComplete, VerifyAgain,
        PhaseAReuse, PhaseACancel, StartPreparing, RecordArtifact, StageJson,
        StageTxt, StageMeta, SetPrepared, ShadowSuccess, BoundaryCancel,
        RejectStale, WriteWitness, SetCommitted, SetCommittedRejected, SetPointer,
        ReconcilePointer, CommitUnneeded, CommitRefused, BackupMaster,
        WriteLiveJson, WriteLiveTxt, WriteLiveMeta, SetProjecting, Project,
        SealCheckpoint, SetProjected, ClearRecovery, RecordOutcome,
        RequireRecovery, WriteFails, Crash, LoseView
  <2> QED
    BY <2>1, <2>2, <2>3
<1> QED
  BY <1>1, <1>2

\* The steps the repair depends on; every other leaves the live files alone, and
\* of a decided run's state at most writes "committed".
Repairing == CommitUnneeded \/ WriteLiveJson \/ WriteLiveTxt \/ WriteLiveMeta
                \/ SetProjecting \/ SetProjected

LEMMA ElsewhereLiveStays ==
  ASSUME TypeOK, VisibleInv, StagingInv, [Next]_vars, ~Repairing
  PROVE  /\ UNCHANGED <<json, txt, meta>>
         /\ pc' \in {"live_txt", "live_meta", "projecting"} => UNCHANGED <<pc, cur, mem>>
         /\ pc' \in {"project", "set_projected"} =>
               pc \in {"project", "set_projected"} /\ UNCHANGED <<cur, pub>>
         /\ \A r \in Runs :
              /\ Rank(pub'[r]) >= Rank("projecting") => pub'[r] = pub[r]
              /\ witness[r] # 0 /\ pub[r] \in {"prepared", "committed"} =>
                    pub'[r] \in {"prepared", "committed"}
<1>1. UNCHANGED <<json, txt, meta>>
  BY DEF Repairing, Next, PickRun, Prepare, PhaseA, PhaseB, RollForward, Finish,
     Environment, vars, master, runDocs, staging, decided, session, bounds,
     CreateManifest, CreateRunState, CompleteSteps, EndBeforeVerify, ResumeRun,
     ManualStep4, RecoverNothing, RecoverCommitted,
     VerifyWithoutSteps, VerifySome, VerifyIncomplete, VerifyComplete, VerifyAgain,
     PhaseAReuse, PhaseACancel, StartPreparing, RecordArtifact, StageJson,
     StageTxt, StageMeta, WriteJournal, SetPrepared, ShadowSuccess, BoundaryCancel,
     RejectStale, WriteWitness, SetCommitted, SetCommittedRejected, SetPointer,
     ReconcilePointer, CommitRefused, BackupMaster, Project,
     SealCheckpoint, ClearRecovery, RecordOutcome,
     RequireRecovery, WriteFails, Crash, LoseView, LoseJournal
<1>2. pc' \in {"live_txt", "live_meta", "projecting"} => UNCHANGED <<pc, cur, mem>>
  <2>1. CASE WriteFails
    BY <2>1, FailedWrite DEF VisibleInv
  <2>2. CASE ~WriteFails
    BY <2>2 DEF Repairing, Next, PickRun, Prepare, PhaseA, PhaseB, RollForward, Finish,
       Environment, vars, Stop, staging, bounds,
       CreateManifest, CreateRunState, CompleteSteps, EndBeforeVerify, ResumeRun,
       ManualStep4, RecoverNothing, RecoverCommitted,
       VerifyWithoutSteps, VerifySome, VerifyIncomplete, VerifyComplete, VerifyAgain,
       PhaseAReuse, PhaseACancel, StartPreparing, RecordArtifact, StageJson,
       StageTxt, StageMeta, WriteJournal, SetPrepared, ShadowSuccess, BoundaryCancel,
       RejectStale, WriteWitness, SetCommitted, SetCommittedRejected, SetPointer,
       ReconcilePointer, CommitRefused, BackupMaster, Project,
       SealCheckpoint, ClearRecovery, RecordOutcome,
       RequireRecovery, Crash, LoseView, LoseJournal
  <2> QED
    BY <2>1, <2>2
<1>3. ASSUME NEW r \in Runs
      PROVE  /\ Rank(pub'[r]) >= Rank("projecting") => pub'[r] = pub[r]
             /\ witness[r] # 0 /\ pub[r] \in {"prepared", "committed"} =>
                   pub'[r] \in {"prepared", "committed"}
  <2>1. CASE SetCommitted
    BY <2>1 DEF SetCommitted, Rank, TypeOK
  <2>2. CASE SetPrepared
    BY <2>2 DEF SetPrepared, Rank, TypeOK
  <2>3. CASE StartPreparing
    BY <2>3 DEF StartPreparing, Rank, TypeOK
  <2>4. CASE \E s \in Runs : CreateManifest(s)
    BY <2>4 DEF CreateManifest, Rank, TypeOK
  <2>5. CASE ~SetCommitted /\ ~SetPrepared /\ ~StartPreparing
               /\ \A s \in Runs : ~CreateManifest(s)
    <3>1. pub' = pub
      BY <2>5, Frame DEF Repairing, Noticed, CompleteSteps, VerifySome, WriteWitness,
         runDocs, VerifyComplete
    <3> QED
      BY <3>1
  <2> QED
    BY <2>1, <2>2, <2>3, <2>4, <2>5
<1>4. pc' \in {"project", "set_projected"} =>
        pc \in {"project", "set_projected"} /\ UNCHANGED <<cur, pub>>
  <2>1. CASE WriteFails
    BY <2>1, FailedWrite DEF VisibleInv
  <2>2. CASE ~WriteFails
    BY <2>2 DEF Repairing, Next, PickRun, Prepare, PhaseA, PhaseB, RollForward, Finish,
       Environment, vars, Stop, runDocs, staging, bounds,
       CreateManifest, CreateRunState, CompleteSteps, EndBeforeVerify, ResumeRun,
       ManualStep4, RecoverNothing, RecoverCommitted,
       VerifyWithoutSteps, VerifySome, VerifyIncomplete, VerifyComplete, VerifyAgain,
       PhaseAReuse, PhaseACancel, StartPreparing, RecordArtifact, StageJson,
       StageTxt, StageMeta, WriteJournal, SetPrepared, ShadowSuccess, BoundaryCancel,
       RejectStale, WriteWitness, SetCommitted, SetCommittedRejected, SetPointer,
       ReconcilePointer, CommitRefused, BackupMaster, Project,
       SealCheckpoint, ClearRecovery, RecordOutcome,
       RequireRecovery, Crash, LoseView, LoseJournal
  <2> QED
    BY <2>1, <2>2
<1> QED
  BY <1>1, <1>2, <1>3, <1>4

LEMMA StepRepairInv ==
  ASSUME Seeded, TypeOK, VisibleInv, StagingInv, EntriesInv, RepairInv, [Next]_vars
  PROVE  RepairInv'
<1> USE DEF RepairInv
<1>0. /\ \A r \in Runs : witness[r] # 0 => witness'[r] # 0 /\ journal'[r] = journal[r]
      /\ \A r \in Runs : Rank(pub[r]) >= Rank("projecting") => witness[r] # 0
  BY DecidedStays DEF VisibleInv, NothingVisibleBeforeWitness, Rank
<1>1. CASE CommitUnneeded
  <2>1. /\ UNCHANGED <<json, txt, meta, pub, journal, witness, cur, mem>>
        /\ pc' = "projecting"
        /\ json = mem.json /\ txt = Names(json) /\ meta[1] = cur
    BY <1>1 DEF CommitUnneeded, AlreadyCommitted, master, runDocs, staging, decided
  <2> QED
    BY <2>1 DEF WritesInOrder, LiveIsDecided, TornMasterIsRepairable
<1>2. CASE WriteLiveJson
  <2>1. /\ cur \in Runs /\ witness[cur] # 0 /\ mem = journal[cur] /\ Prepared(cur)
        /\ mem.base \in Content /\ mem.json = Merge(mem.base, blocked[cur], cur)
        /\ pc = "live_json"
    BY <1>2, HoldsTheMerge
    DEF WriteLiveJson, RollingForward, RollForwardWrites, StagingInv, MemoryIsStaged,
        Holding, BoundaryIsPrepared
  <2>2. /\ json' = mem.json /\ json # NoFile /\ json \in {mem.json, mem.base}
        /\ UNCHANGED <<txt, meta, pub, journal, witness, cur, mem>> /\ pc' = "live_txt"
    BY <1>2, <2>1, PublicationAssumption, LiveWritten
    DEF WriteLiveJson, EntriesInv, runDocs, staging, decided
  <2>3. json \subseteq json'
    BY <1>2, LiveWritten
  <2>4. LiveIsDecided'
    BY <2>2, <2>3 DEF LiveIsDecided
  <2>5. TornMasterIsRepairable'
    <3>1. CASE pub[cur] \in {"prepared", "committed"}
      BY <2>1, <2>2, <3>1 DEF TornMasterIsRepairable
    <3>2. CASE pub[cur] \notin {"prepared", "committed"}
      <4>1. Rank(pub[cur]) >= Rank("projecting")
        BY <2>1, <3>2 DEF Prepared, Rank, TypeOK
      <4>2. json' = json
        BY <2>1, <2>2, <2>3, <4>1 DEF LiveIsDecided
      <4> QED
        BY <2>2, <4>2 DEF TornMasterIsRepairable
    <3> QED
      BY <3>1, <3>2
  <2> QED
    BY <2>2, <2>4, <2>5 DEF WritesInOrder
<1>3. CASE WriteLiveTxt
  <2>1. /\ cur \in Runs /\ witness[cur] # 0 /\ mem = journal[cur] /\ pc = "live_txt"
        /\ Valid(cur, mem)
    BY <1>3, HoldsTheMerge
    DEF WriteLiveTxt, RollingForward, RollForwardWrites, StagingInv, MemoryIsStaged,
        Holding, CommittedStagingIsKept
  <2>2. /\ txt' = Names(mem.json) /\ json = mem.json /\ pc' = "live_meta"
        /\ UNCHANGED <<json, meta, pub, journal, witness, cur, mem>>
    BY <1>3, <2>1 DEF WriteLiveTxt, Valid, WritesInOrder, runDocs, staging, decided
  <2> QED
    BY <2>2 DEF WritesInOrder, LiveIsDecided, TornMasterIsRepairable
<1>4. CASE WriteLiveMeta
  <2>1. /\ cur \in Runs /\ witness[cur] # 0 /\ mem = journal[cur] /\ pc = "live_meta"
    BY <1>4, HoldsTheMerge
    DEF WriteLiveMeta, RollingForward, RollForwardWrites, StagingInv, MemoryIsStaged,
        Holding
  <2>2. /\ meta'[1] = cur /\ json = mem.json /\ txt = Names(json) /\ pc' = "projecting"
        /\ UNCHANGED <<json, txt, pub, journal, witness, cur, mem>>
    BY <1>4, <2>1 DEF WriteLiveMeta, WritesInOrder, runDocs, staging, decided
  <2> QED
    BY <2>1, <2>2 DEF WritesInOrder, LiveIsDecided, TornMasterIsRepairable
<1>5. CASE SetProjecting
  <2>1. /\ cur \in Runs /\ mem = journal[cur] /\ pc = "projecting"
    BY <1>5, HoldsTheMerge
    DEF SetProjecting, RollingForward, RollForwardWrites, StagingInv, MemoryIsStaged,
        Holding
  <2>2. /\ json = journal[cur].json /\ txt = Names(json) /\ meta[1] = cur
        /\ UNCHANGED <<json, txt, meta, journal, witness>> /\ pc' = "project"
    BY <1>5, <2>1 DEF SetProjecting, WritesInOrder, master, staging, decided
  <2>3. \A r \in Runs : r # cur => pub'[r] = pub[r]
    BY <1>5 DEF SetProjecting, Advance, TypeOK
  <2>4. pub'[cur] \in {"projecting", "projected"}
    BY <1>5, <2>1 DEF SetProjecting, Advance, Rank, TypeOK
  <2> QED
    BY <1>5, <2>1, <2>2, <2>3, <2>4
    DEF SetProjecting, WritesInOrder, LiveIsDecided, TornMasterIsRepairable
<1>6. CASE SetProjected
  <2>1. UNCHANGED <<json, txt, meta, journal, witness>> /\ pc' = "verify_after"
    BY <1>6 DEF SetProjected, master, staging, decided
  <2>2. cur \in Runs /\ pub[cur] \in {"projecting", "projected"}
    BY <1>6, HoldsTheMerge
    DEF SetProjected, WritesInOrder, RollingForward, RollForwardWrites
  <2>3. \A r \in Runs : r # cur => pub'[r] = pub[r]
    BY <1>6 DEF SetProjected, Advance, TypeOK
  <2>4. LiveIsDecided'
    BY <2>1, <2>2, <2>3 DEF LiveIsDecided, Rank
  <2>5. TornMasterIsRepairable'
    BY <2>1, <2>2, <2>3 DEF TornMasterIsRepairable
  <2> QED
    BY <2>1, <2>4, <2>5 DEF WritesInOrder
<1>7. CASE ~Repairing
  <2>1. LiveIsDecided'
    BY <1>0, <1>7, ElsewhereLiveStays DEF LiveIsDecided
  <2>2. WritesInOrder'
    BY <1>7, ElsewhereLiveStays DEF WritesInOrder
  <2>3. TornMasterIsRepairable'
    BY <1>0, <1>7, ElsewhereLiveStays DEF LiveIsDecided, TornMasterIsRepairable
  <2> QED
    BY <2>1, <2>2, <2>3
<1> QED
  BY <1>1, <1>2, <1>3, <1>4, <1>5, <1>6, <1>7 DEF Repairing

\* With a live master to begin with: whenever the three live files disagree, a
\* decided run holds the staged files that make them agree again, through every
\* crash inside GenericMasterRepository.commit.
THEOREM TornIsRepairable == ASSUME Seeded PROVE Spec => []TornMasterIsRepairable
<1>1. TypeOK /\ VisibleInv /\ StagingInv /\ EntriesInv /\ RepairInv /\ [Next]_vars
        => RepairInv'
  BY StepRepairInv
<1>2. RepairInv => TornMasterIsRepairable
  BY DEF RepairInv
<1> QED
  BY <1>1, <1>2, Typing, InitVisibleInv, StepVisibleInv, InitStagingInv, StepStagingInv,
     InitEntriesInv, StepEntriesInv, InitRepairInv, PTL DEF Spec
-----------------------------------------------------------------------------
(* Who can be in the way of a decided run.  A crash after the witness lets *)
(* another run publish before the recovery (CommittedNeverConflicts does   *)
(* not hold); nothing else does.                                           *)

\* If the live master has moved away from a decided run's revision, what it
\* holds is the revision of another decided run.
MovedByAnother ==
  \A r \in Runs : witness[r] # 0 /\ Conflict(journal[r]) =>
    \E q \in Runs \ {r} : witness[q] # 0 /\ json = journal[q].json

\* A process that has decided itself publishes over the master it compared
\* with its base before.
DecidedInTime ==
  via = "finalize" /\ pc \in Deciding \cup {"reconcile_pointer", "commit"} => ~Conflict(mem)

\* commit refuses a revision only in a recovery, and only because another run
\* has published since (_roll_forward, GenericMasterRepository.commit).
OnlyRecoveryIsRefused ==
  [][CommitRefused =>
       /\ via = "recover"
       /\ \E q \in Runs \ {cur} : witness[q] # 0 /\ json = journal[q].json]_vars

LEMMA InitMoved == Init => MovedByAnother /\ DecidedInTime
  BY DEF Init, MovedByAnother, DecidedInTime, Deciding

LEMMA OnlyOneWritesLive ==
  ASSUME [Next]_vars, ~WriteLiveJson PROVE json' = json
  BY Frame DEF Noticed, master, CompleteSteps, VerifySome, StartPreparing,
     SetPrepared, WriteWitness, SetCommitted, SetProjecting, SetProjected,
     CreateManifest, VerifyComplete

LEMMA OnlyOneDecides ==
  ASSUME [Next]_vars, ~WriteWitness PROVE witness' = witness
  BY Frame DEF Noticed, decided, staging, CompleteSteps, VerifySome,
     StartPreparing, SetPrepared, SetCommitted, WriteLiveJson, SetProjecting,
     SetProjected, CreateManifest, VerifyComplete

LEMMA StepMovedByAnother ==
  ASSUME TypeOK, VisibleInv, StagingInv, EntriesInv, MovedByAnother, [Next]_vars
  PROVE  MovedByAnother'
<1> SUFFICES ASSUME NEW r \in Runs, witness'[r] # 0, Conflict(journal[r])'
             PROVE  \E q \in Runs \ {r} : witness'[q] # 0 /\ json' = journal'[q].json
  BY DEF MovedByAnother
<1>1. CASE WriteLiveJson
  <2>1. pc = "live_json" /\ cur \in Runs /\ UNCHANGED <<witness, journal>>
    BY <1>1 DEF WriteLiveJson, At, TypeOK, staging, decided
  <2>2. json' = journal[cur].json
    BY <1>1, <2>1 DEF WriteLiveJson, EntriesInv, StagingInv, MemoryIsStaged, Holding,
       RollingForward, RollForwardWrites
  <2>3. witness[cur] # 0
    BY <2>1 DEF VisibleInv, DecisionIsDurable, RollingForward, RollForwardWrites
  <2>4. r # cur
    BY <2>1, <2>2 DEF Conflict
  <2> QED
    BY <2>1, <2>2, <2>3, <2>4
<1>2. CASE ~WriteLiveJson /\ witness[r] # 0
  <2>1. json' = json
    BY <1>2, OnlyOneWritesLive
  <2>2. journal'[r] = journal[r]
    BY <1>2, DecidedStays
  <2>3. Conflict(journal[r])
    BY <2>1, <2>2 DEF Conflict
  <2>4. PICK q \in Runs \ {r} : witness[q] # 0 /\ json = journal[q].json
    BY <1>2, <2>3 DEF MovedByAnother
  <2>5. witness'[q] # 0 /\ journal'[q] = journal[q]
    BY <2>4, DecidedStays
  <2> QED
    BY <2>1, <2>4, <2>5
<1>3. CASE ~WriteLiveJson /\ witness[r] = 0
  <2>1. WriteWitness
    BY <1>3, OnlyOneDecides
  <2>2. r = cur /\ pc = "boundary" /\ ~Conflict(mem) /\ UNCHANGED <<json, journal>>
    BY <1>3, <2>1 DEF WriteWitness, At, TypeOK, master, staging
  <2>3. mem = journal[cur]
    BY <2>2 DEF StagingInv, MemoryIsStaged, Holding
  <2> QED
    BY <2>2, <2>3 DEF Conflict
<1> QED
  BY <1>1, <1>2, <1>3

LEMMA StepDecidedInTime ==
  ASSUME TypeOK, VisibleInv, DecidedInTime, [Next]_vars
  PROVE  DecidedInTime'
<1> DEFINE Early == Deciding \cup {"reconcile_pointer", "commit"}
<1>1. CASE WriteWitness
  BY <1>1 DEF WriteWitness, DecidedInTime, Conflict, master
<1>2. CASE SetCommitted \/ SetPointer \/ ReconcilePointer \/ UNCHANGED vars
  <2>1. /\ UNCHANGED <<json, mem, via>>
        /\ pc' \in Early => pc \in Early
    BY <1>2 DEF SetCommitted, SetPointer, ReconcilePointer, vars, master, Goto, At, Deciding
  <2> QED
    BY <2>1 DEF DecidedInTime, Conflict
<1>3. CASE RecoverCommitted
  BY <1>3 DEF RecoverCommitted, DecidedInTime
<1>4. CASE /\ ~WriteWitness /\ ~SetCommitted /\ ~SetPointer /\ ~ReconcilePointer
           /\ ~RecoverCommitted /\ ~UNCHANGED vars
  <2>1. pc' \notin Early
    <3>1. CASE WriteFails
      BY <3>1, FailedWrite DEF VisibleInv, Deciding, Stop
    <3>2. CASE VerifySome \/ RecordArtifact \/ (\E v \in Views : Project(v))
      BY <3>2 DEF VerifySome, RecordArtifact, Project, At, Deciding
    <3>3. CASE /\ ~WriteFails /\ ~VerifySome /\ ~RecordArtifact
               /\ ~(\E v \in Views : Project(v))
      BY <1>4, <3>3 DEF Next, PickRun, Prepare, PhaseA, PhaseB, RollForward, Finish,
         Environment, vars, Stop, Goto, At, Deciding,
         CreateManifest, CreateRunState, CompleteSteps, EndBeforeVerify, ResumeRun,
         ManualStep4, RecoverNothing,
         VerifyWithoutSteps, VerifyIncomplete, VerifyComplete, VerifyAgain,
         PhaseAReuse, PhaseACancel, StartPreparing, StageJson,
         StageTxt, StageMeta, WriteJournal, SetPrepared, ShadowSuccess, BoundaryCancel,
         RejectStale, SetCommittedRejected,
         CommitUnneeded, CommitRefused, BackupMaster, WriteLiveJson, WriteLiveTxt,
         WriteLiveMeta, SetProjecting, SealCheckpoint, SetProjected, ClearRecovery,
         RecordOutcome, RequireRecovery, Crash, LoseView, LoseJournal
    <3> QED
      BY <3>1, <3>2, <3>3
  <2> QED
    BY <2>1 DEF DecidedInTime
<1> QED
  BY <1>1, <1>2, <1>3, <1>4

LEMMA StepOnlyRecoveryIsRefused ==
  ASSUME TypeOK, VisibleInv, StagingInv, MovedByAnother, DecidedInTime, CommitRefused
  PROVE  /\ via = "recover"
         /\ \E q \in Runs \ {cur} : witness[q] # 0 /\ json = journal[q].json
<1>1. pc = "commit" /\ cur \in Runs
  BY DEF CommitRefused, At, TypeOK
<1>2. mem = journal[cur] /\ witness[cur] # 0
  BY <1>1 DEF StagingInv, MemoryIsStaged, Holding, VisibleInv, DecisionIsDurable,
     RollingForward, RollForwardWrites
<1>3. Valid(cur, mem)
  BY <1>1, <1>2 DEF StagingInv, CommittedStagingIsKept
<1>4. Conflict(mem)
  BY <1>3 DEF CommitRefused
<1> QED
  BY <1>1, <1>2, <1>4 DEF DecidedInTime, MovedByAnother, TypeOK

\* For any runs, sessions, crashes and failed writes: a publication that its
\* own process has decided is never refused; only a recovery can be, and only
\* because another run has published in between (commit, _phase_b).
THEOREM RefusalsComeLate == Spec => OnlyRecoveryIsRefused
<1>1. TypeOK /\ VisibleInv /\ StagingInv /\ EntriesInv /\ MovedByAnother /\ [Next]_vars
        => MovedByAnother'
  BY StepMovedByAnother
<1>2. TypeOK /\ VisibleInv /\ DecidedInTime /\ [Next]_vars => DecidedInTime'
  BY StepDecidedInTime
<1>3. TypeOK /\ VisibleInv /\ StagingInv /\ MovedByAnother /\ DecidedInTime =>
        (CommitRefused =>
           /\ via = "recover"
           /\ \E q \in Runs \ {cur} : witness[q] # 0 /\ json = journal[q].json)
  BY StepOnlyRecoveryIsRefused
<1> QED
  BY <1>1, <1>2, <1>3, Typing, InitVisibleInv, StepVisibleInv, InitStagingInv,
     StepStagingInv, InitEntriesInv, StepEntriesInv, InitMoved,
     PTL DEF Spec, OnlyRecoveryIsRefused

\* Every check that can still fail comes before the witness, as _phase_b says,
\* where a workspace has a single run.
THEOREM AloneNothingConflicts ==
  ASSUME \A q, r \in Runs : q = r
  PROVE  Spec => []CommittedNeverConflicts
<1>1. TypeOK /\ VisibleInv /\ StagingInv /\ EntriesInv /\ MovedByAnother /\ [Next]_vars
        => MovedByAnother'
  BY StepMovedByAnother
<1>2. MovedByAnother => CommittedNeverConflicts
  BY DEF MovedByAnother, CommittedNeverConflicts
<1> QED
  BY <1>1, <1>2, Typing, InitVisibleInv, StepVisibleInv, InitStagingInv,
     StepStagingInv, InitEntriesInv, StepEntriesInv, InitMoved, PTL DEF Spec

-----------------------------------------------------------------------------
(* A step goes on, and comes to its end.                                   *)

\* From taking a run to the end of the attempt.
Stage(place) ==
  CASE place = "create_run_state" -> 24 [] place = "steps" -> 23
    [] place = "recover" -> 22 [] place = "verify" -> 21 [] place = "phase_a" -> 20
    [] place = "artifacts" -> 19 [] place = "stage_txt" -> 18
    [] place = "stage_meta" -> 17 [] place = "write_journal" -> 16
    [] place = "set_prepared" -> 15 [] place = "boundary" -> 14
    [] place = "set_committed" -> 13 [] place = "set_pointer" -> 12
    [] place = "reconcile_pointer" -> 11 [] place = "commit" -> 10
    [] place = "live_json" -> 9 [] place = "live_txt" -> 8 [] place = "live_meta" -> 7
    [] place = "projecting" -> 6 [] place = "project" -> 5
    [] place = "set_projected" -> 4 [] place = "verify_after" -> 3
    [] place = "require_recovery" -> 1 [] place = "idle" -> -1
    [] place = "record_success" -> 2
    [] OTHER -> 0

\* What is done several times at one place: pages judged, artifacts recorded,
\* root views written.
Repeats ==
  \/ pc = "verify" /\ progress[cur] = "compared" /\ progress'[cur] = "partial"
  \/ /\ pc = "artifacts" /\ artifacts[cur] # artifacts'[cur]
     /\ artifacts[cur] \subseteq artifacts'[cur]
  \/ /\ pc = "project"
     /\ \E v \in Views : /\ roots[SessionOf[cur]][v] # cur
                         /\ roots' = [roots EXCEPT ![SessionOf[cur]][v] = cur]

GetsOn == \/ Stage(pc') < Stage(pc)
          \/ pc' = pc /\ cur' = cur /\ Repeats
Onward == pc # "idle" => GetsOn
NoStepIsInVain == [][Onward]_vars

LEMMA StepGetsOn == ASSUME TypeOK, [Next]_vars PROVE [Onward]_vars
<1> SUFFICES ASSUME Next, pc # "idle" PROVE GetsOn
  BY DEF Onward
<1> USE DEF GetsOn, Stage
<1>1. CASE PickRun \/ (\E s \in Sessions, v \in Views : LoseView(s, v))
           \/ (\E r \in Runs : LoseJournal(r))
  BY <1>1 DEF PickRun, CreateManifest, ResumeRun, ManualStep4, LoseView, LoseJournal
<1>2. CASE CreateRunState \/ CompleteSteps \/ EndBeforeVerify \/ RecoverNothing
           \/ RecoverCommitted \/ VerifyWithoutSteps \/ VerifyIncomplete \/ VerifyAgain
  BY <1>2 DEF CreateRunState, CompleteSteps, EndBeforeVerify, RecoverNothing,
     RecoverCommitted, VerifyWithoutSteps, VerifyIncomplete, VerifyAgain
<1>3. CASE VerifySome
  <2>1. pc' = pc /\ cur' = cur /\ cur \in Runs
    BY <1>3 DEF VerifySome, TypeOK
  <2>2. progress'[cur] = "partial"
    BY <1>3, <2>1 DEF VerifySome, TypeOK
  <2> QED
    BY <1>3, <2>1, <2>2 DEF VerifySome, Repeats
<1>4. CASE \E found \in Findings : VerifyComplete(found)
  BY <1>4 DEF VerifyComplete
<1>5. CASE PhaseAReuse \/ PhaseACancel \/ StartPreparing \/ StageJson \/ StageTxt
           \/ StageMeta \/ WriteJournal \/ SetPrepared
  BY <1>5 DEF PhaseAReuse, PhaseACancel, StartPreparing, StageJson, StageTxt,
     StageMeta, WriteJournal, SetPrepared
<1>6. CASE RecordArtifact
  <2>1. pc' = pc /\ cur' = cur /\ cur \in Runs
    BY <1>6 DEF RecordArtifact, TypeOK
  <2>2. artifacts[cur] \subseteq {"results", "final"} /\ artifacts[cur] # {"results", "final"}
    BY <1>6, <2>1 DEF RecordArtifact, TypeOK
  <2>3. artifacts'[cur]
          = artifacts[cur] \cup {IF "results" \in artifacts[cur] THEN "final" ELSE "results"}
    BY <1>6, <2>1 DEF RecordArtifact, TypeOK
  <2>4. artifacts[cur] \subseteq artifacts'[cur] /\ artifacts[cur] # artifacts'[cur]
    BY <2>2, <2>3
  <2> QED
    BY <1>6, <2>1, <2>4 DEF RecordArtifact, Repeats
<1>7. CASE PhaseB
  BY <1>7 DEF PhaseB, ShadowSuccess, BoundaryCancel, RejectStale, WriteWitness,
     SetCommitted, SetCommittedRejected, SetPointer
<1>8. CASE ReconcilePointer \/ CommitUnneeded \/ CommitRefused \/ BackupMaster
           \/ WriteLiveJson \/ WriteLiveTxt \/ WriteLiveMeta \/ SetProjecting
           \/ SealCheckpoint \/ SetProjected \/ ClearRecovery
  BY <1>8 DEF ReconcilePointer, CommitUnneeded, CommitRefused, BackupMaster,
     WriteLiveJson, WriteLiveTxt, WriteLiveMeta, SetProjecting, SealCheckpoint,
     SetProjected, ClearRecovery
<1>9. ASSUME NEW v \in Views, Project(v) PROVE GetsOn
  BY <1>9 DEF Project, Repeats
<1>10. CASE Finish
  BY <1>10 DEF Finish, RecordOutcome, RequireRecovery, Recorded
<1>11. CASE WriteFails
  <2>1. PICK h \in Handlers : IF h = "abandon" THEN Stop
                              ELSE Goto(h) /\ UNCHANGED <<cur, mem, via, shadow>>
    BY <1>11 DEF WriteFails
  <2>2. Stage(pc) >= 0 /\ Stage(pc) \in Int
    BY DEF Stage
  <2>3. h \in {"record_failed", "require_recovery"} => Stage(h) < Stage(pc)
    <3>1. pc \in PCs
      BY DEF TypeOK
    <3> QED
      BY <2>1, <3>1 DEF Handlers, PCs, PhaseAWrites, PhaseBWrites, RollForwardWrites, Recorded
  <2>4. h \in {"abandon", "record_failed", "require_recovery"}
    BY <2>1 DEF Handlers
  <2> QED
    BY <2>1, <2>2, <2>3, <2>4
<1>12. CASE Crash
  BY <1>12 DEF Crash
<1> QED
  BY <1>1, <1>2, <1>3, <1>4, <1>5, <1>6, <1>7, <1>8, <1>9, <1>10, <1>11, <1>12
  DEF Next, Prepare, PhaseA, RollForward, Environment

\* Every action of an attempt, and every failure in it, leads towards its end:
\* none is taken twice but the ones that each get something done (finalize,
\* _roll_forward, run_step4).
THEOREM Progress == Spec => NoStepIsInVain
<1>1. TypeOK /\ [Next]_vars => [Onward]_vars
  BY StepGetsOn
<1> QED
  BY <1>1, Typing, PTL DEF Spec, NoStepIsInVain

\* A decided run has recorded its final list, and from the commit on its session
\* points at it.
IntactInv ==
  /\ \A r \in Runs : witness[r] # 0 => "final" \in artifacts[r]
  /\ pc \in (RollForwardWrites \ {"reconcile_pointer"}) \cup {"verify_after"} =>
       pointer[SessionOf[cur]] = cur

LEMMA StepIntactInv ==
  ASSUME TypeOK, VisibleInv, IntactInv, [Next]_vars PROVE IntactInv'
<1> USE PublicationAssumption DEF TypeOK
<1>1. \A r \in Runs : witness'[r] # 0 => "final" \in artifacts'[r]
  <2>1. CASE WriteWitness
    BY <2>1 DEF WriteWitness, IntactInv, runDocs
  <2>2. CASE RecordArtifact
    <3>1. \A r \in Runs : artifacts[r] \subseteq artifacts'[r]
      BY <2>2 DEF RecordArtifact
    <3> QED
      BY <2>2, <3>1 DEF RecordArtifact, IntactInv, decided
  <2>3. UNCHANGED <<witness, artifacts>> \/ WriteWitness \/ RecordArtifact
    BY DEF Next, PickRun, Prepare, PhaseA, PhaseB, RollForward, Finish, Environment,
       vars, runDocs, decided, CreateManifest, CreateRunState, CompleteSteps,
       EndBeforeVerify, ResumeRun, ManualStep4, RecoverNothing, RecoverCommitted,
       VerifyWithoutSteps, VerifySome, VerifyIncomplete, VerifyComplete, VerifyAgain,
       PhaseAReuse, PhaseACancel, StartPreparing, StageJson, StageTxt, StageMeta,
       WriteJournal, SetPrepared, ShadowSuccess, BoundaryCancel, RejectStale,
       SetCommitted, SetCommittedRejected, SetPointer, ReconcilePointer,
       CommitUnneeded, CommitRefused, BackupMaster, WriteLiveJson, WriteLiveTxt,
       WriteLiveMeta, SetProjecting, Project, SealCheckpoint, SetProjected,
       ClearRecovery, RecordOutcome, RequireRecovery, WriteFails, Crash, LoseView,
       LoseJournal
  <2> QED
    BY <2>1, <2>2, <2>3 DEF IntactInv
<1>2. pc' \in (RollForwardWrites \ {"reconcile_pointer"}) \cup {"verify_after"} =>
        pointer'[SessionOf[cur']] = cur'
  <2> SUFFICES ASSUME pc' \in (RollForwardWrites \ {"reconcile_pointer"}) \cup {"verify_after"}
               PROVE  pointer'[SessionOf[cur']] = cur'
    OBVIOUS
  <2>1. CASE ReconcilePointer
    <3>1. witness[cur] # 0 /\ cur \in Runs /\ cur' = cur
      BY <2>1 DEF ReconcilePointer, VisibleInv, DecisionIsDurable, RollingForward,
         RollForwardWrites
    <3> QED
      BY <2>1, <3>1 DEF ReconcilePointer
  <2>2. CASE CommitUnneeded \/ BackupMaster \/ WriteLiveJson \/ WriteLiveTxt \/ WriteLiveMeta
             \/ SetProjecting \/ SealCheckpoint \/ SetProjected
             \/ (\E v \in Views : Project(v)) \/ UNCHANGED vars
    <3>1. UNCHANGED <<pointer, cur>>
      BY <2>2 DEF CommitUnneeded, BackupMaster, WriteLiveJson, WriteLiveTxt,
         WriteLiveMeta, SetProjecting, SealCheckpoint, SetProjected, Project, vars, session
    <3>2. pc \in (RollForwardWrites \ {"reconcile_pointer"}) \cup {"verify_after"}
      BY <2>2 DEF CommitUnneeded, BackupMaster, WriteLiveJson, WriteLiveTxt,
         WriteLiveMeta, SetProjecting, SealCheckpoint, SetProjected, Project, vars,
         RollForwardWrites
    <3> QED
      BY <3>1, <3>2 DEF IntactInv
  <2>3. CASE WriteFails
    BY <2>3, FailedWrite DEF VisibleInv, RollForwardWrites
  <2>4. CASE PickRun \/ Prepare \/ PhaseA \/ PhaseB \/ Finish \/ Crash \/ CommitRefused
             \/ ClearRecovery \/ (\E s \in Sessions, v \in Views : LoseView(s, v))
             \/ (\E r \in Runs : LoseJournal(r))
    BY <2>4 DEF PickRun, Prepare, PhaseA, PhaseB, Finish, Crash, CommitRefused,
       ClearRecovery, LoseView, LoseJournal, CreateManifest, CreateRunState,
       CompleteSteps, EndBeforeVerify, ResumeRun, ManualStep4, RecoverNothing,
       RecoverCommitted, VerifyWithoutSteps, VerifySome, VerifyIncomplete,
       VerifyComplete, VerifyAgain, PhaseAReuse, PhaseACancel, StartPreparing,
       RecordArtifact, StageJson, StageTxt, StageMeta, WriteJournal, SetPrepared,
       ShadowSuccess, BoundaryCancel, RejectStale, WriteWitness, SetCommitted,
       SetCommittedRejected, SetPointer, RecordOutcome, RequireRecovery,
       RollForwardWrites
  <2> QED
    BY <2>1, <2>2, <2>3, <2>4 DEF Next, RollForward, Environment
<1> QED
  BY <1>1, <1>2 DEF IntactInv

\* Where the code asks again what it could only find so: a committed run can be
\* read, is staged or may be staged anew, still validates, and is found
\* projected when it has been.
WorkGoesOn ==
  /\ pc = "recover" => NothingToRecover(cur) \/ Readable(cur)
  /\ pc = "phase_a" => Reusable(cur) \/ MayStage(cur)
  /\ pc = "commit" => Valid(cur, mem)
  /\ pc = "verify_after" => ProjectedIntact(cur)

LEMMA GoesOn ==
  ASSUME TypeOK, VisibleInv, StagingInv, SuccessInv, IntactInv PROVE WorkGoesOn
<1> SUFFICES ASSUME pc # "idle" PROVE WorkGoesOn
  BY DEF WorkGoesOn
<1>1. cur \in Runs /\ SessionOf[cur] \in Sessions /\ cur # NoRun
  BY PublicationAssumption DEF TypeOK
<1>2. pub[cur] \in {"none", "preparing", "prepared", "committed", "projecting", "projected"}
  BY <1>1 DEF TypeOK, VisibleInv, RunsAreCreated
<1>3. witness[cur] # 0 => /\ Readable(cur) /\ Valid(cur, journal[cur])
                          /\ Rank(pub[cur]) >= Rank("prepared")
  BY <1>1 DEF StagingInv, CommittedStagingIsKept, WitnessFollowsPrepared, Prepared, Readable
<1>4. witness[cur] = 0 => pub[cur] \in {"none", "preparing", "prepared"}
  BY <1>1, <1>2 DEF VisibleInv, NothingVisibleBeforeWitness, Rank
<1>5. pc = "recover" => NothingToRecover(cur) \/ Readable(cur)
  BY <1>3, <1>4 DEF NothingToRecover
<1>6. pc = "phase_a" => Reusable(cur) \/ MayStage(cur)
  BY <1>3, <1>4 DEF Reusable, MayStage
<1>7. pc = "commit" => Valid(cur, mem)
  BY <1>3 DEF StagingInv, MemoryIsStaged, Holding, VisibleInv, DecisionIsDurable,
     RollingForward, RollForwardWrites
<1>8. pc = "verify_after" => ProjectedIntact(cur)
  BY <1>1 DEF ProjectedIntact, SuccessInv, IntactInv, VisibleInv, DecisionIsDurable,
     RollingForward
<1> QED
  BY <1>5, <1>6, <1>7, <1>8 DEF WorkGoesOn

\* Whatever crashed and failed before, an attempt never comes to a point where
\* it can do nothing: the files of a decided run are there and as they were
\* staged, and what was projected is found projected (recover, _phase_a,
\* GenericMasterRepository.commit, _verify_projafter).
THEOREM NeverStuck == Spec => []WorkGoesOn
<1>1. Init => IntactInv
  BY DEF Init, IntactInv, RollForwardWrites
<1>2. TypeOK /\ VisibleInv /\ IntactInv /\ [Next]_vars => IntactInv'
  BY StepIntactInv
<1>3. TypeOK /\ VisibleInv /\ StagingInv /\ SuccessInv /\ IntactInv => WorkGoesOn
  BY GoesOn
<1>4. TypeOK /\ VisibleInv /\ SuccessInv /\ [Next]_vars => SuccessInv'
  BY StepSuccessInv
<1> QED
  BY <1>1, <1>2, <1>3, <1>4, Typing, InitVisibleInv, StepVisibleInv, InitStagingInv,
     StepStagingInv, InitSuccessInv, PTL DEF Spec

=============================================================================
