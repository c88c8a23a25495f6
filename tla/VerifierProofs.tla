--------------------------- MODULE VerifierProofs ---------------------------
(***************************************************************************)
(* Theorems about Verifier, for any candidates, budgets, epochs, stops,    *)
(* crashes and setbacks.                                                   *)
(***************************************************************************)
EXTENDS Verifier, TLAPS

USE VerifierAssumption, NoCheckpointAssumption DEF Goto, Leave, Setback

-----------------------------------------------------------------------------
(* Types.                                                                  *)

LEMMA AttemptedIsRecord ==
  ASSUME NEW r \in Record, NEW seen \in Observations
  PROVE  Attempted(r, seen) \in Record
<1>1. r.tries + 1 \in Nat /\ r.lifetime + 1 \in Nat
  BY DEF Record
<1>2. \A n \in Nat : Classify(seen, n) \in [class : Classes, terminal : BOOLEAN]
  BY DEF Observations, Classify, Classes
<1>3. Classify(seen, r.lifetime + 1).class \in Classes
      /\ Classify(seen, r.lifetime + 1).terminal \in BOOLEAN
  BY <1>1, <1>2
<1> QED
  BY <1>1, <1>3 DEF Attempted, Record

LEMMA RenewedAreRecords ==
  ASSUME NEW rs \in [Candidates -> Record]
  PROVE  Renewed(rs) \in [Candidates -> Record]
  BY DEF Record, Renewed

LEMMA NoRecordsAreRecords == NoRecords \in [Candidates -> Record]
  BY DEF NoRecords, Untried, Record, Classes

\* Every way Step 4 can return is an outcome the manifest can hold.
LEMMA OutcomesAreOutcomes ==
  ASSUME NEW s \in {"none", "succeeded", "failed", "cancelled", "incomplete"},
         NEW r \in BOOLEAN, NEW n \in BOOLEAN
  PROVE  Outcome(s, r, n) \in Outcomes
  BY DEF Outcome, Outcomes

LEMMA ReportKeepsTypes ==
  ASSUME TypeOK, NEW outcome \in Outcomes, Report(outcome), stop' = stop,
         finalized' \in (SUBSET Candidates) \cup {Nothing}
  PROVE  TypeOK'
  BY NoRecordsAreRecords DEF TypeOK, Report

LEMMA SavedIsCheckpoint ==
  ASSUME NEW rs \in [Candidates -> Record], NEW e \in 0..(MaxEpochs - 1), Save(rs, e)
  PROVE  checkpoint' \in Checkpoint
  BY DEF Save, Checkpoint

LEMMA InitTypeOK == Init => TypeOK
<1>1. Outcome("none", FALSE, FALSE) \in Outcomes
  BY OutcomesAreOutcomes
<1>2. 0 \in 0..(MaxEpochs - 1)
  OBVIOUS
<1>3. ASSUME Init
      PROVE  used \in [crashes : 0..MaxCrashes, stops : 0..MaxStops,
                       setbacks : 0..MaxSetbacks]
  BY <1>3 DEF Init
<1>4. ASSUME Init PROVE verify \in Outcomes
  BY <1>1, <1>4 DEF Init
<1>5. ASSUME Init PROVE records \in [Candidates -> Record] /\ pc = "idle" /\ stop = FALSE
  BY <1>5, NoRecordsAreRecords DEF Init
<1> QED
  BY <1>2, <1>3, <1>4, <1>5 DEF Init, TypeOK

LEMMA StepTypeOK == ASSUME TypeOK, [Next]_vars PROVE TypeOK'
<1> USE DEF TypeOK
<1>1. CASE Start
  BY <1>1 DEF Start, disk, memory
<1>2. CASE Load
  <2>1. 0 \in 0..(MaxEpochs - 1) /\ MaxEpochs - 1 \in 0..(MaxEpochs - 1)
    OBVIOUS
  <2>2. CASE checkpoint = NoCheckpoint
    BY <1>2, <2>1, <2>2, NoRecordsAreRecords, SavedIsCheckpoint DEF Load
  <2>3. CASE checkpoint # NoCheckpoint
    <3>1. checkpoint.records \in [Candidates -> Record]
          /\ checkpoint.epoch \in 0..(MaxEpochs - 1)
      BY <2>3 DEF Checkpoint
    <3>2. ~Exhausts(checkpoint) /\ Advances(checkpoint)
            => checkpoint.epoch + 1 \in 0..(MaxEpochs - 1)
      BY <3>1 DEF Exhausts
    <3>3. Renewed(checkpoint.records) \in [Candidates -> Record]
      BY <3>1, RenewedAreRecords
    <3> QED
      BY <1>2, <2>1, <2>3, <3>1, <3>2, <3>3, SavedIsCheckpoint DEF Load
  <2> QED
    BY <2>2, <2>3
<1>3. CASE ReportExhausted
  <2>1. Outcome("incomplete", FALSE, TRUE) \in Outcomes
    BY OutcomesAreOutcomes
  <2> QED
    BY <1>3, <2>1, ReportKeepsTypes DEF ReportExhausted
<1>4. CASE SetRetryEpoch
  BY <1>4, NoRecordsAreRecords DEF SetRetryEpoch, memory
<1>5. CASE Visit
  BY <1>5 DEF Visit, disk, memory
<1>6. CASE JudgePage
  <2>1. PICK u \in Candidates, seen \in Observations :
          records' = [records EXCEPT ![u] = Attempted(@, seen)]
    BY <1>6 DEF JudgePage
  <2>2. records' \in [Candidates -> Record]
    BY <2>1, AttemptedIsRecord
  <2>3. checkpoint' \in Checkpoint
    BY <1>6, <2>2 DEF JudgePage, Save, Checkpoint
  <2> QED
    BY <1>6, <2>2, <2>3 DEF JudgePage
<1>7. CASE Escalate
  BY <1>7, SavedIsCheckpoint DEF Escalate, memory
<1>8. CASE ReportEscalated
  <2>1. Outcome("incomplete", TRUE, FALSE) \in Outcomes
    BY OutcomesAreOutcomes
  <2> QED
    BY <1>8, <2>1, ReportKeepsTypes DEF ReportEscalated
<1>9. CASE Cancel
  BY <1>9, SavedIsCheckpoint DEF Cancel, memory
<1>10. CASE ReportCancelled
  <2>1. Outcome("cancelled", TRUE, FALSE) \in Outcomes
    BY OutcomesAreOutcomes
  <2> QED
    BY <1>10, <2>1, ReportKeepsTypes DEF ReportCancelled
<1>11. CASE ReportIncomplete
  <2>1. Outcome("incomplete", epoch + 1 < MaxEpochs, epoch + 1 >= MaxEpochs) \in Outcomes
    <3> DEFINE more == epoch + 1 < MaxEpochs
               none == epoch + 1 >= MaxEpochs
    <3>1. more \in BOOLEAN /\ none \in BOOLEAN
      OBVIOUS
    <3> HIDE DEF more, none
    <3>2. Outcome("incomplete", more, none) \in Outcomes
      BY <3>1, OutcomesAreOutcomes
    <3> QED
      BY <3>2 DEF more, none
  <2> QED
    BY <1>11, <2>1, ReportKeepsTypes DEF ReportIncomplete
<1>12. CASE Finalize
  <2>1. Outcome("succeeded", FALSE, FALSE) \in Outcomes
    BY OutcomesAreOutcomes
  <2> QED
    BY <1>12, <2>1, ReportKeepsTypes DEF Finalize, Blocked
<1>13. CASE FinalizeLater
  <2>1. /\ Outcome("cancelled", TRUE, FALSE) \in Outcomes
        /\ Outcome("failed", FALSE, FALSE) \in Outcomes
        /\ Outcome("failed", TRUE, FALSE) \in Outcomes
        /\ Outcome("failed", TRUE, TRUE) \in Outcomes
    BY OutcomesAreOutcomes
  <2>2. verify' \in Outcomes
    BY <1>13, <2>1 DEF FinalizeLater
  <2>3. used' \in [crashes : 0..MaxCrashes, stops : 0..MaxStops,
                   setbacks : 0..MaxSetbacks]
    BY <1>13 DEF FinalizeLater
  <2>4. 0 \in 0..(MaxEpochs - 1)
    OBVIOUS
  <2> QED
    BY <1>13, <2>2, <2>3, <2>4, NoRecordsAreRecords DEF FinalizeLater
<1>14. CASE RequestStop
  BY <1>14 DEF RequestStop, disk, memory
<1>15. CASE Crash
  BY <1>15, NoRecordsAreRecords DEF Crash, disk
<1>16. CASE UNCHANGED vars
  BY <1>16 DEF vars, disk, memory
<1>17. CASE LoadFails
  <2>1. verify' \in Outcomes
    BY <1>17, OutcomesAreOutcomes DEF LoadFails
  <2>2. used' \in [crashes : 0..MaxCrashes, stops : 0..MaxStops,
                   setbacks : 0..MaxSetbacks]
    BY <1>17 DEF LoadFails
  <2>3. 0 \in 0..(MaxEpochs - 1)
    OBVIOUS
  <2> QED
    BY <1>17, <2>1, <2>2, <2>3, NoRecordsAreRecords DEF LoadFails
<1> QED
  BY <1>1, <1>2, <1>3, <1>4, <1>5, <1>6, <1>7, <1>8, <1>9, <1>10, <1>11, <1>12,
     <1>13, <1>14, <1>15, <1>16, <1>17 DEF Next, Step

\* The checkpoint, the manifest and the process stay well typed.
THEOREM Typing == Spec => []TypeOK
  BY InitTypeOK, StepTypeOK, PTL DEF Spec

-----------------------------------------------------------------------------
(***************************************************************************)
(* What the process knows is what the checkpoint says, or the next epoch   *)
(* of it that is not written yet.                                          *)
(***************************************************************************)
Same == checkpoint = [epoch |-> epoch, records |-> records]
Ahead == /\ checkpoint # NoCheckpoint
         /\ Advances(checkpoint) /\ ~Exhausts(checkpoint)
         /\ epoch = checkpoint.epoch + 1
         /\ records = Renewed(checkpoint.records)

MemoryInv ==
  /\ pc = "set_epoch" => Ahead \/ (checkpoint # NoCheckpoint /\ Same /\ ~Advances(checkpoint))
  /\ pc \in {"page", "observe"} => Ahead \/ (checkpoint # NoCheckpoint /\ Same)
  /\ pc \in {"escalated", "cancelled"} => checkpoint # NoCheckpoint /\ Same
  /\ pc = "exhausted" => checkpoint # NoCheckpoint /\ Same /\ Exhausts(checkpoint)

LEMMA FirstCheckpoint ==
  ASSUME NEW c, c = [epoch |-> 0, records |-> NoRecords]
  PROVE  c # NoCheckpoint /\ ~Advances(c)
<1>1. c \in Checkpoint
  BY NoRecordsAreRecords DEF Checkpoint
<1>2. Transient(NoRecords) = {}
  BY DEF Transient, NoRecords, Untried
<1> QED
  BY <1>1, <1>2 DEF Advances

LEMMA SavedIsSame ==
  ASSUME TypeOK, Save(records, epoch)
  PROVE  checkpoint' # NoCheckpoint /\ checkpoint' = [epoch |-> epoch, records |-> records]
<1>1. checkpoint' \in Checkpoint
  BY SavedIsCheckpoint DEF TypeOK
<1> QED
  BY <1>1 DEF Save

LEMMA JudgedIsSaved ==
  ASSUME TypeOK, JudgePage
  PROVE  /\ checkpoint' # NoCheckpoint
         /\ checkpoint' = [epoch |-> epoch, records |-> records']
<1>1. records' \in [Candidates -> Record] /\ epoch \in 0..(MaxEpochs - 1)
  BY StepTypeOK DEF Next, Step, TypeOK
<1>2. checkpoint' = [epoch |-> epoch, records |-> records']
  BY DEF JudgePage, Save
<1> QED
  BY <1>1, <1>2 DEF Checkpoint

\* The last epoch is the only one that can be exhausted, so nothing changes
\* when it is written again.
LEMMA ExhaustedIsLast ==
  ASSUME TypeOK, checkpoint # NoCheckpoint, Exhausts(checkpoint)
  PROVE  /\ checkpoint.epoch = MaxEpochs - 1
         /\ checkpoint = [epoch |-> MaxEpochs - 1, records |-> checkpoint.records]
<1>1. checkpoint \in Checkpoint
  BY DEF TypeOK
<1>2. checkpoint.epoch \in 0..(MaxEpochs - 1) /\ checkpoint.epoch + 1 >= MaxEpochs
  BY <1>1 DEF Checkpoint, Exhausts
<1>3. checkpoint.epoch = MaxEpochs - 1
  BY <1>2
<1>4. checkpoint = [epoch |-> checkpoint.epoch, records |-> checkpoint.records]
  BY <1>1 DEF Checkpoint
<1> QED
  BY <1>3, <1>4

LEMMA InitMemoryInv == Init => MemoryInv
  BY DEF Init, MemoryInv

LEMMA StepMemoryInv == ASSUME TypeOK, MemoryInv, [Next]_vars PROVE MemoryInv'
<1> USE DEF MemoryInv
<1> DEFINE Idle == pc' \in {"idle", "load"}
<1>0. Idle => MemoryInv'
  OBVIOUS
<1>1. CASE Start
  BY <1>0, <1>1 DEF Start
<1>2. CASE Load
  <2>1. CASE checkpoint = NoCheckpoint
    <3>1. checkpoint' = [epoch |-> 0, records |-> NoRecords]
          /\ epoch' = 0 /\ records' = NoRecords /\ pc' = "set_epoch"
      BY <1>2, <2>1 DEF Load, Save
    <3>2. checkpoint' # NoCheckpoint /\ ~Advances(checkpoint')
      BY <3>1, FirstCheckpoint
    <3> QED
      BY <3>1, <3>2 DEF Same, Advances
  <2>2. CASE checkpoint # NoCheckpoint /\ ~Advances(checkpoint)
    <3>1. checkpoint = [epoch |-> checkpoint.epoch, records |-> checkpoint.records]
      BY <2>2 DEF TypeOK, Checkpoint
    <3>2. /\ checkpoint' = checkpoint /\ pc' = "set_epoch"
          /\ epoch' = checkpoint.epoch /\ records' = checkpoint.records
      BY <1>2, <2>2 DEF Load, Exhausts
    <3> QED
      BY <2>2, <3>1, <3>2 DEF Same, Advances
  <2>3. CASE checkpoint # NoCheckpoint /\ Advances(checkpoint) /\ ~Exhausts(checkpoint)
    BY <1>2, <2>3 DEF Load, Ahead, Advances, Exhausts
  <2>4. CASE checkpoint # NoCheckpoint /\ Exhausts(checkpoint)
    <3>1. /\ checkpoint' = checkpoint /\ pc' = "exhausted"
          /\ epoch' = MaxEpochs - 1 /\ records' = checkpoint.records
      BY <1>2, <2>4, ExhaustedIsLast DEF Load, Save, Exhausts
    <3> QED
      BY <2>4, <3>1, ExhaustedIsLast DEF Same, Exhausts, Advances
  <2> QED
    BY <2>1, <2>2, <2>3, <2>4 DEF Exhausts
<1>3. CASE ReportExhausted
  BY <1>0, <1>3 DEF ReportExhausted, Report
<1>4. CASE SetRetryEpoch
  BY <1>0, <1>4 DEF SetRetryEpoch, memory, Same, Ahead, Advances, Exhausts
<1>5. CASE Visit
  BY <1>5 DEF Visit, memory, disk, Same, Ahead, Advances, Exhausts
<1>6. CASE JudgePage
  BY <1>6, JudgedIsSaved DEF JudgePage, Same
<1>7. CASE Escalate
  BY <1>7, SavedIsSame DEF Escalate, memory, Same
<1>8. CASE ReportEscalated
  BY <1>0, <1>8 DEF ReportEscalated, Report
<1>9. CASE Cancel
  BY <1>9, SavedIsSame DEF Cancel, memory, Same
<1>10. CASE ReportCancelled
  BY <1>0, <1>10 DEF ReportCancelled, Report
<1>11. CASE ReportIncomplete
  BY <1>0, <1>11 DEF ReportIncomplete, Report
<1>12. CASE Finalize
  BY <1>0, <1>12 DEF Finalize, Report
<1>13. CASE FinalizeLater
  BY <1>0, <1>13 DEF FinalizeLater
<1>14. CASE RequestStop
  BY <1>14 DEF RequestStop, memory, disk, Same, Ahead, Advances, Exhausts
<1>15. CASE Crash
  BY <1>0, <1>15 DEF Crash
<1>16. CASE UNCHANGED vars
  BY <1>16 DEF vars, memory, disk, Same, Ahead, Advances, Exhausts
<1>17. CASE LoadFails
  BY <1>0, <1>17 DEF LoadFails
<1> QED
  BY <1>1, <1>2, <1>3, <1>4, <1>5, <1>6, <1>7, <1>8, <1>9, <1>10, <1>11, <1>12,
     <1>13, <1>14, <1>15, <1>16, <1>17 DEF Next, Step

-----------------------------------------------------------------------------
(* The manifest never runs ahead of what a resumed process will ask for.   *)

EpochInv ==
  /\ checkpoint = NoCheckpoint => retryEpoch = 0
  /\ checkpoint # NoCheckpoint =>
       \/ retryEpoch <= checkpoint.epoch
       \/ Advances(checkpoint) /\ retryEpoch <= checkpoint.epoch + 1
  /\ pc \in {"page", "observe", "escalated", "cancelled"} => retryEpoch = epoch

LEMMA InitEpochInv == Init => EpochInv
  BY DEF Init, EpochInv

LEMMA InvEpochs == TypeOK /\ MemoryInv /\ EpochInv => EpochIsNeverRefused
<1> SUFFICES ASSUME TypeOK, MemoryInv, EpochInv, pc = "set_epoch"
             PROVE  retryEpoch <= epoch
  BY DEF EpochIsNeverRefused
<1>1. retryEpoch \in Nat /\ epoch \in Nat
  BY DEF TypeOK
<1>2. checkpoint # NoCheckpoint => checkpoint.epoch \in Nat
  BY DEF TypeOK, Checkpoint
<1>3. CASE Ahead
  BY <1>1, <1>2, <1>3 DEF EpochInv, Ahead
<1>4. CASE checkpoint # NoCheckpoint /\ Same /\ ~Advances(checkpoint)
  BY <1>1, <1>2, <1>4 DEF EpochInv, Same
<1> QED
  BY <1>3, <1>4 DEF MemoryInv

LEMMA StepEpochInv ==
  ASSUME TypeOK, MemoryInv, EpochInv, [Next]_vars PROVE EpochInv'
<1> USE DEF EpochInv, Advances
<1>0. /\ epoch \in Nat /\ retryEpoch \in Nat
      /\ checkpoint # NoCheckpoint => checkpoint.epoch \in Nat
  BY DEF TypeOK, Checkpoint
<1>1. CASE Start
  BY <1>1 DEF Start, disk, memory
<1>2. CASE Load
  <2>1. CASE checkpoint = NoCheckpoint
    BY <1>2, <2>1 DEF Load, Save
  <2>2. CASE checkpoint # NoCheckpoint /\ ~Exhausts(checkpoint)
    BY <1>2, <2>2 DEF Load
  <2>3. CASE checkpoint # NoCheckpoint /\ Exhausts(checkpoint)
    BY <1>2, <2>3, ExhaustedIsLast DEF Load, Save, Exhausts
  <2> QED
    BY <2>1, <2>2, <2>3
<1>3. CASE ReportExhausted
  BY <1>3 DEF ReportExhausted, Report
<1>4. CASE SetRetryEpoch
  <2>1. CASE epoch < retryEpoch
    BY <1>4, <2>1 DEF SetRetryEpoch
  <2>2. CASE ~(epoch < retryEpoch)
    <3>1. retryEpoch' = epoch /\ epoch' = epoch /\ checkpoint' = checkpoint /\ pc' = "page"
      BY <1>4, <2>2 DEF SetRetryEpoch, memory
    <3>2. checkpoint # NoCheckpoint
      BY <1>4 DEF SetRetryEpoch, MemoryInv, Ahead
    <3>3. epoch <= checkpoint.epoch \/ (Advances(checkpoint) /\ epoch <= checkpoint.epoch + 1)
      BY <1>0, <1>4, <3>2 DEF SetRetryEpoch, MemoryInv, Ahead, Same
    <3> QED
      BY <3>1, <3>2, <3>3
  <2> QED
    BY <2>1, <2>2
<1>5. CASE Visit
  BY <1>5 DEF Visit, disk, memory
<1>6. CASE JudgePage
  <2>1. /\ checkpoint' # NoCheckpoint /\ checkpoint' = [epoch |-> epoch, records |-> records']
        /\ retryEpoch' = retryEpoch /\ epoch' = epoch
    BY <1>6, JudgedIsSaved DEF JudgePage
  <2>2. retryEpoch = epoch
    BY <1>6 DEF JudgePage
  <2> QED
    BY <1>0, <2>1, <2>2
<1>7. CASE Escalate
  BY <1>0, <1>7, SavedIsSame DEF Escalate, memory
<1>8. CASE ReportEscalated
  BY <1>8 DEF ReportEscalated, Report
<1>9. CASE Cancel
  BY <1>0, <1>9, SavedIsSame DEF Cancel, memory
<1>10. CASE ReportCancelled
  BY <1>10 DEF ReportCancelled, Report
<1>11. CASE ReportIncomplete
  BY <1>11 DEF ReportIncomplete, Report
<1>12. CASE Finalize
  BY <1>12 DEF Finalize, Report
<1>13. CASE FinalizeLater
  BY <1>13 DEF FinalizeLater
<1>14. CASE RequestStop
  BY <1>14 DEF RequestStop, disk, memory
<1>15. CASE Crash
  BY <1>15 DEF Crash, disk
<1>16. CASE UNCHANGED vars
  BY <1>16 DEF vars, disk, memory
<1>17. CASE LoadFails
  BY <1>17 DEF LoadFails
<1> QED
  BY <1>1, <1>2, <1>3, <1>4, <1>5, <1>6, <1>7, <1>8, <1>9, <1>10, <1>11, <1>12,
     <1>13, <1>14, <1>15, <1>16, <1>17 DEF Next, Step

\* A resumed process is never refused by the manifest, although checkpoint and
\* manifest are two files and every write may be the last.
THEOREM EpochsMoveOn == Spec => []EpochIsNeverRefused
  BY InitTypeOK, StepTypeOK, InitMemoryInv, StepMemoryInv, InitEpochInv, StepEpochInv,
     InvEpochs, PTL DEF Spec

-----------------------------------------------------------------------------
(***************************************************************************)
(* A checkpoint comes into being empty, and from then on it is replaced by *)
(* what the process knows, or by that with one page judged.                *)
(***************************************************************************)
Begun == checkpoint' = [epoch |-> 0, records |-> NoRecords]
Saved == /\ pc \in {"page", "observe"}
         /\ Ahead \/ (checkpoint # NoCheckpoint /\ Same)
         /\ checkpoint' = [epoch |-> epoch, records |-> records]
Judged(u, seen) ==
  /\ pc = "observe" /\ verify' = verify /\ finalized' = finalized
  /\ Ahead \/ (checkpoint # NoCheckpoint /\ Same)
  /\ NeedsAttempt(records[u])
  /\ checkpoint' = [epoch |-> epoch,
                    records |-> [records EXCEPT ![u] = Attempted(@, seen)]]

LEMMA HowCheckpointsChange ==
  ASSUME TypeOK, MemoryInv, [Next]_vars
  PROVE  \/ checkpoint' = checkpoint
         \/ checkpoint = NoCheckpoint /\ Begun
         \/ Saved /\ verify' = verify /\ finalized' = finalized
         \/ \E u \in Candidates, seen \in Observations : Judged(u, seen)
<1>2. CASE Load
  <2>1. CASE checkpoint = NoCheckpoint
    BY <1>2, <2>1 DEF Load, Save, Begun
  <2>2. CASE checkpoint # NoCheckpoint /\ ~Exhausts(checkpoint)
    BY <1>2, <2>2 DEF Load
  <2>3. CASE checkpoint # NoCheckpoint /\ Exhausts(checkpoint)
    BY <1>2, <2>3, ExhaustedIsLast DEF Load, Save, Exhausts
  <2> QED
    BY <2>1, <2>2, <2>3
<1>6. CASE JudgePage
  <2>1. PICK u \in Candidates, seen \in Observations :
          /\ Next1(records, u)
          /\ records' = [records EXCEPT ![u] = Attempted(@, seen)]
    BY <1>6 DEF JudgePage
  <2>2. NeedsAttempt(records[u])
    BY <2>1 DEF Next1, Pending
  <2>3. Judged(u, seen)
    BY <1>6, <2>1, <2>2 DEF Judged, JudgePage, Save, MemoryInv
  <2> QED
    BY <2>3
<1>7. CASE Escalate
  BY <1>7 DEF Escalate, Save, Saved, MemoryInv
<1>9. CASE Cancel
  BY <1>9 DEF Cancel, Save, Saved, MemoryInv
<1>20. CASE Start \/ ReportExhausted \/ SetRetryEpoch \/ Visit \/ ReportEscalated
            \/ ReportCancelled \/ ReportIncomplete \/ Finalize \/ FinalizeLater
            \/ LoadFails \/ RequestStop \/ Crash \/ UNCHANGED vars
  BY <1>20 DEF Start, LoadFails, ReportExhausted, SetRetryEpoch, Visit, ReportEscalated,
     ReportCancelled, ReportIncomplete, Finalize, FinalizeLater, RequestStop, Crash,
     Report, vars, disk
<1> QED
  BY <1>2, <1>6, <1>7, <1>9, <1>20 DEF Next, Step

-----------------------------------------------------------------------------
(* No page gets more attempts than the epochs so far allow.                *)

Spent(r, e) == r.tries <= Budget /\ r.lifetime <= Budget * e + r.tries

LEMMA InvAttempts ==
  AttemptsAreBounded <=>
    (checkpoint # NoCheckpoint =>
       \A u \in Candidates : Spent(checkpoint.records[u], checkpoint.epoch))
  BY DEF AttemptsAreBounded, Spent

\* A new epoch renews the budget of the open pages and keeps the rest.
LEMMA RenewedIsSpent ==
  ASSUME NEW r \in Record, NEW e \in Nat, Spent(r, e)
  PROVE  /\ Spent(r, e + 1)
         /\ Spent([r EXCEPT !.tries = 0], e + 1)
<1>1. r.tries \in Nat /\ r.lifetime \in Nat /\ Budget * e \in Nat
  BY DEF Record
<1>2. Budget * (e + 1) = Budget * e + Budget
  OBVIOUS
<1>3. /\ [r EXCEPT !.tries = 0].tries = 0
      /\ [r EXCEPT !.tries = 0].lifetime = r.lifetime
  BY DEF Record
<1> QED
  BY <1>1, <1>2, <1>3 DEF Spent

LEMMA MemoryIsSpent ==
  ASSUME TypeOK, AttemptsAreBounded, Ahead \/ (checkpoint # NoCheckpoint /\ Same)
  PROVE  \A u \in Candidates : Spent(records[u], epoch)
<1>1. CASE checkpoint # NoCheckpoint /\ Same
  BY <1>1 DEF Same, AttemptsAreBounded, Spent
<1>2. CASE Ahead
  <2>1. checkpoint.epoch \in Nat /\ \A u \in Candidates : checkpoint.records[u] \in Record
    BY <1>2 DEF Ahead, TypeOK, Checkpoint
  <2>2. SUFFICES ASSUME NEW u \in Candidates PROVE Spent(records[u], checkpoint.epoch + 1)
    BY <1>2 DEF Ahead
  <2>3. records[u] = checkpoint.records[u]
        \/ records[u] = [checkpoint.records[u] EXCEPT !.tries = 0]
    BY <1>2 DEF Ahead, Renewed
  <2>4. Spent(checkpoint.records[u], checkpoint.epoch)
    BY <1>2 DEF Ahead, AttemptsAreBounded, Spent
  <2> QED
    BY <2>1, <2>3, <2>4, RenewedIsSpent
<1> QED
  BY <1>1, <1>2

LEMMA AttemptedIsSpent ==
  ASSUME NEW r \in Record, NEW e \in Nat, NEW seen, Spent(r, e), NeedsAttempt(r)
  PROVE  Spent(Attempted(r, seen), e)
<1>1. r.tries \in Nat /\ r.lifetime \in Nat /\ Budget * e \in Nat
  BY DEF Record
<1>2. /\ Attempted(r, seen).tries = r.tries + 1
      /\ Attempted(r, seen).lifetime = r.lifetime + 1
  BY DEF Attempted
<1> QED
  BY <1>1, <1>2 DEF Spent, NeedsAttempt

LEMMA StepAttempts ==
  ASSUME TypeOK, MemoryInv, AttemptsAreBounded, [Next]_vars PROVE AttemptsAreBounded'
<1>0. epoch \in Nat /\ records \in [Candidates -> Record]
  BY DEF TypeOK
<1>1. CASE checkpoint' = checkpoint
  BY <1>1 DEF AttemptsAreBounded
<1>2. CASE Begun
  BY <1>2 DEF Begun, AttemptsAreBounded, NoRecords, Untried
<1>3. CASE Saved
  BY <1>3, MemoryIsSpent DEF Saved, AttemptsAreBounded, Spent
<1>4. ASSUME NEW u \in Candidates, NEW seen \in Observations, Judged(u, seen)
      PROVE  AttemptsAreBounded'
  <2>1. \A v \in Candidates : Spent(records[v], epoch)
    BY <1>4, MemoryIsSpent DEF Judged
  <2>2. Spent(Attempted(records[u], seen), epoch)
    BY <1>0, <1>4, <2>1, AttemptedIsSpent DEF Judged
  <2>3. \A v \in Candidates : Spent(checkpoint'.records[v], checkpoint'.epoch)
    BY <1>0, <1>4, <2>1, <2>2 DEF Judged
  <2> QED
    BY <2>3 DEF AttemptsAreBounded, Spent
<1> QED
  BY <1>1, <1>2, <1>3, <1>4, HowCheckpointsChange

\* However often the step is stopped, killed and resumed, no page is tried more
\* often than its epochs allow.
THEOREM AttemptsBounded == Spec => []AttemptsAreBounded
<1>1. Init => AttemptsAreBounded
  BY DEF Init, AttemptsAreBounded
<1> QED
  BY <1>1, InitTypeOK, StepTypeOK, InitMemoryInv, StepMemoryInv, StepAttempts, PTL DEF Spec

-----------------------------------------------------------------------------
(* What a record's class says of its other fields.                         *)

Sound(r) == /\ r.class \in {"blocked", "accessible"} => r.terminal
            /\ r.class = "untried" => ~r.terminal /\ r.tries = 0

SoundInv == checkpoint # NoCheckpoint =>
              \A u \in Candidates : Sound(checkpoint.records[u])

LEMMA AttemptedIsSound ==
  ASSUME NEW r \in Record, NEW seen \in Observations
  PROVE  Sound(Attempted(r, seen))
<1>1. \A n \in Nat : /\ Classify(seen, n).class \in {"blocked", "accessible"}
                          => Classify(seen, n).terminal
                     /\ Classify(seen, n).class # "untried"
  BY DEF Observations, Classify
<1>2. r.lifetime + 1 \in Nat
  BY DEF Record
<1> QED
  BY <1>1, <1>2 DEF Attempted, Sound

LEMMA MemoryIsSound ==
  ASSUME TypeOK, SoundInv, Ahead \/ (checkpoint # NoCheckpoint /\ Same)
  PROVE  \A u \in Candidates : Sound(records[u])
<1>1. CASE checkpoint # NoCheckpoint /\ Same
  BY <1>1 DEF Same, SoundInv
<1>2. CASE Ahead
  <2>1. \A u \in Candidates : checkpoint.records[u] \in Record /\ Sound(checkpoint.records[u])
    BY <1>2 DEF Ahead, TypeOK, Checkpoint, SoundInv
  <2> QED
    BY <1>2, <2>1 DEF Ahead, Renewed, Sound, Record
<1> QED
  BY <1>1, <1>2

LEMMA StepSoundInv ==
  ASSUME TypeOK, MemoryInv, SoundInv, [Next]_vars PROVE SoundInv'
<1>0. records \in [Candidates -> Record]
  BY DEF TypeOK
<1>1. CASE checkpoint' = checkpoint
  BY <1>1 DEF SoundInv
<1>2. CASE Begun
  BY <1>2 DEF Begun, SoundInv, Sound, NoRecords, Untried
<1>3. CASE Saved
  BY <1>3, MemoryIsSound DEF Saved, SoundInv
<1>4. ASSUME NEW u \in Candidates, NEW seen \in Observations, Judged(u, seen)
      PROVE  SoundInv'
  <2>1. \A v \in Candidates : Sound(records[v])
    BY <1>4, MemoryIsSound DEF Judged
  <2>2. Sound(Attempted(records[u], seen))
    BY <1>0, AttemptedIsSound
  <2>3. \A v \in Candidates : Sound(checkpoint'.records[v])
    BY <1>0, <1>4, <2>1, <2>2 DEF Judged
  <2> QED
    BY <2>3 DEF SoundInv
<1> QED
  BY <1>1, <1>2, <1>3, <1>4, HowCheckpointsChange

\* Renewed budgets are there to be used: whoever has nothing left to try and
\* open pages all the same has written that down.
LEMMA SpentIsWritten ==
  ASSUME TypeOK, MemoryInv, pc = "page", Pending(records) = {}, Transient(records) # {}
  PROVE  checkpoint # NoCheckpoint /\ Same /\ Advances(checkpoint)
<1>1. ASSUME Ahead PROVE FALSE
  <2>1. PICK u \in Candidates : ~checkpoint.records[u].terminal
    BY <1>1 DEF Ahead, Advances, Transient
  <2>2. checkpoint.records[u] \in Record
    BY <1>1 DEF Ahead, TypeOK, Checkpoint
  <2>3. records[u] = [checkpoint.records[u] EXCEPT !.tries = 0]
    BY <1>1, <2>1 DEF Ahead, Renewed
  <2>4. NeedsAttempt(records[u])
    BY <2>1, <2>2, <2>3 DEF NeedsAttempt, Record
  <2> QED
    BY <2>4 DEF Pending
<1>2. checkpoint # NoCheckpoint /\ Same
  BY <1>1 DEF MemoryInv
<1> QED
  BY <1>2 DEF Same, Advances

-----------------------------------------------------------------------------
(***************************************************************************)
(* The disk implements the triage.                                         *)
(***************************************************************************)

LEMMA MemoryVerdicts ==
  ASSUME TypeOK, Ahead \/ (checkpoint # NoCheckpoint /\ Same), NEW u \in Candidates
  PROVE  VerdictOf(records[u]) = OnRecord[u]
<1>1. CASE checkpoint # NoCheckpoint /\ Same
  BY <1>1 DEF Same, OnRecord
<1>2. CASE Ahead
  <2>1. checkpoint.records[u] \in Record
    BY <1>2 DEF Ahead, TypeOK, Checkpoint
  <2>2. /\ records[u].class = checkpoint.records[u].class
        /\ records[u].terminal = checkpoint.records[u].terminal
    BY <1>2, <2>1 DEF Ahead, Renewed, Record
  <2>3. VerdictOf(records[u]) = VerdictOf(checkpoint.records[u])
    BY <2>2 DEF VerdictOf
  <2> QED
    BY <1>2, <2>3 DEF Ahead, OnRecord
<1> QED
  BY <1>1, <1>2

\* A verdict appears where there was none, and stays.
LEMMA VerdictsStay ==
  ASSUME TypeOK, MemoryInv, SoundInv, [Next]_vars
  PROVE  \/ OnRecord' = OnRecord
         \/ /\ pc = "observe" /\ verify' = verify /\ finalized' = finalized
            /\ \E u \in Candidates, v \in {"blocked", "cleared"} :
                 OnRecord[u] = "open" /\ OnRecord' = [OnRecord EXCEPT ![u] = v]
<1>0. records \in [Candidates -> Record]
  BY DEF TypeOK
<1>1. CASE checkpoint' = checkpoint
  BY <1>1 DEF OnRecord
<1>2. CASE checkpoint = NoCheckpoint /\ Begun
  <2>1. checkpoint' # NoCheckpoint
    BY <1>2, FirstCheckpoint DEF Begun
  <2>2. \A u \in Candidates : VerdictOf(checkpoint'.records[u]) = "open"
    BY <1>2 DEF Begun, NoRecords, Untried, VerdictOf
  <2> QED
    BY <1>2, <2>1, <2>2 DEF OnRecord
<1>3. CASE Saved
  <2>1. checkpoint' # NoCheckpoint
    BY <1>3 DEF Saved, TypeOK, Checkpoint
  <2>2. \A u \in Candidates : VerdictOf(checkpoint'.records[u]) = OnRecord[u]
    BY <1>3, MemoryVerdicts DEF Saved
  <2> QED
    BY <2>1, <2>2 DEF OnRecord
<1>4. ASSUME NEW u \in Candidates, NEW seen \in Observations, Judged(u, seen)
      PROVE  \/ OnRecord' = OnRecord
             \/ \E v \in {"blocked", "cleared"} :
                  OnRecord[u] = "open" /\ OnRecord' = [OnRecord EXCEPT ![u] = v]
  <2> DEFINE v == VerdictOf(Attempted(records[u], seen))
  <2>1. checkpoint' # NoCheckpoint
    <3>1. [records EXCEPT ![u] = Attempted(@, seen)] \in [Candidates -> Record]
      BY <1>0, AttemptedIsRecord
    <3> QED
      BY <1>4, <3>1 DEF Judged, TypeOK, Checkpoint
  <2>2. \A w \in Candidates : VerdictOf(records[w]) = OnRecord[w]
    BY <1>4, MemoryVerdicts DEF Judged
  <2>3. VerdictOf(records[u]) = "open"
    <3>1. ~records[u].terminal /\ Sound(records[u])
      BY <1>4, MemoryIsSound DEF Judged, NeedsAttempt
    <3> QED
      BY <3>1 DEF Sound, VerdictOf
  <2>4. v \in {"open", "blocked", "cleared"}
    BY DEF VerdictOf
  <2>5. /\ VerdictOf(checkpoint'.records[u]) = v
        /\ \A w \in Candidates \ {u} : VerdictOf(checkpoint'.records[w]) = OnRecord[w]
    BY <1>0, <1>4, <2>2 DEF Judged
  <2>6. OnRecord \in [Candidates -> {"open", "blocked", "cleared"}]
    BY DEF OnRecord, VerdictOf
  <2> HIDE DEF v
  <2>7. OnRecord' = [w \in Candidates |-> IF w = u THEN v ELSE OnRecord[w]]
    BY <2>1, <2>5 DEF OnRecord
  <2>8. OnRecord' = [OnRecord EXCEPT ![u] = v] /\ OnRecord[u] = "open"
    BY <2>2, <2>3, <2>6, <2>7
  <2> QED
    BY <2>4, <2>6, <2>8
<1>5. CASE \E u \in Candidates, seen \in Observations : Judged(u, seen)
  BY <1>4, <1>5 DEF Judged
<1> QED
  BY <1>1, <1>2, <1>3, <1>5, HowCheckpointsChange

LEMMA InitTriage == Init => TriageOf!TriageInit
  BY DEF Init, TriageOf!TriageInit, OnRecord, Outcome

\* Nothing is left to try or open: every page is settled, and the blocked ones
\* are those the disk calls blocked.
LEMMA CompleteIsSettled ==
  ASSUME TypeOK, MemoryInv, SoundInv,
         pc = "page", Pending(records) = {}, Transient(records) = {}
  PROVE  /\ \A u \in Candidates : OnRecord[u] # "open"
         /\ Blocked(records) = {u \in Candidates : OnRecord[u] = "blocked"}
<1>1. \A u \in Candidates : records[u] \in Record /\ Sound(records[u])
                            /\ VerdictOf(records[u]) = OnRecord[u]
  BY MemoryIsSound, MemoryVerdicts DEF TypeOK, MemoryInv
<1>2. ASSUME NEW u \in Candidates PROVE OnRecord[u] # "open"
  <2>1. CASE records[u].terminal
    BY <1>1, <2>1 DEF VerdictOf
  <2>2. CASE ~records[u].terminal
    <3>1. records[u].tries \in Nat /\ records[u].class \in Classes
      BY <1>1 DEF Record
    <3>2. ~(records[u].tries < Budget) /\ records[u].class # "unknown"
      BY <2>2 DEF Pending, NeedsAttempt, Transient
    <3>3. records[u].class # "untried"
      BY <1>1, <3>1, <3>2 DEF Sound
    <3> QED
      BY <1>1, <2>2, <3>1, <3>2, <3>3 DEF Sound, Classes
  <2> QED
    BY <2>1, <2>2
<1>3. \A u \in Candidates : records[u].class = "blocked" <=> OnRecord[u] = "blocked"
  BY <1>1 DEF VerdictOf
<1> QED
  BY <1>2, <1>3 DEF Blocked

LEMMA SpentIsOpen ==
  checkpoint # NoCheckpoint /\ Advances(checkpoint) =>
    \E u \in Candidates : OnRecord[u] = "open"
<1> SUFFICES ASSUME checkpoint # NoCheckpoint, Advances(checkpoint)
             PROVE  \E u \in Candidates : OnRecord[u] = "open"
  OBVIOUS
<1>1. PICK u \in Candidates : checkpoint.records[u].class = "unknown"
                              /\ ~checkpoint.records[u].terminal
  BY DEF Advances, Transient
<1> QED
  BY <1>1 DEF OnRecord, VerdictOf

\* The last epoch is spent with a page open.
GivenUp == checkpoint # NoCheckpoint /\ Exhausts(checkpoint)

\* From then on the checkpoint is what it is.
LEMMA GivenUpForGood ==
  ASSUME TypeOK, MemoryInv, GivenUp, [Next]_vars
  PROVE  checkpoint' = checkpoint
<1> USE DEF GivenUp
<1>1. CASE Saved
  BY <1>1 DEF Saved, Ahead, Same
<1>2. ASSUME NEW u \in Candidates, NEW seen \in Observations, Judged(u, seen)
      PROVE  FALSE
  <2>1. Same
    BY <1>2 DEF Judged, Ahead
  <2>2. u \in Pending(checkpoint.records)
    BY <1>2, <2>1 DEF Judged, Same, Pending
  <2> QED
    BY <2>2 DEF Exhausts, Advances
<1> QED
  BY <1>1, <1>2, HowCheckpointsChange

\* Only the ends of an attempt touch what is handed on or asked for, and a new
\* run is asked for only when no page will be judged in this one.
LEMMA WhoTells ==
  ASSUME TypeOK, MemoryInv, SoundInv, [Next]_vars
  PROVE  \/ Finalize
         \/ verify' = verify /\ finalized' = finalized
         \/ /\ checkpoint' = checkpoint /\ finalized' = finalized
            /\ verify'.newGeneration =>
                 GivenUp \/ \A u \in Candidates : OnRecord[u] # "open"
<1> USE DEF Outcome
<1>1. CASE ReportExhausted
  BY <1>1 DEF ReportExhausted, Report, MemoryInv, GivenUp
<1>2. CASE ReportIncomplete
  <2>1. checkpoint # NoCheckpoint /\ Same /\ Advances(checkpoint)
    BY <1>2, SpentIsWritten DEF ReportIncomplete
  <2>2. verify'.newGeneration => checkpoint.epoch + 1 >= MaxEpochs
    BY <1>2, <2>1 DEF ReportIncomplete, Report, Same
  <2> QED
    BY <1>2, <2>1, <2>2 DEF ReportIncomplete, Report, GivenUp, Exhausts
<1>3. CASE ReportEscalated \/ ReportCancelled \/ LoadFails
  BY <1>3 DEF ReportEscalated, ReportCancelled, LoadFails, Report
<1>4. CASE FinalizeLater
  BY <1>4, CompleteIsSettled DEF FinalizeLater
<1>5. CASE Start \/ Load \/ SetRetryEpoch \/ Visit \/ JudgePage \/ Escalate \/ Cancel
           \/ RequestStop \/ Crash \/ UNCHANGED vars
  BY <1>5 DEF Start, Load, SetRetryEpoch, Visit, JudgePage, Escalate, Cancel,
     RequestStop, Crash, vars, disk
<1> QED
  BY <1>1, <1>2, <1>3, <1>4, <1>5 DEF Next, Step

LEMMA StepTriage ==
  ASSUME TypeOK, MemoryInv, SoundInv, [Next]_vars
  PROVE  [TriageOf!TriageNext]_(TriageOf!triageVars)
<1> USE DEF TriageOf!TriageNext, TriageOf!triageVars, TriageOf!SomeOpen
<1>0. verify.newGeneration \in BOOLEAN /\ verify'.newGeneration \in BOOLEAN
  <2>1. verify \in Outcomes /\ verify' \in Outcomes
    BY StepTypeOK DEF TypeOK
  <2> QED
    BY <2>1 DEF Outcomes
<1>1. CASE Finalize
  <2>1. OnRecord' = OnRecord /\ checkpoint' = checkpoint
    BY <1>1 DEF Finalize, Report, OnRecord
  <2>2. /\ \A u \in Candidates : OnRecord[u] # "open"
        /\ finalized' = {u \in Candidates : OnRecord[u] = "blocked"}
    BY <1>1, CompleteIsSettled DEF Finalize
  <2>3. verify'.newGeneration = FALSE
    BY <1>1 DEF Finalize, Report, Outcome
  <2>4. Exhausts(checkpoint)' = Exhausts(checkpoint)
    BY <2>1 DEF Exhausts, Advances
  <2> QED
    BY <2>1, <2>2, <2>3, <2>4 DEF TriageOf!HandOn
<1>2. CASE /\ checkpoint' = checkpoint /\ finalized' = finalized
           /\ verify'.newGeneration =>
                GivenUp \/ \A u \in Candidates : OnRecord[u] # "open"
  <2>1. OnRecord' = OnRecord
    BY <1>2 DEF OnRecord
  <2>2. Exhausts(checkpoint)' = Exhausts(checkpoint)
    BY <1>2 DEF Exhausts, Advances
  <2>3. CASE verify'.newGeneration = TRUE
    BY <1>2, <2>1, <2>2, <2>3 DEF TriageOf!Tell, GivenUp
  <2>4. CASE verify'.newGeneration = FALSE
    BY <1>2, <2>1, <2>2, <2>4 DEF TriageOf!Withdraw
  <2> QED
    BY <1>0, <2>3, <2>4
<1>3. CASE verify' = verify /\ finalized' = finalized
  <2>1. GivenUp' => \E u \in Candidates : OnRecord'[u] = "open"
    <3>1. (checkpoint # NoCheckpoint /\ Advances(checkpoint) =>
             \E u \in Candidates : OnRecord[u] = "open")'
      BY SpentIsOpen, PTL
    <3> QED
      BY <3>1 DEF GivenUp, Exhausts
  <2>2. CASE GivenUp
    <3>1. checkpoint' = checkpoint
      BY <2>2, GivenUpForGood
    <3>2. OnRecord' = OnRecord /\ Exhausts(checkpoint)' = Exhausts(checkpoint)
      BY <3>1 DEF OnRecord, Exhausts, Advances
    <3> QED
      BY <1>3, <3>1, <3>2
  <2>3. CASE ~GivenUp /\ OnRecord' = OnRecord
    <3>1. CASE GivenUp'
      BY <1>3, <2>1, <2>3, <3>1 DEF TriageOf!GiveUp, GivenUp
    <3>2. CASE ~GivenUp'
      BY <1>3, <2>3, <3>2 DEF GivenUp
    <3> QED
      BY <3>1, <3>2
  <2>4. ASSUME ~GivenUp, NEW u \in Candidates, NEW v \in {"blocked", "cleared"},
               OnRecord[u] = "open", OnRecord' = [OnRecord EXCEPT ![u] = v]
        PROVE  TriageOf!Judge(u)
    BY <1>3, <2>1, <2>4 DEF TriageOf!Judge, GivenUp
  <2> QED
    BY <2>2, <2>3, <2>4, VerdictsStay
<1> QED
  BY <1>1, <1>2, <1>3, WhoTells

\* Verification with all its attempts, epochs, stops and crashes promises no
\* less than judging every page once: no verdict is lost or revised, what is
\* handed on is complete, and a run that has used up its epochs judges nothing
\* more, whatever failed attempts report over it.
THEOREM Refinement == Spec => ImplementsTriage
<1>1. Init => SoundInv
  BY DEF Init, SoundInv
<1> QED
  BY <1>1, InitTypeOK, StepTypeOK, InitMemoryInv, StepMemoryInv, StepSoundInv,
     InitTriage, StepTriage, PTL
  DEF Spec, ImplementsTriage, TriageOf!Triaging

-----------------------------------------------------------------------------
(* Whoever is told that resuming is possible can resume.                   *)

\* A page is looked at, and a step stopped, only while something is to be tried.
PendingInv == pc \in {"observe", "escalated", "cancelled"} => Pending(records) # {}

LEMMA StepPendingInv == ASSUME PendingInv, [Next]_vars PROVE PendingInv'
<1> USE DEF PendingInv, Pending
<1>1. CASE Load \/ JudgePage \/ SetRetryEpoch \/ Start \/ Crash
  BY <1>1 DEF Load, JudgePage, SetRetryEpoch, Start, Crash
<1>2. CASE Visit \/ Escalate \/ Cancel \/ RequestStop
  BY <1>2 DEF Visit, Escalate, Cancel, RequestStop, memory
<1>3. CASE ReportExhausted \/ ReportEscalated \/ ReportCancelled \/ ReportIncomplete
           \/ Finalize \/ FinalizeLater \/ LoadFails
  BY <1>3 DEF LoadFails, ReportExhausted, ReportEscalated, ReportCancelled, ReportIncomplete,
     Finalize, FinalizeLater, Report
<1>4. CASE UNCHANGED vars
  BY <1>4 DEF vars, memory
<1> QED
  BY <1>1, <1>2, <1>3, <1>4 DEF Next, Step

\* Open pages that used their budget are open in the checkpoint as well.
LEMMA AdvancingIsKnown ==
  ASSUME TypeOK, MemoryInv, pc = "page", Transient(records) = {}
  PROVE  checkpoint # NoCheckpoint /\ ~Advances(checkpoint)
<1>1. CASE Ahead
  <2>1. PICK u \in Candidates : checkpoint.records[u].class = "unknown"
                                /\ ~checkpoint.records[u].terminal
    BY <1>1 DEF Ahead, Advances, Transient
  <2>2. checkpoint.records[u] \in Record
    BY <1>1 DEF Ahead, TypeOK, Checkpoint
  <2>3. records[u] = [checkpoint.records[u] EXCEPT !.tries = 0]
    BY <1>1, <2>1 DEF Ahead, Renewed
  <2>4. u \in Transient(records)
    BY <2>1, <2>2, <2>3 DEF Transient, Record
  <2> QED
    BY <2>4
<1>2. CASE checkpoint # NoCheckpoint /\ Same
  BY <1>2 DEF Same, Advances
<1> QED
  BY <1>1, <1>2 DEF MemoryInv

\* Nobody is told to resume and to start a new run at once.
PromiseInv == Promised => ~verify.newGeneration

LEMMA StepPromiseInv == ASSUME TypeOK, PromiseInv, [Next]_vars PROVE PromiseInv'
<1> USE DEF PromiseInv, Promised, Outcome
<1>1. CASE ReportIncomplete
  <2> DEFINE more == epoch + 1 < MaxEpochs
             none == epoch + 1 >= MaxEpochs
  <2>1. more => ~none
    BY DEF TypeOK
  <2> HIDE DEF more, none
  <2>2. verify' = Outcome("incomplete", more, none)
    BY <1>1 DEF ReportIncomplete, Report, more, none
  <2> QED
    BY <2>1, <2>2
<1>2. CASE ReportExhausted \/ ReportEscalated \/ ReportCancelled \/ Finalize
           \/ FinalizeLater \/ LoadFails
  BY <1>2 DEF ReportExhausted, ReportEscalated, ReportCancelled, Finalize,
     FinalizeLater, LoadFails, Report
<1>3. CASE Start \/ Load \/ SetRetryEpoch \/ Visit \/ JudgePage \/ Escalate \/ Cancel
           \/ RequestStop \/ Crash \/ UNCHANGED vars
  BY <1>3 DEF Start, Load, SetRetryEpoch, Visit, JudgePage, Escalate, Cancel,
     RequestStop, Crash, vars, disk
<1> QED
  BY <1>1, <1>2, <1>3 DEF Next, Step

LEMMA StepResumable ==
  ASSUME TypeOK, MemoryInv, EpochInv, PendingInv, PromiseInv, [Next]_vars,
         pc \notin {"idle", "load"}, pc' = "idle", used'.crashes = used.crashes,
         Promised'
  PROVE  Resumable' /\ ~Exhausts(checkpoint')
<1> USE DEF Outcome, Exhausts, Promised
<1>1. CASE ReportExhausted
  BY <1>1 DEF ReportExhausted, Report
<1>2. CASE SetRetryEpoch
  <2>1. ~(epoch < retryEpoch)
    BY <1>2, InvEpochs DEF SetRetryEpoch, EpochIsNeverRefused, TypeOK
  <2> QED
    BY <1>2, <2>1 DEF SetRetryEpoch
<1>3. CASE ReportEscalated \/ ReportCancelled
  <2>1. /\ checkpoint' = checkpoint /\ checkpoint # NoCheckpoint
        /\ verify'.status \in {"cancelled", "incomplete"} /\ ~verify'.newGeneration
    BY <1>3 DEF ReportEscalated, ReportCancelled, Report, MemoryInv
  <2>2. ~Advances(checkpoint)
    BY <1>3 DEF ReportEscalated, ReportCancelled, MemoryInv, PendingInv, Same, Advances
  <2> QED
    BY <2>1, <2>2 DEF Resumable
<1>4. CASE ReportIncomplete
  <2>1. checkpoint' = checkpoint /\ checkpoint # NoCheckpoint /\ checkpoint.epoch = epoch
    BY <1>4, SpentIsWritten DEF ReportIncomplete, Report, Same
  <2>2. epoch + 1 < MaxEpochs /\ ~(epoch + 1 >= MaxEpochs)
    <3>1. verify'.resumable = (epoch + 1 < MaxEpochs)
      BY <1>4 DEF ReportIncomplete, Report
    <3>2. epoch \in Nat
      BY DEF TypeOK
    <3>3. epoch + 1 < MaxEpochs
      BY <3>1, Zenon
    <3> QED
      BY <3>2, <3>3
  <2>3. verify'.status = "incomplete" /\ ~verify'.newGeneration
    BY <1>4, <2>2 DEF ReportIncomplete, Report
  <2> QED
    BY <2>1, <2>2, <2>3 DEF Resumable
<1>5. CASE Finalize
  BY <1>5 DEF Finalize, Report
<1>6. CASE FinalizeLater
  <2>1. checkpoint' = checkpoint /\ checkpoint # NoCheckpoint /\ ~Advances(checkpoint)
    BY <1>6, AdvancingIsKnown DEF FinalizeLater
  <2>2. verify'.status \in {"cancelled", "incomplete"} /\ ~verify'.newGeneration
    BY StepPromiseInv DEF PromiseInv
  <2> QED
    BY <2>1, <2>2 DEF Resumable
<1>7. CASE Crash
  BY <1>7 DEF Crash, TypeOK
<1>8. CASE Start \/ Load \/ LoadFails \/ Visit \/ JudgePage \/ Escalate \/ Cancel
           \/ RequestStop \/ UNCHANGED vars
  BY <1>8 DEF Start, Load, LoadFails, Visit, JudgePage, Escalate, Cancel, RequestStop, vars
<1> QED
  BY <1>1, <1>2, <1>3, <1>4, <1>5, <1>6, <1>7, <1>8 DEF Next, Step

\* An attempt that ends with "Resume is available" leaves a checkpoint the
\* adapter offers and the resumed step does not give up at once.
THEOREM ResumePossible == Spec => ResumeIsPossible
<1>1. Init => PendingInv /\ PromiseInv
  BY DEF Init, PendingInv, PromiseInv, Promised, Outcome
<1>2. TypeOK /\ MemoryInv /\ EpochInv /\ PendingInv /\ PromiseInv /\ [Next]_vars
        => [pc \notin {"idle", "load"} /\ pc' = "idle" /\ used'.crashes = used.crashes
              /\ Promised' => Resumable' /\ ~Exhausts(checkpoint')]_vars
  BY StepResumable
<1> QED
  BY <1>1, <1>2, InitTypeOK, StepTypeOK, InitMemoryInv, StepMemoryInv, InitEpochInv,
     StepEpochInv, StepPendingInv, StepPromiseInv, PTL
  DEF Spec, ResumeIsPossible

-----------------------------------------------------------------------------
(* How a verification gets on.                                             *)

\* Within a step: load, set the epoch, go through the pages, report.
Stage(place) == CASE place = "load" -> 4 [] place = "set_epoch" -> 3
                  [] place \in {"page", "observe"} -> 2
                  [] place \in {"exhausted", "escalated", "cancelled"} -> 1
                  [] OTHER -> 0

\* A page gets one of the attempts its budget has left, all others stay.
Tried == \E u \in Candidates :
           /\ records[u].tries < Budget /\ records'[u].tries = records[u].tries + 1
           /\ \A v \in Candidates \ {u} : records'[v] = records[v]

GetsOn == \/ Stage(pc') < Stage(pc)
          \/ pc = "page" /\ pc' = "observe" /\ UNCHANGED memory
          \/ pc = "observe" /\ pc' = "page" /\ Tried

\* Every step of Step 4 leads towards its end or uses up an attempt; the stop
\* button alone moves nothing.
Onward == pc # "idle" => IF stop' # stop THEN UNCHANGED <<pc, memory>> ELSE GetsOn
NoStepIsInVain == [][Onward]_vars

\* Whoever runs Step 4 to its end, without a stop, a failed attempt, a lost
\* browser, a failed publication or a death, has settled the run or spent an epoch that the next
\* Load follows with a later one.
Ended == /\ pc \notin {"idle", "escalated", "cancelled"} /\ pc' = "idle"
         /\ UNCHANGED used
EndsWell == Ended => \/ Settled'
                     \/ /\ checkpoint' # NoCheckpoint
                        /\ Advances(checkpoint') /\ ~Exhausts(checkpoint')
NoRoundIsInVain == [][EndsWell]_vars

LEMMA StepGetsOn == ASSUME TypeOK, [Next]_vars PROVE [Onward]_vars
<1> SUFFICES ASSUME Next, pc # "idle" PROVE Onward
  BY DEF Onward
<1> USE DEF Onward, GetsOn, Stage
<1>1. CASE Load
  BY <1>1 DEF Load
<1>10. CASE LoadFails
  <2>1. pc' = "idle" /\ stop' = stop /\ pc = "load"
    BY <1>10, Zenon DEF LoadFails
  <2> QED
    BY <2>1
<1>2. CASE ReportExhausted \/ ReportEscalated \/ ReportCancelled
  <2>1. /\ pc' = "idle" /\ stop' = stop
        /\ pc \in {"exhausted", "escalated", "cancelled"}
    BY <1>2, Zenon DEF ReportExhausted, ReportEscalated, ReportCancelled, Report
  <2> QED
    BY <2>1
<1>3. CASE SetRetryEpoch
  BY <1>3 DEF SetRetryEpoch
<1>4. CASE Visit
  BY <1>4 DEF Visit
<1>5. CASE JudgePage
  <2>1. PICK u \in Candidates, seen \in Observations :
          /\ Next1(records, u)
          /\ records' = [records EXCEPT ![u] = Attempted(@, seen)]
    BY <1>5 DEF JudgePage
  <2>2. records[u].tries < Budget
    BY <2>1 DEF Next1, Pending, NeedsAttempt
  <2>3. /\ records'[u] = Attempted(records[u], seen)
        /\ \A v \in Candidates \ {u} : records'[v] = records[v]
    BY <2>1 DEF TypeOK
  <2>4. records'[u].tries = records[u].tries + 1
    BY <2>3 DEF Attempted
  <2>5. Tried
    BY <2>2, <2>3, <2>4 DEF Tried
  <2> QED
    BY <1>5, <2>5 DEF JudgePage
<1>6. CASE Escalate \/ Cancel
  BY <1>6 DEF Escalate, Cancel
<1>7. CASE ReportIncomplete \/ Finalize \/ FinalizeLater
  <2>1. pc' = "idle" /\ stop' = stop /\ pc = "page"
    BY <1>7, Zenon DEF ReportIncomplete, Finalize, FinalizeLater, Report
  <2> QED
    BY <2>1
<1>8. CASE RequestStop
  BY <1>8 DEF RequestStop
<1>9. CASE Crash
  BY <1>9 DEF Crash, TypeOK
<1> QED
  BY <1>1, <1>2, <1>3, <1>4, <1>5, <1>6, <1>7, <1>8, <1>9, <1>10 DEF Next, Step, Start

LEMMA StepEndsWell ==
  ASSUME TypeOK, MemoryInv, EpochInv, [Next]_vars PROVE [EndsWell]_vars
<1> SUFFICES ASSUME Next, Ended
             PROVE  \/ Settled'
                    \/ /\ checkpoint' # NoCheckpoint
                       /\ Advances(checkpoint') /\ ~Exhausts(checkpoint')
  BY DEF EndsWell
<1> USE DEF Ended
<1>1. CASE ReportExhausted
  BY <1>1 DEF ReportExhausted, Report, Settled, Outcome
<1>2. CASE SetRetryEpoch
  <2>1. ~(epoch < retryEpoch)
    BY <1>2, InvEpochs DEF SetRetryEpoch, EpochIsNeverRefused, TypeOK
  <2> QED
    BY <1>2, <2>1 DEF SetRetryEpoch
<1>3. CASE ReportIncomplete
  <2>1. /\ checkpoint' = checkpoint /\ checkpoint # NoCheckpoint
        /\ checkpoint.epoch = epoch /\ checkpoint.records = records
    BY <1>3, SpentIsWritten DEF ReportIncomplete, Report, Same
  <2>2. Advances(checkpoint)
    BY <1>3, <2>1 DEF ReportIncomplete, Advances
  <2>3. epoch + 1 >= MaxEpochs => verify'.newGeneration
    BY <1>3 DEF ReportIncomplete, Report, Outcome
  <2> QED
    BY <2>1, <2>2, <2>3 DEF Settled, Exhausts
<1>4. CASE Finalize
  BY <1>4 DEF Finalize, Report, Settled, Outcome
<1>5. CASE FinalizeLater \/ LoadFails \/ Crash
  <2>1. used.setbacks \in Nat /\ used.crashes \in Nat
    BY DEF TypeOK
  <2>2. CASE FinalizeLater \/ LoadFails
    <3>1. used' = [used EXCEPT !.setbacks = @ + 1]
      BY <2>2 DEF FinalizeLater, LoadFails
    <3>2. used'.setbacks = used.setbacks + 1
      BY <3>1 DEF TypeOK
    <3> QED
      BY <2>1, <3>2
  <2>3. CASE Crash
    <3>1. used' = [used EXCEPT !.crashes = @ + 1]
      BY <2>3 DEF Crash
    <3>2. used'.crashes = used.crashes + 1
      BY <3>1 DEF TypeOK
    <3> QED
      BY <2>1, <3>2
  <2> QED
    BY <1>5, <2>2, <2>3
<1>6. CASE Start \/ Load \/ Visit \/ JudgePage \/ Escalate \/ Cancel \/ RequestStop
           \/ ReportEscalated \/ ReportCancelled
  BY <1>6 DEF Start, Load, Visit, JudgePage, Escalate, Cancel, RequestStop,
     ReportEscalated, ReportCancelled
<1> QED
  BY <1>1, <1>2, <1>3, <1>4, <1>5, <1>6 DEF Next, Step

\* For any candidates and budgets, stops and losses: Step 4 never does anything
\* twice for nothing (verify, _needs_attempt).
THEOREM Progress == Spec => NoStepIsInVain
<1>1. TypeOK /\ [Next]_vars => [Onward]_vars
  BY StepGetsOn
<1> QED
  BY <1>1, InitTypeOK, StepTypeOK, PTL DEF Spec, NoStepIsInVain

\* For any candidates, budgets and epochs: resuming a verification as often as
\* there are epochs settles it, unless something breaks off the step again
\* (_maybe_advance_epoch, _summary).
THEOREM Rounds == Spec => NoRoundIsInVain
<1>1. TypeOK /\ MemoryInv /\ EpochInv /\ [Next]_vars => [EndsWell]_vars
  BY StepEndsWell
<1> QED
  BY <1>1, InitTypeOK, StepTypeOK, InitMemoryInv, StepMemoryInv, InitEpochInv,
     StepEpochInv, PTL DEF Spec, NoRoundIsInVain
=============================================================================
