--------------------------- MODULE ChaturbateProofs ---------------------------
(***************************************************************************)
(* Theorems about Chaturbate, for any pages, runs, batches and budgets,    *)
(* and any number of crashes, stops, failures and edits of the master.     *)
(***************************************************************************)
EXTENDS Chaturbate, TLAPS

USE ChaturbateAssumption

-----------------------------------------------------------------------------
(* Types and control.                                                      *)

\* How often something was lost.
Losses == used.crashes + used.faults

\* A page without a verdict was not tried.
Untried(vs, ns) == \A u \in Pages : vs[u] = "none" => ns[u] = 0

DiskTyped ==
  /\ active \in Runs \cup {NoFile}
  /\ manifest \in [Runs -> Manifest \cup {NoFile}]
  /\ artifact \in [Runs -> [Steps -> List]] /\ view \in [Steps -> List]
  /\ checkpoint \in [Runs -> Checkpoint \cup {NoFile}] /\ young \subseteq Pages
TaskTyped ==
  /\ run \in Runs \cup {NoFile} /\ task \in Steps /\ outcome \in Outcomes
  /\ pc \in {"idle", "point", "fetch", "save", "record", "publish", "prune",
             "browser", "load", "fresh", "rounds", "batch", "visit", "keep", "halt",
             "final", "compile"}
WorkTyped ==
  /\ urls \subseteq Pages /\ known \subseteq Pages
  /\ round \subseteq Pages /\ batch \subseteq Pages
  /\ verdict \in [Pages -> Found] /\ tries \in [Pages -> 0..MaxAttempts]
WorldTyped ==
  /\ master \subseteq Pages /\ shelf \subseteq Pages /\ banned \subseteq Pages
  /\ last \in [Pages -> Found] /\ visits \in [Pages -> Nat]
  /\ used \in [starts : Nat, crashes : Nat, faults : Nat, stops : Nat, edits : Nat]
FlagsTyped == stop \in BOOLEAN /\ moved \in BOOLEAN /\ missed \in BOOLEAN

TypeInv == DiskTyped /\ TaskTyped /\ WorkTyped /\ WorldTyped /\ FlagsTyped

\* The stages of Step 4: before and while pages are judged, and after.
Preparing == {"prune", "browser", "load", "fresh"}
Judging == {"rounds", "batch", "visit", "keep", "halt", "final"}

\* Which step is where, and in which run.
ControlInv ==
  /\ active # NoFile => manifest[active] # NoFile
  /\ pc # "idle" => run \in Runs /\ manifest[run] # NoFile
  /\ pc \notin {"idle", "point"} => active = run
  /\ pc = "point" => task = "vpn"
  /\ pc = "fetch" => task \in {"vpn", "local"}
  /\ pc = "save" => task # "verify"
  /\ pc \in Preparing \cup Judging \cup {"compile"} => task = "verify"
  /\ \A r \in Runs : manifest[r] = NoFile => checkpoint[r] = NoFile
  /\ pc = "point" => checkpoint[run] = NoFile

\* The rounds: what is left of them is pending, and was not looked at since
\* the last checkpoint.
RoundInv ==
  /\ Untried(verdict, tries)
  /\ \A r \in Runs : checkpoint[r] # NoFile =>
       Untried(checkpoint[r].verdict, checkpoint[r].tries)
  /\ round \subseteq urls /\ batch \subseteq urls /\ round \cap batch = {}
  /\ pc \in {"batch", "visit", "keep"} =>
       \A u \in round : IsPending(verdict[u], tries[u])
  /\ pc = "visit" => \A u \in batch : IsPending(verdict[u], tries[u])
  /\ pc \in {"batch", "keep"} => batch = {}
  /\ pc \in {"idle", "point", "fetch", "save", "rounds"} \cup Preparing =>
       round = {} /\ batch = {}

TypingInv == TypeInv /\ ControlInv /\ RoundInv


LEMMA NewIsManifest == NewManifest \in Manifest
  BY DEF NewManifest, Manifest, Statuses, List

LEMMA StatusTyped == ASSUME NEW o \in Outcomes PROVE Status(o) \in Statuses
  BY DEF Status, Outcomes, Statuses

LEMMA RecordedIsManifest ==
  ASSUME NEW m \in Manifest, NEW s \in Steps, NEW o \in Outcomes, NEW file \in List
  PROVE  Recorded(m, s, o, file) \in Manifest
<1>1. m.status \in Statuses /\ m.step \in [Steps -> Statuses] /\ m.record \in [Steps -> List]
  BY DEF Manifest
<1>2. Status(o) \in Statuses /\ "succeeded" \in Statuses
  BY StatusTyped DEF Statuses
<1>3. [m.step EXCEPT ![s] = Status(o)] \in [Steps -> Statuses]
  BY <1>1, <1>2
<1>4. [m.record EXCEPT ![s] = file] \in [Steps -> List]
  BY <1>1
<1> QED
  BY <1>1, <1>2, <1>3, <1>4 DEF Recorded, Manifest

LEMMA PrunedIsCheckpoint ==
  ASSUME NEW c \in Checkpoint, NEW keep \in SUBSET Pages
  PROVE  Pruned(c, keep) \in Checkpoint
<1>1. c.verdict \in [Pages -> Found] /\ c.tries \in [Pages -> 0..MaxAttempts]
  BY DEF Checkpoint
<1>2. [u \in Pages |-> IF u \in keep THEN c.verdict[u] ELSE "none"] \in [Pages -> Found]
  BY <1>1 DEF Found
<1>3. [u \in Pages |-> IF u \in keep THEN c.tries[u] ELSE 0] \in [Pages -> 0..MaxAttempts]
  BY <1>1
<1> QED
  BY <1>2, <1>3 DEF Pruned, Checkpoint

\* A checkpoint has the form of one, and there is one from then on.
LEMMA KeepsCheckpoint ==
  ASSUME TypingInv, run \in Runs, Keep
  PROVE  /\ checkpoint' \in [Runs -> Checkpoint \cup {NoFile}]
         /\ checkpoint'[run] = [urls |-> urls, verdict |-> verdict, tries |-> tries]
         /\ checkpoint'[run] # NoFile
         /\ \A r \in Runs \ {run} : checkpoint'[r] = checkpoint[r]
<1>1. [urls |-> urls, verdict |-> verdict, tries |-> tries] \in Checkpoint
  BY DEF TypingInv, TypeInv, WorkTyped, Checkpoint
<1>2. checkpoint \in [Runs -> Checkpoint \cup {NoFile}]
  BY DEF TypingInv, TypeInv, DiskTyped
<1> QED
  BY <1>1, <1>2 DEF Keep

\* The candidates exist when Step 4 begins, and when it compiles.
LEMMA ViewIsList ==
  ASSUME TypingInv, NEW s \in Steps
  PROVE  view[s] \in List /\ (view[s] # NoFile => view[s] \subseteq Pages)
  BY DEF TypingInv, TypeInv, DiskTyped, List

LEMMA CompiledArePages ==
  ASSUME NEW s \in SUBSET Pages, NEW b, NEW final \in List
  PROVE  Compiled(s, b, final) \subseteq Pages
  BY DEF Compiled, List

LEMMA ControlSteps == ASSUME TypingInv, [Next]_vars PROVE ControlInv'
<1> USE DEF TypingInv, TypeInv, ControlInv
<1>1. CASE BeginVpn
  <2>1. PICK r \in Runs : /\ manifest[r] = NoFile /\ run' = r
                          /\ manifest' = [manifest EXCEPT ![r] = NewManifest]
    BY <1>1 DEF BeginVpn
  <2>2. manifest'[r] # NoFile /\ \A q \in Runs \ {r} : manifest'[q] = manifest[q]
    BY <2>1, NewIsManifest DEF DiskTyped
  <2> QED
    BY <1>1, <2>1, <2>2 DEF BeginVpn, Begin, DiskTyped, TaskTyped, Preparing, Judging
<1>2. CASE BeginLocal
  BY <1>2 DEF BeginLocal, Begin, Ends, disk, DiskTyped, Preparing, Judging
<1>3. CASE BeginCompare
  BY <1>3 DEF BeginCompare, Begin, Ends, disk, DiskTyped, Preparing, Judging
<1>4. CASE BeginVerify
  BY <1>4 DEF BeginVerify, Begin, Ends, disk, DiskTyped, Preparing, Judging
<1>5. CASE PointAtRun
  BY <1>5 DEF PointAtRun, DiskTyped, Preparing, Judging
<1>6. CASE Fetch
  BY <1>6 DEF Fetch, Ends, disk, list, work, seen, Preparing, Judging
<1>7. CASE SaveList
  BY <1>7 DEF SaveList, Ends, disk, list, work, seen, Preparing, Judging
<1>8. CASE RecordStep
  <2>1. run \in Runs /\ manifest[run] \in Manifest /\ artifact[run][task] \in List
    BY <1>8 DEF RecordStep, DiskTyped, TaskTyped
  <2>2. manifest' = [manifest EXCEPT ![run] =
                       Recorded(manifest[run], task, outcome, artifact[run][task])]
    BY <1>8 DEF RecordStep
  <2>3. manifest'[run] # NoFile
    BY <2>1, <2>2, RecordedIsManifest DEF DiskTyped, TaskTyped
  <2>4. \A r \in Runs : manifest'[r] = NoFile <=> manifest[r] = NoFile
    BY <2>1, <2>2, <2>3 DEF DiskTyped
  <2>5. pc' \in {"publish", "idle"} /\ UNCHANGED <<active, checkpoint, run, task>>
    BY <1>8 DEF RecordStep, Return
  <2> QED
    BY <1>8, <2>1, <2>4, <2>5 DEF RecordStep, DiskTyped, Preparing, Judging
<1>9. CASE Publish
  BY <1>9 DEF Publish, Return, disk, list, work, seen, Preparing, Judging
<1>10. CASE Prune
  <2>1. run \in Runs /\ manifest[run] # NoFile
    BY <1>10 DEF Prune
  <2> QED
    BY <1>10, <2>1 DEF Prune, DiskTyped, Preparing, Judging
<1>11. CASE OpenBrowser
  BY <1>11 DEF OpenBrowser, disk, list, work, seen, Preparing, Judging
<1>12. CASE LoadCheckpoint
  BY <1>12 DEF LoadCheckpoint, Ends, disk, list, work, seen, Preparing, Judging
<1>13. CASE FirstCheckpoint
  <2>1. run \in Runs /\ manifest[run] # NoFile
    BY <1>13 DEF FirstCheckpoint
  <2> QED
    BY <1>13, <2>1, KeepsCheckpoint DEF FirstCheckpoint, Ends, Preparing, Judging
<1>14. CASE NextRound
  BY <1>14 DEF NextRound, Ends, disk, list, work, seen, Preparing, Judging
<1>15. CASE NextBatch
  BY <1>15 DEF NextBatch, disk, list, work, seen, Preparing, Judging
<1>16. CASE Visit
  BY <1>16 DEF Visit, disk, list, work, seen, Preparing, Judging
<1>17. CASE KeepBatch
  <2>1. run \in Runs /\ manifest[run] # NoFile
    BY <1>17 DEF KeepBatch
  <2> QED
    BY <1>17, <2>1, KeepsCheckpoint DEF KeepBatch, Ends, Preparing, Judging
<1>18. CASE Halt
  <2>1. run \in Runs /\ manifest[run] # NoFile
    BY <1>18 DEF Halt
  <2> QED
    BY <1>18, <2>1, KeepsCheckpoint DEF Halt, Ends, Preparing, Judging
<1>19. CASE SaveFinal
  BY <1>19 DEF SaveFinal, Ends, disk, list, work, seen, Preparing, Judging
<1>20. CASE Compile
  BY <1>20 DEF Compile, Return, SetMaster, disk, list, work, seen, Preparing, Judging
<1>21. CASE StepFails
  BY <1>21 DEF StepFails, Ends, disk, list, work, seen, Preparing, Judging
<1>22. CASE Crash
  BY <1>22 DEF Crash, Return, disk, list, work, seen, Preparing, Judging
<1>23. CASE RequestStop
  BY <1>23 DEF RequestStop, disk, list, work, seen, Preparing, Judging
<1>24. ASSUME NEW u \in Pages, Edit(u) PROVE ControlInv'
  BY <1>24 DEF Edit, SetMaster, disk, list, work, seen, Preparing, Judging
<1>25. CASE UNCHANGED vars
  BY <1>25 DEF vars, disk, list, work, seen
<1> QED
  BY <1>1, <1>2, <1>3, <1>4, <1>5, <1>6, <1>7, <1>8, <1>9, <1>10, <1>11, <1>12,
     <1>13, <1>14, <1>15, <1>16, <1>17, <1>18, <1>19, <1>20, <1>21, <1>22, <1>23, <1>24,
     <1>25
  DEF Next, Step

LEMMA DiskSteps == ASSUME TypingInv, [Next]_vars PROVE DiskTyped'
<1> USE DEF TypingInv, TypeInv
<1>1. CASE BeginVpn
  BY <1>1, NewIsManifest DEF BeginVpn, DiskTyped
<1>2. CASE BeginLocal
  BY <1>2 DEF BeginLocal, Begin, disk, DiskTyped, TaskTyped, ControlInv
<1>3. CASE BeginCompare
  BY <1>3 DEF BeginCompare, Begin, disk, DiskTyped, TaskTyped, ControlInv
<1>4. CASE BeginVerify
  BY <1>4 DEF BeginVerify, Begin, disk, DiskTyped, TaskTyped, ControlInv
<1>5. CASE PointAtRun
  BY <1>5 DEF PointAtRun, Begin, disk, DiskTyped, TaskTyped, ControlInv
<1>6. CASE Fetch
  BY <1>6 DEF Fetch, DiskTyped
<1>7. CASE SaveList
  <2>1. run \in Runs /\ urls \in List /\ task \in Steps
    BY <1>7 DEF SaveList, ControlInv, WorkTyped, TaskTyped, List
  <2>2. artifact' \in [Runs -> [Steps -> List]]
    BY <1>7, <2>1 DEF SaveList, DiskTyped
  <2> QED
    BY <1>7, <2>2 DEF SaveList, DiskTyped
<1>8. CASE RecordStep
  <2>1. run \in Runs /\ manifest[run] \in Manifest /\ artifact[run][task] \in List
    BY <1>8 DEF RecordStep, DiskTyped, TaskTyped, ControlInv
  <2>2. Recorded(manifest[run], task, outcome, artifact[run][task]) \in Manifest
    BY <2>1, RecordedIsManifest DEF TaskTyped
  <2>3. manifest' \in [Runs -> Manifest \cup {NoFile}]
    BY <1>8, <2>1, <2>2 DEF RecordStep, DiskTyped
  <2> QED
    BY <1>8, <2>3 DEF RecordStep, DiskTyped
<1>9. CASE Publish
  BY <1>9 DEF Publish, DiskTyped, TaskTyped, ControlInv
<1>10. CASE Prune
  <2>1. run \in Runs /\ urls \in SUBSET Pages
    BY <1>10 DEF Prune, ControlInv, WorkTyped
  <2>2. checkpoint[run] # NoFile => Pruned(checkpoint[run], urls) \in Checkpoint
    BY <2>1, PrunedIsCheckpoint DEF DiskTyped
  <2>3. checkpoint' \in [Runs -> Checkpoint \cup {NoFile}]
    BY <1>10, <2>1, <2>2 DEF Prune, Prunable, DiskTyped
  <2> QED
    BY <1>10, <2>3 DEF Prune, DiskTyped
<1>11. CASE OpenBrowser
  BY <1>11 DEF OpenBrowser, Begin, disk, DiskTyped, TaskTyped, ControlInv
<1>12. CASE LoadCheckpoint
  BY <1>12 DEF LoadCheckpoint, Begin, disk, DiskTyped, TaskTyped, ControlInv
<1>13. CASE FirstCheckpoint
  <2>1. run \in Runs
    BY <1>13 DEF FirstCheckpoint, ControlInv
  <2> QED
    BY <1>13, <2>1, KeepsCheckpoint DEF FirstCheckpoint, DiskTyped
<1>14. CASE NextRound
  BY <1>14 DEF NextRound, Begin, disk, DiskTyped, TaskTyped, ControlInv
<1>15. CASE NextBatch
  BY <1>15 DEF NextBatch, Begin, disk, DiskTyped, TaskTyped, ControlInv
<1>16. CASE Visit
  BY <1>16 DEF Visit, Begin, disk, DiskTyped, TaskTyped, ControlInv
<1>17. CASE KeepBatch
  <2>1. run \in Runs
    BY <1>17 DEF KeepBatch, ControlInv
  <2> QED
    BY <1>17, <2>1, KeepsCheckpoint DEF KeepBatch, DiskTyped
<1>18. CASE Halt
  <2>1. run \in Runs
    BY <1>18 DEF Halt, ControlInv
  <2> QED
    BY <1>18, <2>1, KeepsCheckpoint DEF Halt, DiskTyped
<1>19. CASE SaveFinal
  <2>1. run \in Runs /\ Final \in List /\ "verify" \in Steps
    BY <1>19 DEF SaveFinal, ControlInv, WorkTyped, TaskTyped, List, Final, Steps
  <2>2. artifact' \in [Runs -> [Steps -> List]]
    BY <1>19, <2>1 DEF SaveFinal, DiskTyped
  <2> QED
    BY <1>19, <2>2 DEF SaveFinal, DiskTyped
<1>20. CASE Compile
  BY <1>20 DEF Compile, Begin, disk, DiskTyped, TaskTyped, ControlInv
<1>21. CASE StepFails
  BY <1>21 DEF StepFails, Begin, disk, DiskTyped, TaskTyped, ControlInv
<1>22. CASE Crash
  BY <1>22 DEF Crash, Begin, disk, DiskTyped, TaskTyped, ControlInv
<1>23. CASE RequestStop
  BY <1>23 DEF RequestStop, Begin, disk, DiskTyped, TaskTyped, ControlInv
<1>24. ASSUME NEW u \in Pages, Edit(u) PROVE DiskTyped'
  BY <1>24 DEF Edit, Begin, disk, DiskTyped, TaskTyped, ControlInv
<1>25. CASE UNCHANGED vars
  BY <1>25 DEF vars, disk, DiskTyped
<1> QED
  BY <1>1, <1>2, <1>3, <1>4, <1>5, <1>6, <1>7, <1>8, <1>9, <1>10, <1>11, <1>12,
     <1>13, <1>14, <1>15, <1>16, <1>17, <1>18, <1>19, <1>20, <1>21, <1>22, <1>23, <1>24,
     <1>25
  DEF Next, Step

LEMMA TaskSteps == ASSUME TypingInv, [Next]_vars PROVE TaskTyped'
<1> USE DEF TypingInv, TypeInv
<1>1. CASE BeginVpn
  BY <1>1 DEF BeginVpn, Begin, TaskTyped, Steps, Outcomes
<1>2. CASE BeginLocal
  BY <1>2 DEF BeginLocal, Begin, Ends, DiskTyped, TaskTyped, Steps, Outcomes
<1>3. CASE BeginCompare
  BY <1>3 DEF BeginCompare, Begin, Ends, DiskTyped, TaskTyped, Steps, Outcomes
<1>4. CASE BeginVerify
  BY <1>4 DEF BeginVerify, Begin, Ends, DiskTyped, TaskTyped, Steps, Outcomes
<1>5. CASE PointAtRun
  BY <1>5 DEF PointAtRun, TaskTyped, Steps, Outcomes
<1>6. CASE Fetch
  BY <1>6 DEF Fetch, Ends, TaskTyped, Steps, Outcomes
<1>7. CASE SaveList
  BY <1>7 DEF SaveList, Ends, TaskTyped, Steps, Outcomes
<1>8. CASE RecordStep
  BY <1>8 DEF RecordStep, Return, TaskTyped, Steps, Outcomes
<1>9. CASE Publish
  BY <1>9 DEF Publish, Return, TaskTyped, Steps, Outcomes
<1>10. CASE Prune
  BY <1>10 DEF Prune, TaskTyped, Steps, Outcomes
<1>11. CASE OpenBrowser
  BY <1>11 DEF OpenBrowser, TaskTyped, Steps, Outcomes
<1>12. CASE LoadCheckpoint
  BY <1>12 DEF LoadCheckpoint, Ends, TaskTyped, Steps, Outcomes
<1>13. CASE FirstCheckpoint
  BY <1>13 DEF FirstCheckpoint, Keep, TaskTyped, Steps, Outcomes
<1>14. CASE NextRound
  BY <1>14 DEF NextRound, Ends, TaskTyped, Steps, Outcomes
<1>15. CASE NextBatch
  BY <1>15 DEF NextBatch, TaskTyped, Steps, Outcomes
<1>16. CASE Visit
  BY <1>16 DEF Visit, TaskTyped, Steps, Outcomes
<1>17. CASE KeepBatch
  BY <1>17 DEF KeepBatch, Keep, TaskTyped, Steps, Outcomes
<1>18. CASE Halt
  BY <1>18 DEF Halt, Keep, Ends, TaskTyped, Steps, Outcomes
<1>19. CASE SaveFinal
  BY <1>19 DEF SaveFinal, Ends, TaskTyped, Steps, Outcomes
<1>20. CASE Compile
  BY <1>20 DEF Compile, Return, SetMaster, TaskTyped, Steps, Outcomes
<1>21. CASE StepFails
  BY <1>21 DEF StepFails, Ends, TaskTyped, Steps, Outcomes
<1>22. CASE Crash
  BY <1>22 DEF Crash, Return, TaskTyped, Steps, Outcomes
<1>23. CASE RequestStop
  BY <1>23 DEF RequestStop, TaskTyped, Steps, Outcomes
<1>24. ASSUME NEW u \in Pages, Edit(u) PROVE TaskTyped'
  BY <1>24 DEF Edit, SetMaster, TaskTyped, Steps, Outcomes
<1>25. CASE UNCHANGED vars
  BY <1>25 DEF vars, TaskTyped
<1> QED
  BY <1>1, <1>2, <1>3, <1>4, <1>5, <1>6, <1>7, <1>8, <1>9, <1>10, <1>11, <1>12,
     <1>13, <1>14, <1>15, <1>16, <1>17, <1>18, <1>19, <1>20, <1>21, <1>22, <1>23, <1>24,
     <1>25
  DEF Next, Step

LEMMA EmptyWork == NoVerdicts \in [Pages -> Found] /\ NoTries \in [Pages -> 0..MaxAttempts]
  BY DEF NoVerdicts, NoTries, Found

LEMMA ReturnIsTyped == Return => WorkTyped'
  BY EmptyWork DEF Return, WorkTyped

LEMMA WorkSteps == ASSUME TypingInv, [Next]_vars PROVE WorkTyped'
<1> USE DEF TypingInv, TypeInv
<1>1. CASE BeginVpn
  BY <1>1 DEF BeginVpn, work, WorkTyped
<1>2. CASE BeginLocal
  BY <1>2 DEF BeginLocal, work, WorkTyped
<1>3. CASE BeginCompare
  <2>1. active \in Runs /\ manifest[active] \in Manifest
    BY <1>3 DEF BeginCompare, DiskTyped, ControlInv
  <2>2. \A s \in {"vpn", "local"} : InOrder(active, s) => manifest[active].record[s] \subseteq Pages
    BY <2>1 DEF InOrder, Manifest, List, Steps
  <2>3. urls' \subseteq Pages
    BY <1>3, <2>2 DEF BeginCompare, WorkTyped
  <2> QED
    BY <1>3, <2>3 DEF BeginCompare, WorkTyped
<1>4. CASE BeginVerify
  <2>1. active \in Runs /\ manifest[active] \in Manifest
    BY <1>4 DEF BeginVerify, DiskTyped, ControlInv
  <2>2. InOrder(active, "compare") => manifest[active].record["compare"] \subseteq Pages
    BY <2>1 DEF InOrder, Manifest, List, Steps
  <2>3. urls' \subseteq Pages /\ known' \subseteq Pages
    BY <1>4, <2>2 DEF BeginVerify, WorkTyped
  <2> QED
    BY <1>4, <2>3 DEF BeginVerify, WorkTyped
<1>5. CASE PointAtRun
  BY <1>5 DEF PointAtRun, work, WorkTyped
<1>6. CASE Fetch
  <2>1. task \in {"vpn", "local"} /\ Online[task] \subseteq SUBSET Pages
    BY <1>6 DEF Fetch, ControlInv
  <2> QED
    BY <1>6, <2>1 DEF Fetch, WorkTyped
<1>7. CASE SaveList
  BY <1>7 DEF SaveList, Ends, work, WorkTyped
<1>8. CASE RecordStep
  BY <1>8, ReturnIsTyped DEF RecordStep, work, WorkTyped
<1>9. CASE Publish
  BY <1>9, ReturnIsTyped DEF Publish, work, WorkTyped
<1>10. CASE Prune
  BY <1>10 DEF Prune, work, WorkTyped
<1>11. CASE OpenBrowser
  BY <1>11 DEF OpenBrowser, work, WorkTyped
<1>12. CASE LoadCheckpoint
  <2>1. run \in Runs /\ checkpoint[run] \in Checkpoint \cup {NoFile}
    BY <1>12 DEF LoadCheckpoint, ControlInv, DiskTyped
  <2>2. checkpoint[run] \in Checkpoint => /\ checkpoint[run].verdict \in [Pages -> Found]
                                         /\ checkpoint[run].tries \in [Pages -> 0..MaxAttempts]
    BY DEF Checkpoint
  <2> QED
    BY <1>12, <2>1, <2>2, EmptyWork DEF LoadCheckpoint, WorkTyped
<1>13. CASE FirstCheckpoint
  BY <1>13 DEF FirstCheckpoint, Keep, work, WorkTyped
<1>14. CASE NextRound
  BY <1>14 DEF NextRound, Pending, WorkTyped
<1>15. CASE NextBatch
  BY <1>15 DEF NextBatch, WorkTyped
<1>16. CASE Visit
  <2>1. CASE stop
    BY <1>16, <2>1 DEF Visit, WorkTyped
  <2>2. CASE ~stop
    <3>1. PICK u \in batch, v \in Verdicts :
            /\ verdict' = [verdict EXCEPT ![u] = v]
            /\ tries' = Counted(tries, u) /\ batch' = batch \ {u}
      BY <1>16, <2>2 DEF Visit
    <3>2. u \in Pages /\ IsPending(verdict[u], tries[u])
      BY <1>16, <3>1 DEF Visit, WorkTyped, RoundInv
    <3>3. tries[u] \in 0..MaxAttempts /\ tries[u] < MaxAttempts
      BY <3>2 DEF IsPending, RoundInv, Untried, WorkTyped
    <3>4. verdict' \in [Pages -> Found]
      BY <3>1, <3>2 DEF WorkTyped, Found
    <3>5. tries' \in [Pages -> 0..MaxAttempts]
      BY <3>1, <3>2, <3>3 DEF Counted, WorkTyped
    <3> QED
      BY <1>16, <3>1, <3>4, <3>5 DEF Visit, WorkTyped
  <2> QED
    BY <2>1, <2>2
<1>17. CASE KeepBatch
  BY <1>17 DEF KeepBatch, Keep, work, WorkTyped
<1>18. CASE Halt
  BY <1>18 DEF Halt, Keep, Ends, work, WorkTyped
<1>19. CASE SaveFinal
  BY <1>19 DEF SaveFinal, Ends, work, WorkTyped
<1>20. CASE Compile
  BY <1>20, ReturnIsTyped DEF Compile
<1>21. CASE StepFails
  BY <1>21 DEF StepFails, Ends, work, WorkTyped
<1>22. CASE Crash
  BY <1>22, ReturnIsTyped DEF Crash
<1>23. CASE RequestStop
  BY <1>23 DEF RequestStop, work, WorkTyped
<1>24. ASSUME NEW u \in Pages, Edit(u) PROVE WorkTyped'
  BY <1>24 DEF Edit, SetMaster, work, WorkTyped
<1>25. CASE UNCHANGED vars
  BY <1>25 DEF vars, work, WorkTyped
<1> QED
  BY <1>1, <1>2, <1>3, <1>4, <1>5, <1>6, <1>7, <1>8, <1>9, <1>10, <1>11, <1>12,
     <1>13, <1>14, <1>15, <1>16, <1>17, <1>18, <1>19, <1>20, <1>21, <1>22, <1>23, <1>24,
     <1>25
  DEF Next, Step

LEMMA WorldSteps == ASSUME TypingInv, [Next]_vars PROVE WorldTyped'
<1> USE DEF TypingInv, TypeInv
<1>1. CASE BeginVpn
  BY <1>1 DEF BeginVpn, Begin, list, seen, WorldTyped
<1>2. CASE BeginLocal
  BY <1>2 DEF BeginLocal, Begin, list, seen, WorldTyped
<1>3. CASE BeginCompare
  BY <1>3 DEF BeginCompare, Begin, list, seen, WorldTyped
<1>4. CASE BeginVerify
  BY <1>4 DEF BeginVerify, Begin, list, seen, WorldTyped
<1>5. CASE PointAtRun
  BY <1>5, EmptyWork DEF PointAtRun, list, NoTries, WorldTyped
<1>6. CASE Fetch
  BY <1>6 DEF Fetch, list, seen, WorldTyped
<1>7. CASE SaveList
  BY <1>7 DEF SaveList, list, seen, WorldTyped
<1>8. CASE RecordStep
  BY <1>8 DEF RecordStep, list, seen, WorldTyped
<1>9. CASE Publish
  BY <1>9 DEF Publish, list, seen, WorldTyped
<1>10. CASE Prune
  BY <1>10 DEF Prune, list, seen, WorldTyped
<1>11. CASE OpenBrowser
  BY <1>11 DEF OpenBrowser, list, seen, WorldTyped
<1>12. CASE LoadCheckpoint
  BY <1>12 DEF LoadCheckpoint, list, seen, WorldTyped
<1>13. CASE FirstCheckpoint
  BY <1>13 DEF FirstCheckpoint, list, seen, WorldTyped
<1>14. CASE NextRound
  BY <1>14 DEF NextRound, list, seen, WorldTyped
<1>15. CASE NextBatch
  BY <1>15 DEF NextBatch, list, seen, WorldTyped
<1>16. CASE Visit
  <2>1. CASE stop
    BY <1>16, <2>1 DEF Visit, list, seen, WorldTyped
  <2>2. CASE ~stop
    <3>1. PICK u \in batch, v \in Verdicts :
            /\ last' = [last EXCEPT ![u] = v] /\ visits' = [visits EXCEPT ![u] = visits[u] + 1]
      BY <1>16, <2>2 DEF Visit
    <3>2. last' \in [Pages -> Found]
      BY <3>1 DEF Found, WorldTyped
    <3>3. visits' \in [Pages -> Nat]
      BY <3>1 DEF WorldTyped, WorkTyped
    <3> QED
      BY <1>16, <3>2, <3>3 DEF Visit, list, WorldTyped
  <2> QED
    BY <2>1, <2>2
<1>17. CASE KeepBatch
  BY <1>17 DEF KeepBatch, list, seen, WorldTyped
<1>18. CASE Halt
  BY <1>18 DEF Halt, list, seen, WorldTyped
<1>19. CASE SaveFinal
  BY <1>19 DEF SaveFinal, list, seen, WorldTyped
<1>20. CASE Compile
  <2>1. view["verify"] \in List
    BY ViewIsList DEF Steps
  <2> QED
    BY <1>20, <2>1, CompiledArePages DEF Compile, SetMaster, seen, WorldTyped
<1>21. CASE StepFails
  BY <1>21 DEF StepFails, list, seen, WorldTyped
<1>22. CASE Crash
  BY <1>22 DEF Crash, list, seen, WorldTyped
<1>23. CASE RequestStop
  BY <1>23 DEF RequestStop, list, seen, WorldTyped
<1>24. ASSUME NEW u \in Pages, Edit(u) PROVE WorldTyped'
  <2>1. view["verify"] \in List
    BY ViewIsList DEF Steps
  <2>2. shelf' \subseteq Pages /\ banned' \subseteq Pages
    BY <1>24 DEF Edit, WorldTyped
  <2>3. master' \subseteq Pages
    BY <1>24, <2>1, <2>2, CompiledArePages DEF Edit, SetMaster, WorldTyped
  <2> QED
    BY <1>24, <2>2, <2>3 DEF Edit, seen, WorldTyped
<1>25. CASE UNCHANGED vars
  BY <1>25 DEF vars, list, seen, WorldTyped
<1> QED
  BY <1>1, <1>2, <1>3, <1>4, <1>5, <1>6, <1>7, <1>8, <1>9, <1>10, <1>11, <1>12,
     <1>13, <1>14, <1>15, <1>16, <1>17, <1>18, <1>19, <1>20, <1>21, <1>22, <1>23, <1>24,
     <1>25
  DEF Next, Step

LEMMA FlagSteps == ASSUME TypingInv, [Next]_vars PROVE FlagsTyped'
<1> USE DEF TypingInv, TypeInv
<1>1. CASE BeginVpn
  BY <1>1 DEF BeginVpn, Begin, FlagsTyped
<1>2. CASE BeginLocal
  BY <1>2 DEF BeginLocal, Begin, FlagsTyped
<1>3. CASE BeginCompare
  BY <1>3 DEF BeginCompare, Begin, FlagsTyped
<1>4. CASE BeginVerify
  BY <1>4 DEF BeginVerify, Begin, FlagsTyped
<1>5. CASE PointAtRun
  BY <1>5 DEF PointAtRun, FlagsTyped
<1>6. CASE Fetch
  BY <1>6 DEF Fetch, FlagsTyped
<1>7. CASE SaveList
  <2>1. moved' \in BOOLEAN
    BY <1>7 DEF SaveList
  <2> QED
    BY <1>7, <2>1 DEF SaveList, FlagsTyped
<1>8. CASE RecordStep
  BY <1>8 DEF RecordStep, FlagsTyped
<1>9. CASE Publish
  BY <1>9 DEF Publish, FlagsTyped
<1>10. CASE Prune
  BY <1>10 DEF Prune, FlagsTyped
<1>11. CASE OpenBrowser
  BY <1>11 DEF OpenBrowser, FlagsTyped
<1>12. CASE LoadCheckpoint
  BY <1>12 DEF LoadCheckpoint, FlagsTyped
<1>13. CASE FirstCheckpoint
  BY <1>13 DEF FirstCheckpoint, FlagsTyped
<1>14. CASE NextRound
  BY <1>14 DEF NextRound, FlagsTyped
<1>15. CASE NextBatch
  BY <1>15 DEF NextBatch, FlagsTyped
<1>16. CASE Visit
  BY <1>16 DEF Visit, FlagsTyped
<1>17. CASE KeepBatch
  BY <1>17 DEF KeepBatch, FlagsTyped
<1>18. CASE Halt
  BY <1>18 DEF Halt, FlagsTyped
<1>19. CASE SaveFinal
  BY <1>19 DEF SaveFinal, FlagsTyped
<1>20. CASE Compile
  <2>1. moved' \in BOOLEAN
    BY <1>20 DEF Compile, SetMaster
  <2> QED
    BY <1>20, <2>1 DEF Compile, FlagsTyped
<1>21. CASE StepFails
  BY <1>21 DEF StepFails, FlagsTyped
<1>22. CASE Crash
  BY <1>22 DEF Crash, FlagsTyped
<1>23. CASE RequestStop
  BY <1>23 DEF RequestStop, FlagsTyped
<1>24. ASSUME NEW u \in Pages, Edit(u) PROVE FlagsTyped'
  <2>1. moved' \in BOOLEAN
    BY <1>24 DEF Edit, SetMaster
  <2> QED
    BY <1>24, <2>1 DEF Edit, FlagsTyped
<1>25. CASE UNCHANGED vars
  BY <1>25 DEF vars, FlagsTyped
<1> QED
  BY <1>1, <1>2, <1>3, <1>4, <1>5, <1>6, <1>7, <1>8, <1>9, <1>10, <1>11, <1>12,
     <1>13, <1>14, <1>15, <1>16, <1>17, <1>18, <1>19, <1>20, <1>21, <1>22, <1>23, <1>24,
     <1>25
  DEF Next, Step

LEMMA RoundSteps == ASSUME TypingInv, [Next]_vars PROVE RoundInv'
<1> USE DEF TypingInv, TypeInv, RoundInv, Preparing
<1>1. CASE BeginVpn
  BY <1>1 DEF BeginVpn, Begin, disk, work
<1>2. CASE BeginLocal
  BY <1>2 DEF BeginLocal, Begin, Ends, disk, work
<1>3. CASE BeginCompare
  <2>1. round = {} /\ batch = {}
    BY <1>3 DEF BeginCompare, Begin
  <2> QED
    BY <1>3, <2>1 DEF BeginCompare, Begin, Ends, disk
<1>4. CASE BeginVerify
  <2>1. round = {} /\ batch = {}
    BY <1>4 DEF BeginVerify, Begin
  <2> QED
    BY <1>4, <2>1 DEF BeginVerify, Begin, Ends, disk
<1>5. CASE PointAtRun
  BY <1>5 DEF PointAtRun, disk, work
<1>6. CASE Fetch
  <2>1. round = {} /\ batch = {}
    BY <1>6 DEF Fetch, Begin
  <2> QED
    BY <1>6, <2>1 DEF Fetch, Begin, Ends, disk
<1>7. CASE SaveList
  BY <1>7 DEF SaveList, Ends, disk, work
<1>8. CASE RecordStep
  <2>1. CASE outcome = "succeeded"
    BY <1>8, <2>1 DEF RecordStep, work
  <2>2. CASE Return
    BY <1>8, <2>2 DEF RecordStep, Return, NoVerdicts, NoTries, Untried
  <2> QED
    BY <1>8, <2>1, <2>2 DEF RecordStep
<1>9. CASE Publish
  <2>1. CASE task = "verify"
    BY <1>9, <2>1 DEF Publish, work
  <2>2. CASE Return
    BY <1>9, <2>2 DEF Publish, Return, NoVerdicts, NoTries, Untried
  <2> QED
    BY <1>9, <2>1, <2>2 DEF Publish
<1>10. CASE Prune
  <2>1. run \in Runs
    BY <1>10 DEF Prune, ControlInv
  <2>2. checkpoint[run] # NoFile => Untried(Pruned(checkpoint[run], urls).verdict,
                                            Pruned(checkpoint[run], urls).tries)
    BY <2>1 DEF Pruned, Untried
  <2>3. \A r \in Runs : checkpoint'[r] # NoFile =>
          Untried(checkpoint'[r].verdict, checkpoint'[r].tries)
    BY <1>10, <2>1, <2>2 DEF Prune, Prunable, DiskTyped
  <2> QED
    BY <1>10, <2>3 DEF Prune, work
<1>11. CASE OpenBrowser
  BY <1>11 DEF OpenBrowser, disk, work
<1>12. CASE LoadCheckpoint
  <2>1. run \in Runs
    BY <1>12 DEF LoadCheckpoint, ControlInv
  <2>2. Untried(verdict', tries')
    BY <1>12, <2>1 DEF LoadCheckpoint, NoVerdicts, NoTries, Untried
  <2> QED
    BY <1>12, <2>2 DEF LoadCheckpoint, Ends, disk
<1>13. CASE FirstCheckpoint
  <2>1. run \in Runs
    BY <1>13 DEF FirstCheckpoint, ControlInv
  <2>2. \A r \in Runs : checkpoint'[r] # NoFile =>
          Untried(checkpoint'[r].verdict, checkpoint'[r].tries)
    BY <1>13, <2>1, KeepsCheckpoint DEF FirstCheckpoint
  <2> QED
    BY <1>13, <2>2 DEF FirstCheckpoint, Ends, work
<1>14. CASE NextRound
  <2>1. \A u \in round' : u \in urls /\ IsPending(verdict[u], tries[u])
    BY <1>14 DEF NextRound, Pending
  <2> QED
    BY <1>14, <2>1 DEF NextRound, Ends, disk
<1>15. CASE NextBatch
  BY <1>15 DEF NextBatch, disk
<1>16. CASE Visit
  <2>1. CASE stop
    BY <1>16, <2>1 DEF Visit, disk
  <2>2. CASE ~stop
    <3>1. PICK u \in batch, v \in Verdicts :
            /\ verdict' = [verdict EXCEPT ![u] = v] /\ tries' = Counted(tries, u)
            /\ batch' = batch \ {u} /\ pc' = IF batch' = {} THEN "keep" ELSE "visit"
      BY <1>16, <2>2 DEF Visit
    <3>2. \A w \in Pages \ {u} : verdict'[w] = verdict[w] /\ tries'[w] = tries[w]
      BY <3>1 DEF WorkTyped, Counted
    <3>3. verdict'[u] # "none"
      BY <3>1 DEF WorkTyped, Verdicts
    <3>4. Untried(verdict', tries')
      BY <3>2, <3>3 DEF Untried
    <3>5. u \notin round /\ pc = "visit"
      BY <1>16, <3>1 DEF Visit
    <3>6. /\ \A w \in round : IsPending(verdict'[w], tries'[w])
          /\ \A w \in batch' : IsPending(verdict'[w], tries'[w])
      BY <3>1, <3>2, <3>5 DEF WorkTyped
    <3> QED
      BY <1>16, <2>2, <3>1, <3>4, <3>6 DEF Visit, disk
  <2> QED
    BY <2>1, <2>2
<1>17. CASE KeepBatch
  <2>1. run \in Runs
    BY <1>17 DEF KeepBatch, ControlInv
  <2>2. \A r \in Runs : checkpoint'[r] # NoFile =>
          Untried(checkpoint'[r].verdict, checkpoint'[r].tries)
    BY <1>17, <2>1, KeepsCheckpoint DEF KeepBatch
  <2> QED
    BY <1>17, <2>2 DEF KeepBatch, Ends, work
<1>18. CASE Halt
  <2>1. run \in Runs
    BY <1>18 DEF Halt, ControlInv
  <2>2. \A r \in Runs : checkpoint'[r] # NoFile =>
          Untried(checkpoint'[r].verdict, checkpoint'[r].tries)
    BY <1>18, <2>1, KeepsCheckpoint DEF Halt
  <2> QED
    BY <1>18, <2>2 DEF Halt, Ends, work
<1>19. CASE SaveFinal
  BY <1>19 DEF SaveFinal, Ends, disk, work
<1>20. CASE Compile
  <2>1. pc' = "idle" /\ urls' = {} /\ round' = {} /\ batch' = {} /\ Untried(verdict', tries')
    BY <1>20 DEF Compile, Return, NoVerdicts, NoTries, Untried
  <2> QED
    BY <1>20, <2>1 DEF Compile, disk
<1>21. CASE StepFails
  BY <1>21 DEF StepFails, Ends, disk, work
<1>22. CASE Crash
  <2>1. pc' = "idle" /\ urls' = {} /\ round' = {} /\ batch' = {} /\ Untried(verdict', tries')
    BY <1>22 DEF Crash, Return, NoVerdicts, NoTries, Untried
  <2> QED
    BY <1>22, <2>1 DEF Crash, disk
<1>23. CASE RequestStop
  BY <1>23 DEF RequestStop, disk, work
<1>24. ASSUME NEW u \in Pages, Edit(u) PROVE RoundInv'
  BY <1>24 DEF Edit, SetMaster, disk, work
<1>25. CASE UNCHANGED vars
  BY <1>25 DEF vars, disk, work
<1> QED
  BY <1>1, <1>2, <1>3, <1>4, <1>5, <1>6, <1>7, <1>8, <1>9, <1>10, <1>11, <1>12,
     <1>13, <1>14, <1>15, <1>16, <1>17, <1>18, <1>19, <1>20, <1>21, <1>22, <1>23, <1>24,
     <1>25
  DEF Next, Step

LEMMA InitTyping == Init => TypingInv
<1> SUFFICES ASSUME Init PROVE TypingInv
  OBVIOUS
<1>1. DiskTyped
  BY DEF Init, DiskTyped, List
<1>2. TaskTyped
  BY DEF Init, TaskTyped, Steps, Outcomes
<1>3. WorkTyped
  BY EmptyWork DEF Init, WorkTyped
<1>4. WorldTyped
  BY EmptyWork DEF Init, WorldTyped, NoTries
<1>5. FlagsTyped
  BY DEF Init, FlagsTyped
<1>6. ControlInv
  BY DEF Init, ControlInv, Preparing, Judging
<1>7. RoundInv
  BY DEF Init, RoundInv, Untried, NoVerdicts, NoTries
<1> QED
  BY <1>1, <1>2, <1>3, <1>4, <1>5, <1>6, <1>7 DEF TypingInv, TypeInv

LEMMA TypingSteps == ASSUME TypingInv, [Next]_vars PROVE TypingInv'
  BY ControlSteps, DiskSteps, TaskSteps, WorkSteps, WorldSteps, FlagSteps, RoundSteps
  DEF TypingInv, TypeInv

\* The files of a run, what a step holds and what it is doing are well formed,
\* and no page is tried more often than the budget says, in every reachable
\* state (the steps of CTBRunner, prune_checkpoint, ChaturbateVerifier.verify).
THEOREM Typing == Spec => []TypeOK
<1>1. TypingInv => TypeOK
  BY DEF TypingInv, TypeInv, DiskTyped, TaskTyped, WorkTyped, WorldTyped, FlagsTyped, TypeOK
<1> QED
  BY <1>1, InitTyping, TypingSteps, PTL DEF Spec

-----------------------------------------------------------------------------
(* The candidates.                                                         *)

\* Step 4 works on what the comparison found, and its checkpoint on no more
\* and no less, as long as candidates only left for the master list and the
\* checkpoint was read when it had to be pruned.
CandidateInv ==
  /\ pc \in Preparing \cup Judging =>
       /\ view["compare"] # NoFile
       /\ urls = view["compare"] \ master /\ known = view["compare"] \cap master
       /\ artifact[run]["compare"] = view["compare"]
  /\ Underway /\ ~moved =>
       /\ view["compare"] # NoFile /\ artifact[active]["compare"] = view["compare"]
       /\ view["compare"] \ master \subseteq checkpoint[active].urls
       /\ checkpoint[active].urls \subseteq view["compare"]
  /\ Underway /\ ~moved /\ ~missed /\ pc \in {"browser", "load"} /\ known # {} =>
       checkpoint[active].urls = urls
  /\ outcome = "mismatch" => (moved \/ missed) /\ pc # "point"


LEMMA CandidateSteps == ASSUME TypingInv, CandidateInv, [Next]_vars PROVE CandidateInv'
<1> USE DEF TypingInv, TypeInv, CandidateInv, Underway, Preparing, Judging
<1>1. CASE BeginVpn
  BY <1>1 DEF BeginVpn, Begin, list, work
<1>2. CASE BeginLocal
  BY <1>2 DEF BeginLocal, Begin, Ends, disk, list, work
<1>3. CASE BeginCompare
  BY <1>3 DEF BeginCompare, Begin, Ends, disk, list
<1>4. CASE BeginVerify
  <2>1. CASE pc' \in Preparing
    <3>1. /\ view["compare"] # NoFile /\ urls' = view["compare"] \ master
          /\ known' = view["compare"] \cap master
          /\ artifact[active]["compare"] = view["compare"]
      BY <1>4, <2>1 DEF BeginVerify, Ends, InOrder
    <3>2. pc' = "browser" => known' = {}
      BY <1>4, <2>1 DEF BeginVerify, Ends
    <3>3. outcome' # "mismatch" /\ pc' \in {"prune", "browser"}
      BY <1>4, <2>1 DEF BeginVerify, Ends
    <3> QED
      BY <1>4, <3>1, <3>2, <3>3 DEF BeginVerify, Begin, disk, list
  <2>2. CASE pc' = "record" /\ outcome' = "failed"
    BY <1>4, <2>2 DEF BeginVerify, Begin, disk, list
  <2> QED
    BY <1>4, <2>1, <2>2 DEF BeginVerify, Ends
<1>5. CASE PointAtRun
  <2>1. checkpoint[run] = NoFile /\ outcome' # "mismatch"
    BY <1>5 DEF PointAtRun, ControlInv
  <2> QED
    BY <1>5, <2>1 DEF PointAtRun
<1>6. CASE Fetch
  BY <1>6 DEF Fetch, Ends, list
<1>7. CASE SaveList
  <2>1. active = run /\ run \in Runs /\ task \in Steps /\ pc' = "record" /\ outcome' = "succeeded"
    BY <1>7 DEF SaveList, ControlInv, Ends, TaskTyped
  <2>2. CASE Underway /\ ~moved'
    <3>1. ~moved /\ (task = "compare" => artifact[run][task] = urls)
      BY <1>7, <2>2 DEF SaveList
    <3>2. artifact'[active]["compare"] = artifact[active]["compare"]
      BY <1>7, <2>1, <3>1 DEF SaveList, DiskTyped, Steps
    <3> QED
      BY <1>7, <2>1, <2>2, <3>1, <3>2 DEF SaveList, list
  <2>3. CASE ~(Underway /\ ~moved')
    BY <1>7, <2>1, <2>3 DEF SaveList
  <2> QED
    BY <2>2, <2>3
<1>8. CASE RecordStep
  <2>1. /\ pc' \in {"publish", "idle"}
        /\ UNCHANGED <<active, checkpoint, view, artifact, master, moved, missed, outcome>>
    BY <1>8 DEF RecordStep, Return, list
  <2> QED
    BY <2>1
<1>9. CASE Publish
  <2>1. active = run /\ run \in Runs /\ pc' \in {"compile", "idle"}
    BY <1>9 DEF Publish, ControlInv, Return
  <2>2. task = "compare" => view'["compare"] = artifact[run]["compare"]
    BY <1>9 DEF Publish, DiskTyped, TaskTyped
  <2>3. task # "compare" => view'["compare"] = view["compare"]
    BY <1>9 DEF Publish, DiskTyped, Steps
  <2>4. UNCHANGED <<active, checkpoint, artifact, master, moved, missed, outcome>>
    BY <1>9 DEF Publish, list
  <2> QED
    BY <2>1, <2>2, <2>3, <2>4
<1>10. CASE Prune
  <2>1. active = run /\ run \in Runs
    BY <1>10 DEF Prune, ControlInv
  <2>2. CASE UNCHANGED checkpoint /\ missed'
    BY <1>10, <2>1, <2>2 DEF Prune, list, work
  <2>3. CASE /\ UNCHANGED missed
             /\ checkpoint' = IF Prunable(checkpoint[run], urls)
                               THEN [checkpoint EXCEPT ![run] = Pruned(@, urls)] ELSE checkpoint
    <3>1. CASE Underway /\ ~moved
      <4>1. checkpoint[run] # NoFile /\ urls \subseteq checkpoint[run].urls
        BY <1>10, <2>1, <3>1 DEF Prune
      <4>2. checkpoint'[run].urls = urls
        BY <2>1, <2>3, <4>1 DEF Prunable, Pruned, DiskTyped
      <4> QED
        BY <1>10, <2>1, <2>3, <3>1, <4>2 DEF Prune, list, work
    <3>2. CASE ~Underway \/ moved
      <4>1. ~Underway' \/ moved'
        BY <1>10, <2>1, <2>3, <3>2 DEF Prune, Prunable
      <4> QED
        BY <1>10, <2>3, <4>1 DEF Prune, list, work
    <3> QED
      BY <3>1, <3>2
  <2> QED
    BY <1>10, <2>2, <2>3 DEF Prune
<1>11. CASE OpenBrowser
  BY <1>11 DEF OpenBrowser, disk, list, work, seen
<1>12. CASE LoadCheckpoint
  <2>1. active = run /\ active # NoFile
    BY <1>12 DEF LoadCheckpoint, ControlInv
  <2>2. CASE outcome' = "mismatch"
    <3>1. moved \/ missed
      <4>1. SUFFICES ASSUME ~moved, ~missed PROVE FALSE
        OBVIOUS
      <4>2. checkpoint[run] # NoFile /\ checkpoint[run].urls # urls
        BY <1>12, <2>2, <4>1 DEF LoadCheckpoint
      <4>3. CASE known # {}
        BY <1>12, <2>1, <4>1, <4>2, <4>3 DEF LoadCheckpoint
      <4>4. CASE known = {}
        <5>1. urls = view["compare"] \ master /\ view["compare"] \cap master = {}
          BY <1>12, <4>4 DEF LoadCheckpoint
        <5>2. urls = view["compare"]
          BY <5>1
        <5>3. urls \subseteq checkpoint[run].urls /\ checkpoint[run].urls \subseteq urls
          BY <2>1, <4>1, <4>2, <5>1, <5>2
        <5> QED
          BY <4>2, <5>3
      <4> QED
        BY <4>3, <4>4
    <3> QED
      BY <1>12, <3>1 DEF LoadCheckpoint, Ends, disk, list
  <2>3. CASE outcome' # "mismatch"
    BY <1>12, <2>3 DEF LoadCheckpoint, Ends, disk, list
  <2> QED
    BY <2>2, <2>3
<1>13. CASE FirstCheckpoint
  <2>1. active = run /\ run \in Runs
    BY <1>13 DEF FirstCheckpoint, ControlInv
  <2>2. checkpoint'[run].urls = urls
    BY <1>13, <2>1, KeepsCheckpoint DEF FirstCheckpoint
  <2>3. /\ view["compare"] # NoFile /\ urls = view["compare"] \ master
        /\ known = view["compare"] \cap master /\ artifact[run]["compare"] = view["compare"]
    BY <1>13 DEF FirstCheckpoint
  <2> QED
    BY <1>13, <2>1, <2>2, <2>3 DEF FirstCheckpoint, Ends, list, work
<1>14. CASE NextRound
  BY <1>14 DEF NextRound, Ends, disk, list, work, seen
<1>15. CASE NextBatch
  BY <1>15 DEF NextBatch, disk, list, work, seen
<1>16. CASE Visit
  BY <1>16 DEF Visit, disk, list, work, seen
<1>17. CASE KeepBatch
  <2>1. active = run /\ run \in Runs
    BY <1>17 DEF KeepBatch, ControlInv
  <2>2. checkpoint'[run].urls = urls
    BY <1>17, <2>1, KeepsCheckpoint DEF KeepBatch
  <2>3. /\ view["compare"] # NoFile /\ urls = view["compare"] \ master
        /\ known = view["compare"] \cap master /\ artifact[run]["compare"] = view["compare"]
    BY <1>17 DEF KeepBatch
  <2> QED
    BY <1>17, <2>1, <2>2, <2>3 DEF KeepBatch, Ends, list, work
<1>18. CASE Halt
  <2>1. active = run /\ run \in Runs
    BY <1>18 DEF Halt, ControlInv
  <2>2. checkpoint'[run].urls = urls
    BY <1>18, <2>1, KeepsCheckpoint DEF Halt
  <2>3. /\ view["compare"] # NoFile /\ urls = view["compare"] \ master
        /\ known = view["compare"] \cap master /\ artifact[run]["compare"] = view["compare"]
    BY <1>18 DEF Halt
  <2> QED
    BY <1>18, <2>1, <2>2, <2>3 DEF Halt, Ends, list, work
<1>19. CASE SaveFinal
  <2>1. active = run /\ run \in Runs
    BY <1>19 DEF SaveFinal, ControlInv
  <2>2. artifact'[run]["compare"] = artifact[run]["compare"]
    BY <1>19, <2>1 DEF SaveFinal, DiskTyped, Steps
  <2> QED
    BY <1>19, <2>1, <2>2 DEF SaveFinal, Ends, list
<1>20. CASE Compile
  <2>1. UNCHANGED <<active, checkpoint, view, artifact, outcome, missed>> /\ pc' = "idle"
    BY <1>20 DEF Compile, Return, disk
  <2>2. PICK m : SetMaster(m)
    BY <1>20 DEF Compile
  <2>3. ~moved' /\ Underway => ~moved /\ master \subseteq master'
    BY <2>2 DEF SetMaster
  <2>4. moved => moved'
    BY <2>2 DEF SetMaster
  <2> QED
    BY <2>1, <2>3, <2>4
<1>21. CASE StepFails
  BY <1>21 DEF StepFails, Ends, disk, list, work
<1>22. CASE Crash
  BY <1>22 DEF Crash, Return, disk, list
<1>23. CASE RequestStop
  BY <1>23 DEF RequestStop, disk, list, work, seen
<1>24. ASSUME NEW u \in Pages, Edit(u) PROVE CandidateInv'
  <2>1. UNCHANGED <<active, checkpoint, view, artifact, outcome, missed>> /\ pc' = "idle"
    BY <1>24 DEF Edit, Return, disk
  <2>2. PICK m : SetMaster(m)
    BY <1>24 DEF Edit
  <2>3. ~moved' /\ Underway => ~moved /\ master \subseteq master'
    BY <2>2 DEF SetMaster
  <2>4. moved => moved'
    BY <2>2 DEF SetMaster
  <2> QED
    BY <2>1, <2>3, <2>4
<1>25. CASE UNCHANGED vars
  BY <1>25 DEF vars, disk, list, work
<1> QED
  BY <1>1, <1>2, <1>3, <1>4, <1>5, <1>6, <1>7, <1>8, <1>9, <1>10, <1>11, <1>12,
     <1>13, <1>14, <1>15, <1>16, <1>17, <1>18, <1>19, <1>20, <1>21, <1>22, <1>23, <1>24,
     <1>25
  DEF Next, Step

\* Step 4 refuses its own checkpoint only after candidates changed otherwise
\* than by joining the master list, or in an attempt that could not read the
\* checkpoint it had to prune (verify_candidates, prune_checkpoint and the
\* fingerprint of ChaturbateVerifier), wherever the step was cut short before.
THEOREM Resuming == Spec => []ResumeFits
<1>1. Init => CandidateInv
  BY DEF Init, CandidateInv, Underway, Preparing, Judging
<1>2. CandidateInv => ResumeFits
  BY DEF CandidateInv, ResumeFits
<1> QED
  BY <1>1, <1>2, InitTyping, TypingSteps, CandidateSteps, PTL DEF Spec

-----------------------------------------------------------------------------
(* The verdicts.                                                           *)

\* A verdict is the last one, or the page will be looked at again.
Current(vs, ns, u) == vs[u] = last[u] \/ IsPending(vs[u], ns[u])

\* Between two verifications: what the checkpoint says of its candidates.
AtRest ==
  Underway => \A u \in checkpoint[active].urls :
    /\ visits[u] <= checkpoint[active].tries[u] + Losses
    /\ Current(checkpoint[active].verdict, checkpoint[active].tries, u)

\* While pages are judged: what the step holds, and how far that is from the
\* checkpoint.
Kept(u) == /\ tries[u] = checkpoint[run].tries[u]
           /\ verdict[u] = checkpoint[run].verdict[u]
Ahead(u) == /\ pc \in {"visit", "keep", "halt"} /\ u \notin round \cup batch
            /\ tries[u] = checkpoint[run].tries[u] + 1
            /\ IsPending(checkpoint[run].verdict[u], checkpoint[run].tries[u])
InHand ==
  /\ checkpoint[run] # NoFile /\ checkpoint[run].urls = urls
  /\ \A u \in urls : /\ visits[u] <= tries[u] + Losses
                     /\ Current(verdict, tries, u)
                     /\ Kept(u) \/ Ahead(u)

Bounded == \A u \in Pages : visits[u] <= MaxAttempts + Losses

VerdictInv ==
  /\ pc = "fresh" => checkpoint[run] = NoFile /\ verdict = NoVerdicts /\ tries = NoTries
  /\ ~Underway => visits = NoTries /\ last = NoVerdicts
  /\ Bounded
  /\ pc \notin Judging => AtRest
  /\ pc \in Judging => InHand
  /\ pc = "final" => Pending(urls, verdict, tries) = {} /\ Unreached(urls, verdict) = {}
  /\ FinalIsLastVerdict

LEMMA LossesCount == ASSUME TypingInv PROVE Losses \in Nat
  BY DEF TypingInv, TypeInv, WorldTyped, Losses

LEMMA CheckpointTyped ==
  ASSUME TypingInv, NEW r \in Runs, checkpoint[r] # NoFile
  PROVE  /\ checkpoint[r].urls \subseteq Pages
         /\ checkpoint[r].verdict \in [Pages -> Found]
         /\ checkpoint[r].tries \in [Pages -> 0..MaxAttempts]
  BY DEF TypingInv, TypeInv, DiskTyped, Checkpoint

\* Nothing is looked at and no checkpoint is written.
LEMMA StaysAtRest ==
  ASSUME TypingInv, TypingInv', VerdictInv, pc \notin Judging, pc' \notin Judging,
         pc' # "fresh", UNCHANGED <<active, checkpoint, last, visits>>,
         Losses' >= Losses, FinalIsLastVerdict'
  PROVE  VerdictInv'
<1>1. Losses \in Nat /\ Losses' \in Nat /\ visits \in [Pages -> Nat]
  BY LossesCount DEF TypingInv, TypeInv, WorldTyped, Losses
<1>2. Bounded'
  BY <1>1 DEF VerdictInv, Bounded, Losses
<1>3. AtRest'
  <2> SUFFICES ASSUME Underway, NEW u \in checkpoint[active].urls
      PROVE  /\ visits[u] <= checkpoint[active].tries[u] + Losses'
             /\ Current(checkpoint[active].verdict, checkpoint[active].tries, u)
    BY DEF AtRest, Underway, Current
  <2>1. active \in Runs /\ checkpoint[active] # NoFile
    BY DEF Underway, TypingInv, TypeInv, DiskTyped
  <2>2. u \in Pages /\ checkpoint[active].tries[u] \in Nat
    BY <2>1, CheckpointTyped
  <2>3. visits[u] <= checkpoint[active].tries[u] + Losses
    BY DEF VerdictInv, AtRest
  <2>4. Current(checkpoint[active].verdict, checkpoint[active].tries, u)
    BY DEF VerdictInv, AtRest
  <2> QED
    BY <1>1, <2>2, <2>3, <2>4
<1> QED
  BY <1>2, <1>3 DEF VerdictInv, Underway, Judging

\* The judging ends, by design or not; what was seen since the checkpoint and
\* is lost counts as a loss.
LEMMA LeavesJudging ==
  ASSUME TypingInv, TypingInv', VerdictInv, pc \in Judging, pc' \notin Judging,
         pc' # "fresh", UNCHANGED <<active, checkpoint, last, visits>>,
         \/ Losses' = Losses /\ pc \in {"rounds", "batch", "final"}
         \/ Losses' = Losses + 1,
         FinalIsLastVerdict'
  PROVE  VerdictInv'
<1>1. Losses \in Nat /\ Losses' \in Nat /\ visits \in [Pages -> Nat]
  BY LossesCount DEF TypingInv, TypeInv, WorldTyped, Losses
<1>2. Bounded'
  BY <1>1 DEF VerdictInv, Bounded, Losses
<1>3. active = run /\ run \in Runs /\ InHand
  BY DEF VerdictInv, TypingInv, ControlInv, Judging
<1>4. AtRest'
  <2> SUFFICES ASSUME NEW u \in checkpoint[run].urls
      PROVE  /\ visits[u] <= checkpoint[run].tries[u] + Losses'
             /\ Current(checkpoint[run].verdict, checkpoint[run].tries, u)
    BY <1>3 DEF AtRest, Underway, Current
  <2>1. checkpoint[run] # NoFile /\ u \in urls
    BY <1>3 DEF InHand
  <2>2. u \in Pages /\ checkpoint[run].tries[u] \in Nat
    BY <1>3, <2>1, CheckpointTyped
  <2>3. visits[u] <= tries[u] + Losses /\ Current(verdict, tries, u)
    BY <1>3, <2>1 DEF InHand
  <2>4. Kept(u) \/ Ahead(u)
    BY <1>3, <2>1 DEF InHand
  <2>5. CASE Kept(u)
    BY <1>1, <2>2, <2>3, <2>5 DEF Kept, Current
  <2>6. CASE Ahead(u)
    <3>1. Losses' = Losses + 1
      BY <2>6 DEF Ahead
    <3> QED
      BY <1>1, <2>2, <2>3, <2>6, <3>1 DEF Ahead, Current
  <2> QED
    BY <2>4, <2>5, <2>6
<1>5. Underway
  BY <1>3 DEF InHand, Underway
<1> QED
  BY <1>2, <1>4, <1>5 DEF VerdictInv, Underway, Judging

\* The judging goes on without a look or a write.
LEMMA KeepsJudging ==
  ASSUME TypingInv, VerdictInv, pc \in Judging, pc' \in Judging \ {"final"},
         UNCHANGED <<active, checkpoint, last, visits, run, urls, verdict, tries, Losses>>,
         \A u \in urls : Ahead(u) => Ahead(u)'
  PROVE  VerdictInv'
<1>1. InHand' /\ Underway'
  BY DEF VerdictInv, InHand, Kept, Current, Underway, TypingInv, ControlInv, Judging
<1> QED
  BY <1>1 DEF VerdictInv, Bounded, Losses, Judging, FinalIsLastVerdict

\* The checkpoint is written.
LEMMA KeepsAll ==
  ASSUME TypingInv, VerdictInv, pc \in Judging \cup {"fresh"}, Keep,
         UNCHANGED <<active, last, visits, run, urls, verdict, tries, Losses>>,
         pc' # "fresh", pc' # "final", FinalIsLastVerdict'
  PROVE  VerdictInv'
<1>1. active = run /\ run \in Runs
  BY DEF TypingInv, ControlInv, Judging, Preparing
<1>2. /\ checkpoint'[run] # NoFile /\ checkpoint'[run].urls = urls
      /\ checkpoint'[run].verdict = verdict /\ checkpoint'[run].tries = tries
  BY <1>1, KeepsCheckpoint
<1>3. ASSUME NEW u \in urls
      PROVE  visits[u] <= tries[u] + Losses /\ Current(verdict, tries, u)
  <2>1. CASE pc = "fresh"
    <3>1. visits = NoTries /\ last = NoVerdicts /\ verdict = NoVerdicts /\ tries = NoTries
      BY <1>1, <2>1 DEF VerdictInv, Underway
    <3>2. u \in Pages /\ Losses \in Nat
      BY <1>3, LossesCount DEF TypingInv, TypeInv, WorkTyped
    <3> QED
      BY <3>1, <3>2 DEF NoTries, NoVerdicts, Current
  <2>2. CASE pc \in Judging
    BY <1>3, <2>2 DEF VerdictInv, InHand
  <2> QED
    BY <2>1, <2>2
<1>4. AtRest' /\ InHand'
  BY <1>1, <1>2, <1>3 DEF AtRest, InHand, Kept, Current, Underway
<1>5. Underway'
  BY <1>1, <1>2 DEF Underway
<1> QED
  BY <1>4, <1>5 DEF VerdictInv, Bounded, Losses

LEMMA VerdictSteps ==
  ASSUME TypingInv, CandidateInv, VerdictInv, [Next]_vars
  PROVE  VerdictInv'
<1>0. TypingInv'
  BY TypingSteps
<1>1. CASE BeginVpn
  <2>1. /\ pc \notin Judging /\ pc' \notin Judging /\ pc' # "fresh"
        /\ UNCHANGED <<active, checkpoint, last, visits>>
        /\ Losses' = Losses
    BY <1>1 DEF BeginVpn, Begin, seen, Judging, Losses, TypingInv, TypeInv, WorldTyped
  <2>2. pc' # "record" \/ task' # "verify" \/ outcome' # "succeeded"
    BY <1>1 DEF BeginVpn, Begin, seen, TypingInv, ControlInv
  <2> QED
    BY <1>0, <2>1, <2>2, StaysAtRest, LossesCount DEF FinalIsLastVerdict
<1>2. CASE BeginLocal
  <2>1. /\ pc \notin Judging /\ pc' \notin Judging /\ pc' # "fresh"
        /\ UNCHANGED <<active, checkpoint, last, visits>>
        /\ Losses' = Losses
    BY <1>2
    DEF BeginLocal, Begin, Ends, disk, seen, Judging, Losses, TypingInv, TypeInv, WorldTyped
  <2>2. pc' # "record" \/ task' # "verify" \/ outcome' # "succeeded"
    BY <1>2 DEF BeginLocal, Begin, Ends, disk, seen, TypingInv, ControlInv
  <2> QED
    BY <1>0, <2>1, <2>2, StaysAtRest, LossesCount DEF FinalIsLastVerdict
<1>3. CASE BeginCompare
  <2>1. /\ pc \notin Judging /\ pc' \notin Judging /\ pc' # "fresh"
        /\ UNCHANGED <<active, checkpoint, last, visits>>
        /\ Losses' = Losses
    BY <1>3
    DEF BeginCompare, Begin, Ends, disk, seen, Judging, Losses, TypingInv, TypeInv, WorldTyped
  <2>2. pc' # "record" \/ task' # "verify" \/ outcome' # "succeeded"
    BY <1>3 DEF BeginCompare, Begin, Ends, disk, seen, TypingInv, ControlInv
  <2> QED
    BY <1>0, <2>1, <2>2, StaysAtRest, LossesCount DEF FinalIsLastVerdict
<1>4. CASE BeginVerify
  <2>1. /\ pc \notin Judging /\ pc' \notin Judging /\ pc' # "fresh"
        /\ UNCHANGED <<active, checkpoint, last, visits>>
        /\ Losses' = Losses
    BY <1>4
    DEF BeginVerify, Begin, Ends, disk, seen, Judging, Losses, TypingInv, TypeInv, WorldTyped
  <2>2. pc' # "record" \/ task' # "verify" \/ outcome' # "succeeded"
    BY <1>4 DEF BeginVerify, Begin, Ends, disk, seen, TypingInv, ControlInv
  <2> QED
    BY <1>0, <2>1, <2>2, StaysAtRest, LossesCount DEF FinalIsLastVerdict
<1>5. CASE PointAtRun
  <2>1. /\ pc' = "fetch" /\ visits' = NoTries /\ last' = NoVerdicts /\ active' = run
        /\ checkpoint[run] = NoFile /\ UNCHANGED <<checkpoint, used>>
    BY <1>5 DEF PointAtRun, TypingInv, ControlInv
  <2>2. Bounded'
    BY <1>0, <2>1, LossesCount DEF Bounded, NoTries, Losses
  <2> QED
    BY <2>1, <2>2 DEF VerdictInv, AtRest, Underway, Judging, FinalIsLastVerdict
<1>6. CASE Fetch
  <2>1. /\ pc \notin Judging /\ pc' \notin Judging /\ pc' # "fresh"
        /\ UNCHANGED <<active, checkpoint, last, visits>>
        /\ Losses' = Losses
    BY <1>6 DEF Fetch, Ends, seen, Judging, Losses, TypingInv, TypeInv, WorldTyped
  <2>2. pc' # "record" \/ task' # "verify" \/ outcome' # "succeeded"
    BY <1>6 DEF Fetch, Ends, seen, TypingInv, ControlInv
  <2> QED
    BY <1>0, <2>1, <2>2, StaysAtRest, LossesCount DEF FinalIsLastVerdict
<1>7. CASE SaveList
  <2>1. /\ pc \notin Judging /\ pc' \notin Judging /\ pc' # "fresh"
        /\ UNCHANGED <<active, checkpoint, last, visits>>
        /\ Losses' = Losses
    BY <1>7 DEF SaveList, Ends, seen, Judging, Losses, TypingInv, TypeInv, WorldTyped
  <2>2. pc' # "record" \/ task' # "verify" \/ outcome' # "succeeded"
    BY <1>7 DEF SaveList, Ends, seen, TypingInv, ControlInv
  <2> QED
    BY <1>0, <2>1, <2>2, StaysAtRest, LossesCount DEF FinalIsLastVerdict
<1>8. CASE RecordStep
  <2>1. /\ pc \notin Judging /\ pc' \notin Judging /\ pc' # "fresh"
        /\ UNCHANGED <<active, checkpoint, last, visits>>
        /\ Losses' = Losses
    BY <1>8 DEF RecordStep, Return, seen, Judging, Losses, TypingInv, TypeInv, WorldTyped
  <2>2. pc' # "record"
    BY <1>8 DEF RecordStep, Return, seen, TypingInv, ControlInv
  <2> QED
    BY <1>0, <2>1, <2>2, StaysAtRest, LossesCount DEF FinalIsLastVerdict
<1>9. CASE Publish
  <2>1. /\ pc \notin Judging /\ pc' \notin Judging /\ pc' # "fresh"
        /\ UNCHANGED <<active, checkpoint, last, visits>>
        /\ Losses' = Losses
    BY <1>9 DEF Publish, Return, seen, Judging, Losses, TypingInv, TypeInv, WorldTyped
  <2>2. pc' # "record" \/ task' # "verify" \/ outcome' # "succeeded"
    BY <1>9 DEF Publish, Return, seen, TypingInv, ControlInv
  <2> QED
    BY <1>0, <2>1, <2>2, StaysAtRest, LossesCount DEF FinalIsLastVerdict
<1>10. CASE Prune
  <2>1. active = run /\ run \in Runs /\ urls \subseteq Pages
    BY <1>10 DEF Prune, TypingInv, ControlInv, TypeInv, WorkTyped, Preparing
  <2>2. CASE checkpoint' = checkpoint
    <3>1. /\ pc \notin Judging /\ pc' \notin Judging /\ pc' # "fresh" /\ pc' # "record"
          /\ UNCHANGED <<active, last, visits>>
      BY <1>10 DEF Prune, seen, Judging
    <3>2. used \in [starts : Nat, crashes : Nat, faults : Nat, stops : Nat, edits : Nat]
      BY DEF TypingInv, TypeInv, WorldTyped
    <3>3. Losses' >= Losses
      <4>1. used' = used \/ used' = [used EXCEPT !.faults = @ + 1]
        BY <1>10 DEF Prune
      <4>2. used'.crashes = used.crashes /\ used'.faults >= used.faults
        BY <3>2, <4>1
      <4>3. /\ used.crashes \in Nat /\ used.faults \in Nat
            /\ used'.crashes \in Nat /\ used'.faults \in Nat
        BY <1>0, <3>2 DEF TypingInv, TypeInv, WorldTyped
      <4> QED
        BY <4>2, <4>3 DEF Losses
    <3> QED
      BY <1>0, <2>2, <3>1, <3>3, StaysAtRest DEF FinalIsLastVerdict
  <2>3. CASE /\ Prunable(checkpoint[run], urls) /\ UNCHANGED used
             /\ checkpoint' = [checkpoint EXCEPT ![run] = Pruned(checkpoint[run], urls)]
    <3>1. /\ checkpoint[run] # NoFile /\ urls \subseteq checkpoint[run].urls
          /\ checkpoint'[run] = Pruned(checkpoint[run], urls)
      BY <2>1, <2>3 DEF Prunable, TypingInv, TypeInv, DiskTyped
    <3>2. /\ checkpoint'[run].urls = urls
          /\ \A u \in urls : /\ checkpoint'[run].tries[u] = checkpoint[run].tries[u]
                             /\ checkpoint'[run].verdict[u] = checkpoint[run].verdict[u]
      BY <2>1, <3>1 DEF Pruned
    <3>3. pc' = "browser" /\ UNCHANGED <<active, last, visits, used>> /\ pc \notin Judging
      BY <1>10, <2>3 DEF Prune, seen, Judging
    <3>4. Underway
      BY <2>1, <3>1 DEF Underway
    <3>5. AtRest'
      BY <2>1, <3>1, <3>2, <3>3, <3>4 DEF VerdictInv, AtRest, Current, Losses
    <3>6. Underway'
      <4>1. Pruned(checkpoint[run], urls) \in Checkpoint
        BY <2>1, <3>1, PrunedIsCheckpoint DEF TypingInv, TypeInv, DiskTyped
      <4> QED
        BY <2>1, <3>1, <3>3, <3>4, <4>1 DEF Underway
    <3> QED
      BY <3>3, <3>5, <3>6 DEF VerdictInv, Bounded, FinalIsLastVerdict, Judging, Losses
  <2> QED
    BY <1>10, <2>2, <2>3 DEF Prune
<1>11. CASE OpenBrowser
  <2>1. /\ pc \notin Judging /\ pc' \notin Judging /\ pc' # "fresh"
        /\ UNCHANGED <<active, checkpoint, last, visits>>
        /\ Losses' = Losses
    BY <1>11 DEF OpenBrowser, disk, seen, Judging, Losses, TypingInv, TypeInv, WorldTyped
  <2>2. pc' # "record" \/ task' # "verify" \/ outcome' # "succeeded"
    BY <1>11 DEF OpenBrowser, disk, seen, TypingInv, ControlInv
  <2> QED
    BY <1>0, <2>1, <2>2, StaysAtRest, LossesCount DEF FinalIsLastVerdict
<1>12. CASE LoadCheckpoint
  <2>1. active = run /\ run \in Runs
    BY <1>12 DEF LoadCheckpoint, TypingInv, ControlInv, Preparing
  <2>2. pc \notin Judging /\ UNCHANGED <<active, checkpoint, last, visits, used, run, urls>>
    BY <1>12 DEF LoadCheckpoint, Judging, disk, seen
  <2>3. CASE checkpoint[run] = NoFile
    <3>1. pc' = "fresh" /\ verdict' = NoVerdicts /\ tries' = NoTries
      BY <1>12, <2>3 DEF LoadCheckpoint
    <3> QED
      BY <2>1, <2>2, <2>3, <3>1
      DEF VerdictInv, AtRest, Underway, Bounded, FinalIsLastVerdict, Judging, Losses
  <2>4. CASE checkpoint[run] # NoFile /\ checkpoint[run].urls = urls
    <3>1. pc' = "rounds" /\ verdict' = checkpoint[run].verdict /\ tries' = checkpoint[run].tries
      BY <1>12, <2>4 DEF LoadCheckpoint
    <3>2. Underway /\ AtRest
      BY <2>1, <2>2, <2>4 DEF Underway, VerdictInv
    <3>3. InHand'
      BY <2>1, <2>2, <2>4, <3>1, <3>2 DEF AtRest, InHand, Kept, Current, Losses
    <3> QED
      BY <2>2, <3>1, <3>2, <3>3
      DEF VerdictInv, Underway, Bounded, FinalIsLastVerdict, Judging, Losses
  <2>5. CASE checkpoint[run] # NoFile /\ checkpoint[run].urls # urls
    <3>1. pc' = "record" /\ outcome' = "mismatch"
      BY <1>12, <2>5 DEF LoadCheckpoint, Ends
    <3> QED
      BY <1>0, <2>2, <3>1, StaysAtRest, LossesCount DEF FinalIsLastVerdict, Losses, Judging
  <2> QED
    BY <2>3, <2>4, <2>5
<1>13. CASE FirstCheckpoint
  BY <1>13, KeepsAll DEF FirstCheckpoint, work, seen, Losses, Judging, FinalIsLastVerdict
<1>14. CASE NextRound
  <2>1. /\ pc = "rounds" /\ UNCHANGED <<active, checkpoint, last, visits, run, urls, verdict, tries, used>>
        /\ round' = Pending(urls, verdict, tries)
    BY <1>14 DEF NextRound, disk, seen
  <2>2. CASE pc' = "batch"
    BY <2>1, <2>2, KeepsJudging DEF Losses, Judging, Ahead
  <2>3. CASE pc' = "record" /\ outcome' = "incomplete"
    BY <1>0, <2>1, <2>3, LeavesJudging DEF Losses, Judging, FinalIsLastVerdict
  <2>4. CASE pc' = "final" /\ round' = {} /\ Unreached(urls, verdict) = {}
    <3>1. InHand' /\ Underway'
      BY <2>1, <2>4
      DEF VerdictInv, InHand, Kept, Ahead, Current, Underway, TypingInv, ControlInv,
                        Judging, Losses
    <3> QED
      BY <2>1, <2>4, <3>1 DEF VerdictInv, Bounded, FinalIsLastVerdict, Judging, Losses
  <2> QED
    BY <1>14, <2>2, <2>3, <2>4 DEF NextRound, Ends
<1>15. CASE NextBatch
  <2>1. /\ pc = "batch" /\ pc' \in {"halt", "visit"}
        /\ UNCHANGED <<active, checkpoint, last, visits, run, urls, verdict, tries, used>>
    BY <1>15 DEF NextBatch, disk, seen
  <2> QED
    BY <2>1, KeepsJudging DEF Losses, Judging, Ahead
<1>16. CASE Visit
  <2>1. CASE stop
    <3>1. /\ pc = "visit" /\ pc' = "halt"
          /\ UNCHANGED <<active, checkpoint, last, visits, run, urls, verdict, tries, used, round, batch>>
      BY <1>16, <2>1 DEF Visit, disk, seen
    <3> QED
      BY <3>1, KeepsJudging DEF Losses, Judging, Ahead
  <2>2. CASE ~stop
    <3>1. PICK u \in batch, v \in Verdicts :
            /\ verdict' = [verdict EXCEPT ![u] = v] /\ tries' = Counted(tries, u)
            /\ last' = [last EXCEPT ![u] = v] /\ visits' = [visits EXCEPT ![u] = visits[u] + 1]
            /\ batch' = batch \ {u} /\ pc' \in {"keep", "visit"}
      BY <1>16, <2>2 DEF Visit
    <3>2. pc = "visit" /\ UNCHANGED <<active, checkpoint, run, urls, round, used>>
      BY <1>16 DEF Visit, disk
    <3>3. u \in urls /\ u \in Pages /\ u \notin round /\ IsPending(verdict[u], tries[u])
      BY <3>1, <3>2 DEF TypingInv, RoundInv, TypeInv, WorkTyped
    <3>4. /\ verdict \in [Pages -> Found] /\ tries \in [Pages -> 0..MaxAttempts]
          /\ last \in [Pages -> Found] /\ visits \in [Pages -> Nat] /\ urls \subseteq Pages
      BY DEF TypingInv, TypeInv, WorkTyped, WorldTyped
    <3>5. /\ verdict'[u] = v /\ last'[u] = v /\ tries'[u] = tries[u] + 1 /\ visits'[u] = visits[u] + 1
      BY <3>1, <3>3, <3>4 DEF Counted
    <3>6. \A w \in Pages \ {u} : /\ verdict'[w] = verdict[w] /\ last'[w] = last[w]
                                 /\ tries'[w] = tries[w] /\ visits'[w] = visits[w]
      BY <3>1, <3>3, <3>4 DEF Counted
    <3>7. InHand /\ Losses \in Nat /\ Losses' = Losses
      BY <3>2, LossesCount DEF VerdictInv, Judging, Losses
    <3>8. tries[u] < MaxAttempts
      BY <3>3, <3>4 DEF IsPending, TypingInv, RoundInv, Untried
    <3>9. Bounded'
      <4>1. visits[u] <= tries[u] + Losses
        BY <3>3, <3>7 DEF InHand
      <4>2. visits'[u] <= MaxAttempts + Losses
        BY <3>3, <3>4, <3>5, <3>7, <3>8, <4>1
      <4>3. \A w \in Pages : visits'[w] <= MaxAttempts + Losses
        BY <3>6, <4>2 DEF VerdictInv, Bounded
      <4> QED
        BY <3>7, <4>3 DEF Bounded
    <3>10. ASSUME NEW w \in urls
           PROVE  /\ visits'[w] <= tries'[w] + Losses
                  /\ verdict'[w] = last'[w] \/ IsPending(verdict'[w], tries'[w])
                  /\ Kept(w)' \/ Ahead(w)'
      <4>1. CASE w = u
        <5>1. visits[u] <= tries[u] + Losses /\ (Kept(u) \/ Ahead(u))
          BY <3>3, <3>7 DEF InHand
        <5>2. Kept(u)
          BY <3>1, <5>1 DEF Ahead
        <5>3. Ahead(u)'
          BY <3>1, <3>2, <3>3, <3>5, <5>2 DEF Kept, Ahead
        <5>4. visits'[u] <= tries'[u] + Losses
          BY <3>3, <3>4, <3>5, <3>7, <5>1
        <5> QED
          BY <3>5, <4>1, <5>3, <5>4
      <4>2. CASE w # u
        <5>1. visits[w] <= tries[w] + Losses /\ Current(verdict, tries, w) /\ (Kept(w) \/ Ahead(w))
          BY <3>7, <3>10 DEF InHand
        <5>2. /\ verdict'[w] = verdict[w] /\ last'[w] = last[w]
              /\ tries'[w] = tries[w] /\ visits'[w] = visits[w]
          BY <3>4, <3>6, <3>10, <4>2
        <5>3. Kept(w) => Kept(w)'
          BY <3>2, <5>2 DEF Kept
        <5>4. Ahead(w) => Ahead(w)'
          BY <3>1, <3>2, <5>2 DEF Ahead
        <5> QED
          BY <5>1, <5>2, <5>3, <5>4 DEF Current
      <4> QED
        BY <4>1, <4>2
    <3>11. InHand'
      BY <3>2, <3>7, <3>10 DEF InHand, Current
    <3>12. Underway
      BY <3>2, <3>7 DEF Underway, InHand, TypingInv, ControlInv, Judging
    <3> QED
      BY <3>1, <3>2, <3>9, <3>11, <3>12 DEF VerdictInv, Underway, FinalIsLastVerdict, Judging
  <2> QED
    BY <2>1, <2>2
<1>17. CASE KeepBatch
  BY <1>17, KeepsAll DEF KeepBatch, work, seen, Losses, Judging, FinalIsLastVerdict
<1>18. CASE Halt
  BY <1>18, KeepsAll DEF Halt, Ends, work, seen, Losses, Judging, FinalIsLastVerdict
<1>19. CASE SaveFinal
  <2>1. /\ pc = "final" /\ pc' = "record" /\ task = "verify" /\ run \in Runs
        /\ UNCHANGED <<active, checkpoint, last, visits, run, urls, known, view, used>>
    BY <1>19 DEF SaveFinal, Ends, work, seen, TypingInv, ControlInv, Judging
  <2>2. artifact'[run]["verify"] = Final
    BY <1>19, <2>1 DEF SaveFinal, TypingInv, TypeInv, DiskTyped, Steps
  <2>3. view["compare"] \subseteq urls \cup known
    BY <2>1 DEF CandidateInv, Judging
  <2>4. ASSUME NEW u \in view["compare"]
        PROVE  IF u \in Final THEN last[u] = "blocked" \/ u \in known
                              ELSE last[u] \in {"accessible", "unclear"}
    <3>1. CASE u \in urls
      <4>1. ~IsPending(verdict[u], tries[u]) /\ verdict[u] # "unreachable"
        BY <2>1, <3>1 DEF VerdictInv, Pending, Unreached
      <4>2. verdict[u] = last[u]
        BY <2>1, <3>1, <4>1 DEF VerdictInv, InHand, Current, Judging
      <4>3. verdict[u] \in Found /\ verdict[u] # "none"
        BY <3>1, <4>1 DEF TypingInv, TypeInv, WorkTyped, IsPending
      <4> QED
        BY <3>1, <4>1, <4>2, <4>3 DEF Final, Found, Verdicts
    <3>2. CASE u \in known
      BY <3>2 DEF Final
    <3> QED
      BY <2>3, <2>4, <3>1, <3>2
  <2>5. FinalIsLastVerdict'
    BY <2>1, <2>2, <2>4 DEF FinalIsLastVerdict
  <2> QED
    BY <1>0, <2>1, <2>5, LeavesJudging DEF Losses, Judging
<1>20. CASE Compile
  <2>1. /\ pc \notin Judging /\ pc' \notin Judging /\ pc' # "fresh"
        /\ UNCHANGED <<active, checkpoint, last, visits>>
        /\ Losses' = Losses
    BY <1>20 DEF Compile, Return, disk, seen, Judging, Losses, TypingInv, TypeInv, WorldTyped
  <2>2. pc' # "record" \/ task' # "verify" \/ outcome' # "succeeded"
    BY <1>20 DEF Compile, Return, disk, seen, TypingInv, ControlInv
  <2> QED
    BY <1>0, <2>1, <2>2, StaysAtRest, LossesCount DEF FinalIsLastVerdict
<1>21. CASE StepFails
  <2>1. /\ UNCHANGED <<active, checkpoint, last, visits>> /\ pc' = "record"
        /\ outcome' # "succeeded" /\ Losses' = Losses + 1
    BY <1>21 DEF StepFails, Ends, disk, seen, Losses, TypingInv, TypeInv, WorldTyped
  <2>2. CASE pc \in Judging
    BY <1>0, <2>1, <2>2, LeavesJudging DEF FinalIsLastVerdict, Judging
  <2>3. CASE pc \notin Judging
    BY <1>0, <2>1, <2>3, StaysAtRest, LossesCount DEF FinalIsLastVerdict, Judging
  <2> QED
    BY <2>2, <2>3
<1>22. CASE Crash
  <2>1. /\ UNCHANGED <<active, checkpoint, last, visits>> /\ pc' = "idle"
        /\ Losses' = Losses + 1
    BY <1>22 DEF Crash, Return, disk, seen, Losses, TypingInv, TypeInv, WorldTyped
  <2>2. CASE pc \in Judging
    BY <1>0, <2>1, <2>2, LeavesJudging DEF FinalIsLastVerdict, Judging
  <2>3. CASE pc \notin Judging
    BY <1>0, <2>1, <2>3, StaysAtRest, LossesCount DEF FinalIsLastVerdict, Judging
  <2> QED
    BY <2>2, <2>3
<1>23. CASE RequestStop
  <2>1. UNCHANGED <<disk, pc, task, run, work, outcome, seen, Losses>>
    BY <1>23 DEF RequestStop, Losses, TypingInv, TypeInv, WorldTyped
  <2> QED
    BY <2>1 DEF VerdictInv, AtRest, InHand, Kept, Ahead, Current, Underway, Bounded,
                FinalIsLastVerdict, Losses, disk, work, seen
<1>24. ASSUME NEW u \in Pages, Edit(u) PROVE VerdictInv'
  <2>1. /\ pc \notin Judging /\ pc' \notin Judging /\ pc' # "fresh"
        /\ UNCHANGED <<active, checkpoint, last, visits>>
        /\ Losses' = Losses
    BY <1>24 DEF Edit, disk, seen, Judging, Losses, TypingInv, TypeInv, WorldTyped
  <2>2. pc' # "record" \/ task' # "verify" \/ outcome' # "succeeded"
    BY <1>24 DEF Edit, disk, seen, TypingInv, ControlInv
  <2> QED
    BY <1>0, <2>1, <2>2, StaysAtRest, LossesCount DEF FinalIsLastVerdict
<1>25. CASE UNCHANGED vars
  BY <1>25
  DEF vars, disk, work, seen, VerdictInv, AtRest, InHand, Kept, Ahead, Current, Underway,
  Bounded, FinalIsLastVerdict, Losses
<1> QED
  BY <1>1, <1>2, <1>3, <1>4, <1>5, <1>6, <1>7, <1>8, <1>9, <1>10, <1>11, <1>12,
     <1>13, <1>14, <1>15, <1>16, <1>17, <1>18, <1>19, <1>20, <1>21, <1>22, <1>23, <1>24,
     <1>25
  DEF Next, Step

LEMMA Invariance == Spec => [](TypingInv /\ CandidateInv /\ VerdictInv)
<1>1. ASSUME Init PROVE CandidateInv /\ VerdictInv
  <2>1. CandidateInv
    BY <1>1 DEF Init, CandidateInv, Underway, Preparing, Judging
  <2>2. Bounded
    <3>1. Losses \in Nat
      BY <1>1, InitTyping, LossesCount
    <3> QED
      BY <1>1, <3>1 DEF Init, Bounded, NoTries
  <2> QED
    BY <1>1, <2>1, <2>2 DEF Init, VerdictInv, AtRest, Underway, FinalIsLastVerdict, Judging
<1> QED
  BY <1>1, InitTyping, TypingSteps, CandidateSteps, VerdictSteps, PTL DEF Spec

\* The list Step 4 is about to record as its success is what the last look at
\* every candidate showed, whatever crashed, was stopped or resumed on the way
\* (_publish_success, the checkpoint and the rounds of ChaturbateVerifier).
THEOREM LastVerdicts == Spec => []FinalIsLastVerdict
<1>1. VerdictInv => FinalIsLastVerdict
  BY DEF VerdictInv
<1> QED
  BY <1>1, Invariance, PTL

\* A page is opened no more often than the attempts allow, and once more for
\* each crash or failure that lost a batch (ChaturbateVerifier.verify writes
\* its checkpoint after every batch).
THEOREM Visits == Spec => []VisitsAreBounded
<1>1. TypingInv /\ VerdictInv => VisitsAreBounded
  BY DEF VerdictInv, Bounded, Losses, VisitsAreBounded, TypingInv, TypeInv, WorldTyped
<1> QED
  BY <1>1, Invariance, PTL

-----------------------------------------------------------------------------
(* How a step gets on.                                                     *)

\* A step goes from stage to stage, through the rounds of Step 4, and returns
\* when it has recorded its outcome; what follows a recorded success may fail.
Stage(place, o) ==
  CASE place \in {"point", "prune"} -> 12 [] place \in {"fetch", "browser"} -> 11
    [] place \in {"save", "load"} -> 10 [] place = "fresh" -> 9
    [] place \in {"rounds", "batch", "visit", "keep"} -> 8
    [] place \in {"halt", "final"} -> 7
    [] place = "record" -> (IF o = "succeeded" THEN 6 ELSE IF o = "failed" THEN 1 ELSE 2)
    [] place = "publish" -> 5 [] place = "compile" -> 4
    [] OTHER -> 0

\* A page gets one of the attempts it has left, all others keep theirs.
Tried == \E u \in urls : /\ tries[u] < MaxAttempts /\ tries'[u] = tries[u] + 1
                         /\ \A w \in Pages \ {u} : tries'[w] = tries[w]

\* Between two visits: no way leads round without one.
Turns == \/ pc = "keep" /\ pc' \in {"rounds", "batch"}
         \/ pc = "rounds" /\ pc' = "batch"
         \/ pc = "batch" /\ pc' = "visit"

GetsOn == \/ Stage(pc', outcome') < Stage(pc, outcome)
          \/ pc = "visit" /\ pc' \in {"visit", "keep"} /\ Tried
          \/ UNCHANGED tries /\ Turns

\* The stop button alone moves nothing.
Onward == pc # "idle" => IF used'.stops # used.stops
                         THEN UNCHANGED <<pc, outcome, tries>> ELSE GetsOn
NoStepIsInVain == [][Onward]_vars

LEMMA StepGetsOn == ASSUME TypingInv, [Next]_vars PROVE [Onward]_vars
<1> SUFFICES ASSUME Next, pc # "idle" PROVE Onward
  BY DEF Onward
<1>0. /\ used \in [starts : Nat, crashes : Nat, faults : Nat, stops : Nat, edits : Nat]
      /\ outcome \in Outcomes
  BY DEF TypingInv, TypeInv, WorldTyped, TaskTyped
<1>a. ASSUME GetsOn, used'.stops = used.stops PROVE Onward
  BY <1>a DEF Onward
<1>b. ASSUME UNCHANGED used, GetsOn PROVE Onward
  BY <1>b DEF Onward
<1>5. CASE PointAtRun
  BY <1>5, <1>b DEF PointAtRun, GetsOn, Stage
<1>6. CASE Fetch
  <2>1. pc = "fetch" /\ UNCHANGED used
    BY <1>6 DEF Fetch
  <2>2. \/ pc' = "record" /\ outcome' \in {"cancelled", "incomplete"}
        \/ pc' = "save"
    BY <1>6 DEF Fetch, Ends
  <2> QED
    BY <2>1, <2>2, <1>b DEF GetsOn, Stage
<1>7. CASE SaveList
  BY <1>7, <1>b DEF SaveList, Ends, GetsOn, Stage
<1>8. CASE RecordStep
  <2>1. pc = "record" /\ UNCHANGED <<used, outcome>>
    BY <1>8 DEF RecordStep
  <2>2. (outcome = "succeeded" /\ pc' = "publish") \/ pc' = "idle"
    BY <1>8 DEF RecordStep, Return
  <2> QED
    BY <2>1, <2>2, <1>b DEF GetsOn, Stage
<1>9. CASE Publish
  <2>1. pc = "publish" /\ UNCHANGED <<used, outcome>> /\ pc' \in {"compile", "idle"}
    BY <1>9 DEF Publish, Return
  <2> QED
    BY <2>1, <1>b DEF GetsOn, Stage
<1>10. CASE Prune \/ OpenBrowser \/ FirstCheckpoint
  <2>1. CASE Prune
    <3>1. used'.stops = used.stops
      BY <1>0, <2>1 DEF Prune
    <3>2. pc = "prune" /\ pc' = "browser"
      BY <2>1 DEF Prune
    <3> QED
      BY <3>1, <3>2, <1>a DEF GetsOn, Stage
  <2>2. CASE OpenBrowser \/ FirstCheckpoint
    <3>1. UNCHANGED used /\ \/ pc = "browser" /\ pc' = "load"
                            \/ pc = "fresh" /\ pc' = "rounds"
      BY <2>2 DEF OpenBrowser, FirstCheckpoint
    <3> QED
      BY <3>1, <1>b DEF GetsOn, Stage
  <2> QED
    BY <1>10, <2>1, <2>2
<1>11. CASE LoadCheckpoint
  <2>1. pc = "load" /\ UNCHANGED used
    BY <1>11 DEF LoadCheckpoint
  <2>2. pc' \in {"fresh", "rounds"} \/ (pc' = "record" /\ outcome' = "mismatch")
    BY <1>11 DEF LoadCheckpoint, Ends
  <2> QED
    BY <2>1, <2>2, <1>b DEF GetsOn, Stage
<1>12. CASE NextRound
  <2>1. pc = "rounds" /\ UNCHANGED <<used, tries>>
    BY <1>12 DEF NextRound
  <2>2. \/ pc' \in {"batch", "final"} \/ (pc' = "record" /\ outcome' = "incomplete")
    BY <1>12 DEF NextRound, Ends
  <2> QED
    BY <2>1, <2>2, <1>b DEF GetsOn, Stage, Turns
<1>13. CASE NextBatch
  <2>1. pc = "batch" /\ UNCHANGED <<used, tries, outcome>> /\ pc' \in {"halt", "visit"}
    BY <1>13 DEF NextBatch
  <2> QED
    BY <2>1, <1>b DEF GetsOn, Stage, Turns
<1>14. CASE Visit
  <2>1. pc = "visit" /\ UNCHANGED <<used, outcome>>
    BY <1>14 DEF Visit
  <2>2. CASE stop
    BY <1>14, <2>1, <2>2, <1>b DEF Visit, GetsOn, Stage
  <2>3. CASE ~stop
    <3>1. PICK u \in batch, v \in Verdicts :
            tries' = Counted(tries, u) /\ pc' \in {"keep", "visit"}
      BY <1>14, <2>3 DEF Visit
    <3>2. u \in urls /\ u \in Pages /\ IsPending(verdict[u], tries[u])
      BY <2>1, <3>1 DEF TypingInv, RoundInv, TypeInv, WorkTyped
    <3>3. tries \in [Pages -> 0..MaxAttempts] /\ Untried(verdict, tries)
      BY DEF TypingInv, TypeInv, WorkTyped, RoundInv
    <3>4. tries[u] < MaxAttempts
      BY <3>2, <3>3 DEF IsPending, Untried
    <3>5. /\ tries'[u] = tries[u] + 1
          /\ \A w \in Pages \ {u} : tries'[w] = tries[w]
      BY <3>1, <3>2, <3>3 DEF Counted
    <3>6. Tried
      BY <3>2, <3>4, <3>5 DEF Tried
    <3> QED
      BY <2>1, <3>1, <3>6, <1>b DEF GetsOn
  <2> QED
    BY <2>2, <2>3
<1>15. CASE KeepBatch
  <2>1. pc = "keep" /\ UNCHANGED <<used, tries>> /\ pc' \in {"rounds", "batch"}
    BY <1>15 DEF KeepBatch, work
  <2> QED
    BY <2>1, <1>b DEF GetsOn, Turns
<1>16. CASE Halt \/ SaveFinal
  <2>1. /\ pc \in {"halt", "final"} /\ UNCHANGED used
        /\ pc' = "record" /\ outcome' \in {"cancelled", "succeeded"}
    BY <1>16 DEF Halt, SaveFinal, Ends
  <2> QED
    BY <2>1, <1>b DEF GetsOn, Stage
<1>17. CASE Compile
  BY <1>17, <1>b DEF Compile, Return, GetsOn, Stage
<1>18. CASE StepFails
  <2>1. used'.stops = used.stops
    BY <1>0, <1>18 DEF StepFails
  <2>2. CASE pc = "publish"
    BY <1>18, <2>1, <2>2, <1>a DEF StepFails, Ends, GetsOn, Stage
  <2>3. CASE pc \in {"load", "fresh", "keep", "halt", "final", "compile", "browser"}
    BY <1>18, <2>1, <2>3, <1>a DEF StepFails, Ends, GetsOn, Stage
  <2>4. CASE pc = "record"
    BY <1>18, <2>1, <2>4, <1>a DEF StepFails, Ends, GetsOn, Stage
  <2> QED
    BY <1>18, <2>2, <2>3, <2>4 DEF StepFails
<1>19. CASE Crash
  <2>1. used'.stops = used.stops /\ pc' = "idle" /\ outcome' = "none"
    BY <1>0, <1>19 DEF Crash, Return
  <2>2. Stage(pc, outcome) \in Nat /\ Stage(pc, outcome) > 0
    BY DEF TypingInv, TypeInv, TaskTyped, Stage
  <2> QED
    BY <2>1, <2>2, <1>a DEF GetsOn, Stage
<1>20. CASE RequestStop
  <2>1. UNCHANGED <<pc, outcome, tries>>
    BY <1>20 DEF RequestStop, work
  <2>2. used' = [used EXCEPT !.stops = @ + 1]
    BY <1>20 DEF RequestStop
  <2>3. used'.stops = used.stops + 1 /\ used.stops \in Nat
    BY <1>0, <2>2
  <2> QED
    BY <2>1, <2>3 DEF Onward
<1> QED
  BY <1>5, <1>6, <1>7, <1>8, <1>9, <1>10, <1>11, <1>12, <1>13, <1>14, <1>15, <1>16, <1>17,
     <1>18, <1>19, <1>20
  DEF Next, Step, BeginVpn, BeginLocal, BeginCompare, BeginVerify, Begin, Edit

\* However often pages cannot be classified, and whatever fails, every action of
\* a step leads towards its end or uses up an attempt (the rounds of
\* ChaturbateVerifier.verify, the handlers of the steps of CTBRunner).
THEOREM Progress == Spec => NoStepIsInVain
<1>1. TypingInv /\ [Next]_vars => [Onward]_vars
  BY StepGetsOn
<1> QED
  BY <1>1, InitTyping, TypingSteps, PTL DEF Spec, NoStepIsInVain

=============================================================================
