--------------------------- MODULE MyFreeCamsProofs ---------------------------
(***************************************************************************)
(* Theorems about MyFreeCams, for any pages, sessions and servers and any  *)
(* number of events.                                                       *)
(***************************************************************************)
EXTENDS MyFreeCams, FiniteSetTheorems, TLAPS

USE MFCAssumption

-----------------------------------------------------------------------------
(* Types.                                                                  *)

\* The files, and which session they are in.
DiskTyped ==
  /\ air \subseteq Pages /\ automatic \in BOOLEAN
  /\ vpnList \in [Sessions -> Lists] /\ localList \in [Sessions -> Lists]
  /\ blocked \in [Sessions -> Lists] /\ verified \in [Sessions -> Lists]
  /\ made \in 0..MaxSessions /\ cur \in 0..made
  /\ text \in Lists /\ json \in Masters \cup {NoFile, Torn}
  /\ dated \subseteq Pages /\ manual \subseteq Pages /\ banned \subseteq Pages

\* What the process holds.
MemoryTyped ==
  /\ live \in Lists /\ view \in Lists /\ refs \in References
  /\ tries \in 0..MaxAttempts
  /\ got \subseteq Pages /\ plan \in Masters /\ sighted \in BOOLEAN
  /\ whole \in BOOLEAN /\ slipped \subseteq Pages /\ used \in 0..MaxEvents

\* The flows that have a stage.
FlowsOf(stage) ==
  CASE stage = "vpn" -> {"auto", "step1"}
    [] stage = "local" -> {"auto", "step2"}
    [] stage = "compare" -> {"auto", "step3"}
    [] stage = "live" -> {"auto", "step1", "step4"}
    [] stage = "view" -> {"auto", "step2", "step4"}
    [] stage = "verify" -> {"auto", "step4"}

\* Where the task is: an edit has its page, a stage belongs to a flow that has
\* it, and only an automatic provider has Full Auto and its own Step 4.
ControlTyped ==
  /\ op \in Flows \cup Edits \cup {"none"} /\ stop \in BOOLEAN
  /\ pc \in Stages \cup {"idle", "publish", "clean"} \cup Compiling \cup Editing
  /\ pc \in Editing => target \in Pages
  /\ pc = "country" => target \in Names(json)
  /\ pc = "ban" => op = "block"
  /\ pc \in Stages \cup {"publish", "clean"} => op \in Flows /\ cur # 0
  /\ pc \in Stages => op \in FlowsOf(pc)
  /\ pc = "idle" => op = "none"
  /\ (op = "auto" \/ (op = "step4" /\ pc \in {"live", "view"})) => automatic

TypeInv == DiskTyped /\ MemoryTyped /\ ControlTyped

LEMMA EmptyIsMaster == <<>> \in Masters /\ DOMAIN <<>> = {}
<1>1. DOMAIN <<>> = {} /\ <<>> \in [{} -> Entry]
  OBVIOUS
<1> QED
  BY <1>1 DEF Masters

LEMMA NamesArePages == ASSUME TypeInv PROVE Names(json) \subseteq Pages
  BY DEF TypeInv, DiskTyped, Masters, Names, Readable

LEMMA CompiledIsMaster ==
  ASSUME NEW mine, NEW black, NEW read, NEW old \in Masters
  PROVE  Compiled(mine, black, read, old) \in Masters
<1> DEFINE having == [u \in Pages |-> {s \in read : u \in Source(s)}]
           list == {x \in Pages : having[x] # {} \/ x \in mine} \ black
           entry(u) == [pending |-> u \notin mine /\ \A s \in having[u] : Unjudged(s),
                        manual |-> u \in mine,
                        country |-> u \in DOMAIN old /\ old[u].country]
<1>1. \A u \in DOMAIN old : old[u].country \in BOOLEAN
  BY DEF Masters, Entry
<1>2. \A u \in list : entry(u) \in Entry
  BY <1>1 DEF Entry
<1>3. Compiled(mine, black, read, old) = [u \in list |-> entry(u)]
  BY DEF Compiled
<1>4. [u \in list |-> entry(u)] \in [list -> Entry]
  BY <1>2
<1>5. list \in SUBSET Pages
  OBVIOUS
<1> HIDE DEF list, entry, having
<1> QED
  BY <1>3, <1>4, <1>5 DEF Masters

LEMMA WithoutIsMaster ==
  ASSUME TypeInv, NEW u PROVE WithoutEntry(u) \in Masters \cup {NoFile, Torn}
  BY DEF TypeInv, DiskTyped, Masters, WithoutEntry, Names, Readable

LEMMA CountryIsMaster ==
  ASSUME NEW j \in Masters, NEW u \in DOMAIN j
  PROVE  [j EXCEPT ![u].country = TRUE] \in Masters
<1>1. PICK list \in SUBSET Pages : j \in [list -> Entry]
  BY DEF Masters
<1>2. [j[u] EXCEPT !.country = TRUE] \in Entry
  BY <1>1 DEF Entry
<1>3. [j EXCEPT ![u] = [j[u] EXCEPT !.country = TRUE]] \in [list -> Entry]
  BY <1>1, <1>2
<1> QED
  BY <1>3 DEF Masters

LEMMA AnswersAreLists ==
  ASSUME TypeInv PROVE Answers \subseteq SUBSET Pages
  BY DEF TypeInv, DiskTyped, Answers, Listings, Offered

LEMMA StartKeepsDisk ==
  ASSUME TypeInv, NEW flow, NEW stage, Start(flow, stage) PROVE DiskTyped'
  BY DEF TypeInv, Start, Session, DiskTyped, master

LEMMA DiskSteps == ASSUME TypeInv, [Next]_vars PROVE DiskTyped'
<1> USE DEF TypeInv
<1>1. ASSUME NEW u \in Pages, Move(u) PROVE DiskTyped'
  BY <1>1 DEF Move, folders, master, DiskTyped
<1>2. CASE Age
  BY <1>2 DEF Age, folders, master, DiskTyped
<1>3. CASE RequestStop
  BY <1>3 DEF RequestStop, folders, master, DiskTyped
<1>4. CASE ChangeProvider
  BY <1>4 DEF ChangeProvider, folders, master, DiskTyped
<1>5. CASE NewSession
  BY <1>5 DEF NewSession, folders, master, DiskTyped
<1>6. CASE UseLatestSession
  BY <1>6 DEF UseLatestSession, folders, master, DiskTyped
<1>7. CASE Restart
  BY <1>7 DEF Restart, folders, master, DiskTyped
<1>8. CASE StartFullAuto
  BY <1>8, StartKeepsDisk DEF StartFullAuto
<1>9. CASE StartStep1
  BY <1>9, StartKeepsDisk DEF StartStep1
<1>10. CASE StartStep2
  BY <1>10, StartKeepsDisk DEF StartStep2
<1>11. CASE StartStep3
  BY <1>11, StartKeepsDisk DEF StartStep3
<1>12. CASE StartStep4
  BY <1>12, StartKeepsDisk DEF StartStep4
<1>13. ASSUME NEW found \in Answers, Attempt(found) PROVE DiskTyped'
  BY <1>13 DEF Attempt, folders, master, DiskTyped
<1>14. CASE FetchGivesUp
  BY <1>14 DEF FetchGivesUp, folders, master, DiskTyped
<1>15. CASE VpnFails
  BY <1>15 DEF VpnFails, folders, master, DiskTyped
<1>16. CASE SaveList
  <2>1. cur \in Sessions
    BY <1>16 DEF SaveList, DiskTyped, ControlTyped, Stages, Fetches, Sessions
  <2>2. PICK content \in Remains(IF pc = "vpn" THEN vpnList[cur] ELSE localList[cur], got) :
          /\ vpnList' = IF pc = "vpn" THEN [vpnList EXCEPT ![cur] = content] ELSE vpnList
          /\ localList' = IF pc = "local" THEN [localList EXCEPT ![cur] = content] ELSE localList
    BY <1>16 DEF SaveList
  <2>3. content \in Lists
    BY <2>1, <2>2 DEF Remains, DiskTyped, MemoryTyped, Lists
  <2>4. vpnList' \in [Sessions -> Lists] /\ localList' \in [Sessions -> Lists]
    BY <2>1, <2>2, <2>3 DEF DiskTyped
  <2> QED
    BY <1>16, <2>4 DEF SaveList, DiskTyped, master
<1>17. CASE Compare
  <2>1. cur \in Sessions
    BY <1>17 DEF Compare, DiskTyped, ControlTyped, Stages, Sessions
  <2>2. blocked' \in [Sessions -> Lists]
    BY <1>17, <2>1 DEF Compare, Remains, DiskTyped, Lists, Lines
  <2> QED
    BY <1>17, <2>2 DEF Compare, DiskTyped, master
<1>18. CASE Verify
  BY <1>18 DEF Verify, folders, master, DiskTyped
<1>19. CASE Publish
  <2>1. cur \in Sessions
    BY <1>19 DEF Publish, DiskTyped, ControlTyped, Sessions
  <2>2. verified' \in [Sessions -> Lists]
    BY <1>19, <2>1 DEF Publish, Remains, DiskTyped, MemoryTyped, Lists
  <2> QED
    BY <1>19, <2>2 DEF Publish, DiskTyped, master
<1>20. CASE Clean
  <2>1. cur \in Sessions
    BY <1>20 DEF Clean, DiskTyped, ControlTyped, Sessions
  <2>2. vpnList' \in [Sessions -> Lists] /\ localList' \in [Sessions -> Lists]
    BY <1>20, <2>1 DEF Clean, DiskTyped, Lists
  <2> QED
    BY <1>20, <2>2 DEF Clean, DiskTyped, master
<1>21. CASE Compile
  BY <1>21 DEF Compile, folders, master, DiskTyped
<1>22. CASE WriteText
  <2>1. DOMAIN plan \subseteq Pages
    BY DEF MemoryTyped, Masters
  <2>2. text' \in Lists
    BY <1>22, <2>1 DEF WriteText, Remains, DiskTyped, Lists
  <2> QED
    BY <1>22, <2>2 DEF WriteText, DiskTyped, folders
<1>23. CASE KeepDated
  BY <1>23, NamesArePages DEF KeepDated, DiskTyped, folders
<1>24. CASE WriteJson
  BY <1>24 DEF WriteJson, JsonRemains, DiskTyped, MemoryTyped, folders
<1>25. CASE StartEdit
  BY <1>25 DEF StartEdit, Edit, folders, master, DiskTyped
<1>26. CASE AddManual
  BY <1>26 DEF AddManual, DiskTyped, ControlTyped, Editing, folders
<1>27. CASE Ban
  BY <1>27 DEF Ban, DiskTyped, ControlTyped, Editing, folders
<1>28. CASE RemoveFromText
  <2>1. text' \in Lists
    BY <1>28 DEF RemoveFromText, Remains, Lines, DiskTyped, Lists
  <2> QED
    BY <1>28, <2>1 DEF RemoveFromText, DiskTyped, folders
<1>29. CASE RemoveFromManual
  BY <1>29 DEF RemoveFromManual, Remains, DiskTyped, folders
<1>30. CASE RemoveFromJson
  <2>1. json' \in Masters \cup {NoFile, Torn}
    BY <1>30, WithoutIsMaster DEF RemoveFromJson, JsonRemains, DiskTyped
  <2> QED
    BY <1>30, <2>1 DEF RemoveFromJson, DiskTyped, folders
<1>31. CASE SetCountry
  <2>1. Readable(json) /\ target \in DOMAIN json
    BY <1>31 DEF SetCountry, ControlTyped, Names
  <2>2. [json EXCEPT ![target].country = TRUE] \in Masters
    BY <2>1, CountryIsMaster DEF DiskTyped, Readable
  <2>3. json' \in Masters \cup {NoFile, Torn}
    BY <1>31, <2>2 DEF SetCountry, JsonRemains, DiskTyped
  <2> QED
    BY <1>31, <2>3 DEF SetCountry, DiskTyped, folders
<1>32. CASE UNCHANGED vars
  BY <1>32 DEF vars, folders, master, DiskTyped
<1> QED
  BY <1>1, <1>2, <1>3, <1>4, <1>5, <1>6, <1>7, <1>8, <1>9, <1>10, <1>11, <1>12,
     <1>13, <1>14, <1>15, <1>16, <1>17, <1>18, <1>19, <1>20, <1>21, <1>22, <1>23, <1>24,
     <1>25, <1>26, <1>27, <1>28, <1>29, <1>30, <1>31, <1>32
  DEF Next

LEMMA NoReferencesAreReferences == NoReferences \in References
  BY DEF NoReferences, References

LEMMA StartKeepsMemory ==
  ASSUME TypeInv, NEW flow, NEW stage, Start(flow, stage), refs' \in References
  PROVE  MemoryTyped'
  BY DEF TypeInv, Start, Event, MemoryTyped, aux

LEMMA FetchedKeepsMemory ==
  ASSUME TypeInv, NEW found \in SUBSET Pages, Fetched(found), used' \in 0..MaxEvents,
         UNCHANGED <<plan, sighted, whole>>
  PROVE  MemoryTyped'
<1> USE DEF TypeInv
<1>1. tries' \in 0..MaxAttempts /\ got' \subseteq Pages
  BY DEF Fetched, MemoryTyped
<1>2. live' \in Lists /\ view' \in Lists
  BY DEF Fetched, Reference, MemoryTyped, memory, Lists
<1>3. refs' \in References
  <2>1. [session |-> cur, vpn |-> TRUE, local |-> FALSE, fresh |-> TRUE] \in References
    BY DEF References, DiskTyped
  <2>2. [refs EXCEPT !.local = TRUE] \in References
    BY DEF References, MemoryTyped
  <2> QED
    BY <2>1, <2>2 DEF Fetched, MemoryTyped, memory
<1>4. slipped' \subseteq Pages
  BY DEF Fetched, Lines, MemoryTyped, Lists
<1> QED
  BY <1>1, <1>2, <1>3, <1>4 DEF MemoryTyped

LEMMA MemorySteps == ASSUME TypeInv, [Next]_vars PROVE MemoryTyped'
<1> USE DEF TypeInv
<1>1. ASSUME NEW u \in Pages, Move(u) PROVE MemoryTyped'
  BY <1>1 DEF Move, Event, memory, data, aux, MemoryTyped
<1>2. CASE Age
  BY <1>2 DEF Age, MemoryTyped, References, data, aux
<1>3. CASE RequestStop
  BY <1>3 DEF RequestStop, Event, memory, data, aux, MemoryTyped
<1>4. CASE ChangeProvider
  BY <1>4, NoReferencesAreReferences DEF ChangeProvider, Event, MemoryTyped, data, aux
<1>5. CASE NewSession
  BY <1>5 DEF NewSession, Event, memory, data, aux, MemoryTyped
<1>6. CASE UseLatestSession
  BY <1>6 DEF UseLatestSession, Event, memory, data, aux, MemoryTyped
<1>7. CASE Restart
  <2>1. whole' \in BOOLEAN /\ sighted' \in BOOLEAN
    BY <1>7 DEF Restart
  <2>2. used' \in 0..MaxEvents
    BY <1>7 DEF Restart, Event, MemoryTyped
  <2>3. slipped' \subseteq Pages /\ NoFile \in Lists
    BY <1>7 DEF Restart, MemoryTyped, Lists
  <2>4. live' \in Lists /\ view' \in Lists
    BY <1>7, <2>3 DEF Restart
  <2>5. refs' \in References /\ plan' \in Masters
    BY <1>7, EmptyIsMaster, NoReferencesAreReferences DEF Restart
  <2>6. tries' \in 0..MaxAttempts /\ got' \subseteq Pages
    BY <1>7 DEF Restart
  <2> QED
    BY <2>1, <2>2, <2>3, <2>4, <2>5, <2>6 DEF MemoryTyped
<1>8. CASE StartFullAuto
  BY <1>8, StartKeepsMemory DEF StartFullAuto, MemoryTyped
<1>9. CASE StartStep1
  BY <1>9, StartKeepsMemory, NoReferencesAreReferences DEF StartStep1, MemoryTyped
<1>10. CASE StartStep2
  <2>1. cur' \in 0..MaxSessions
    BY <1>10, DiskSteps DEF DiskTyped, Next
  <2>2. LocalForgotten(refs, cur') \in References
    BY <2>1 DEF LocalForgotten, References, NoReferences, MemoryTyped
  <2> QED
    BY <1>10, <2>2, StartKeepsMemory DEF StartStep2, MemoryTyped
<1>11. CASE StartStep3
  BY <1>11, StartKeepsMemory DEF StartStep3, MemoryTyped
<1>12. CASE StartStep4
  BY <1>12, StartKeepsMemory, NoReferencesAreReferences DEF StartStep4, MemoryTyped
<1>13. ASSUME NEW found \in Answers, Attempt(found) PROVE MemoryTyped'
  <2>1. found \in SUBSET Pages /\ pc \in Fetches
    BY <1>13, AnswersAreLists DEF Attempt
  <2>2. used' \in 0..MaxEvents
    BY <1>13 DEF Attempt, Event, MemoryTyped
  <2>3. CASE found = {} /\ tries + 1 < MaxAttempts
    BY <1>13, <2>2, <2>3 DEF Attempt, MemoryTyped, memory
  <2>4. CASE ~(found = {} /\ tries + 1 < MaxAttempts)
    BY <1>13, <2>1, <2>2, <2>4, FetchedKeepsMemory DEF Attempt
  <2> QED
    BY <2>3, <2>4
<1>14. CASE FetchGivesUp
  <2>1. used' \in 0..MaxEvents /\ {} \in SUBSET Pages
    BY <1>14 DEF FetchGivesUp, Event, MemoryTyped
  <2> QED
    BY <1>14, <2>1, FetchedKeepsMemory DEF FetchGivesUp
<1>15. CASE VpnFails
  BY <1>15 DEF VpnFails, Event, memory, data, aux, MemoryTyped
<1>16. CASE SaveList
  BY <1>16 DEF SaveList, Event, memory, data, aux, MemoryTyped
<1>17. CASE Compare
  BY <1>17 DEF Compare, Event, memory, data, aux, MemoryTyped
<1>18. CASE Verify
  <2>1. cur \in Sessions
    BY <1>18 DEF Verify, ControlTyped, DiskTyped, Stages, Sessions
  <2>2. Lines(blocked[cur]) \subseteq Pages
    BY <2>1 DEF Lines, DiskTyped, Lists
  <2>3. got' \subseteq Pages /\ used' \in 0..MaxEvents
    BY <1>18, <2>2 DEF Verify, Confirmed, Event, MemoryTyped
  <2> QED
    BY <1>18, <2>3 DEF Verify, MemoryTyped, Lists, aux
<1>19. CASE Publish
  BY <1>19 DEF Publish, Event, memory, data, aux, MemoryTyped
<1>20. CASE Clean
  BY <1>20 DEF Clean, Event, memory, data, aux, MemoryTyped
<1>21. CASE Compile
  <2>1. plan' \in Masters
    BY <1>21, CompiledIsMaster, EmptyIsMaster DEF Compile, Readable, DiskTyped
  <2>2. whole' \in BOOLEAN /\ sighted' \in BOOLEAN
    BY <1>21 DEF Compile
  <2>3. used' \in 0..MaxEvents
    BY <1>21 DEF Compile, Event, MemoryTyped
  <2> QED
    BY <1>21, <2>1, <2>2, <2>3 DEF Compile, MemoryTyped, memory
<1>22. CASE WriteText
  <2>1. whole' \in BOOLEAN
    BY <1>22 DEF WriteText, MemoryTyped
  <2>2. used' \in 0..MaxEvents
    BY <1>22 DEF WriteText, Event, MemoryTyped
  <2> QED
    BY <1>22, <2>1, <2>2 DEF WriteText, MemoryTyped, memory, data
<1>23. CASE KeepDated
  <2>1. whole' \in BOOLEAN
    BY <1>23 DEF KeepDated, MemoryTyped
  <2>2. used' \in 0..MaxEvents
    BY <1>23 DEF KeepDated, Event, MemoryTyped
  <2> QED
    BY <1>23, <2>1, <2>2 DEF KeepDated, MemoryTyped, memory, data
<1>24. CASE WriteJson
  <2>1. whole' \in BOOLEAN
    BY <1>24 DEF WriteJson, MemoryTyped
  <2>2. used' \in 0..MaxEvents
    BY <1>24 DEF WriteJson, Event, MemoryTyped
  <2> QED
    BY <1>24, <2>1, <2>2, EmptyIsMaster DEF WriteJson, MemoryTyped, memory, data
<1>25. CASE StartEdit
  BY <1>25 DEF StartEdit, Edit, Event, MemoryTyped, memory, data, aux
<1>26. CASE AddManual
  BY <1>26 DEF AddManual, Event, memory, data, aux, MemoryTyped
<1>27. CASE Ban
  BY <1>27 DEF Ban, Event, memory, data, aux, MemoryTyped
<1>28. CASE RemoveFromText
  <2>1. whole' \in BOOLEAN
    BY <1>28 DEF RemoveFromText, MemoryTyped
  <2>2. used' \in 0..MaxEvents
    BY <1>28 DEF RemoveFromText, Event, MemoryTyped
  <2> QED
    BY <1>28, <2>1, <2>2 DEF RemoveFromText, MemoryTyped, memory, data
<1>29. CASE RemoveFromManual
  BY <1>29 DEF RemoveFromManual, Event, memory, data, aux, MemoryTyped
<1>30. CASE RemoveFromJson
  <2>1. whole' \in BOOLEAN
    BY <1>30 DEF RemoveFromJson, MemoryTyped
  <2>2. used' \in 0..MaxEvents
    BY <1>30 DEF RemoveFromJson, Event, MemoryTyped
  <2> QED
    BY <1>30, <2>1, <2>2 DEF RemoveFromJson, MemoryTyped, memory, data
<1>31. CASE SetCountry
  BY <1>31 DEF SetCountry, Event, memory, data, aux, MemoryTyped
<1>32. CASE UNCHANGED vars
  BY <1>32 DEF vars, memory, data, aux, MemoryTyped
<1> QED
  BY <1>1, <1>2, <1>3, <1>4, <1>5, <1>6, <1>7, <1>8, <1>9, <1>10, <1>11, <1>12,
     <1>13, <1>14, <1>15, <1>16, <1>17, <1>18, <1>19, <1>20, <1>21, <1>22, <1>23, <1>24,
     <1>25, <1>26, <1>27, <1>28, <1>29, <1>30, <1>31, <1>32
  DEF Next

LEMMA IdleFits == ASSUME TypeInv, Then("idle") PROVE ControlTyped'
  BY DEF TypeInv, Then, ControlTyped, Stages, Fetches, Editing

\* What comes after a stage belongs to the same flow.
LEMMA OnwardFits ==
  ASSUME TypeInv, pc \in Fetches \cup {"compare"}, UNCHANGED <<automatic, cur>>,
         Then(Onward(pc)) \/ Then("idle") \/ Then(pc)
  PROVE  ControlTyped'
<1> USE DEF TypeInv, ControlTyped, Stages, Fetches, FlowsOf, Flows, Editing
<1>1. CASE Then("idle")
  BY <1>1, IdleFits
<1>2. CASE Then(pc)
  BY <1>2 DEF Then
<1>3. CASE Then(Onward(pc)) /\ Onward(pc) # "idle"
  <2>1. CASE pc = "vpn"
    BY <1>3, <2>1 DEF Then, Onward, Following
  <2>2. CASE pc = "local"
    BY <1>3, <2>2 DEF Then, Onward, Following
  <2>3. CASE pc = "compare"
    BY <1>3, <2>3 DEF Then, Onward, Following
  <2>4. CASE pc = "live"
    BY <1>3, <2>4 DEF Then, Onward, Following
  <2>5. CASE pc = "view"
    BY <1>3, <2>5 DEF Then, Onward, Following
  <2> QED
    BY <2>1, <2>2, <2>3, <2>4, <2>5
<1> QED
  BY <1>1, <1>2, <1>3

LEMMA StartKeepsControl ==
  ASSUME TypeInv, NEW flow \in Flows, NEW stage \in Stages, Start(flow, stage),
         flow \in FlowsOf(stage),
         flow = "auto" \/ (flow = "step4" /\ stage = "live") => automatic,
         ~(flow = "step4" /\ stage = "view")
  PROVE  ControlTyped'
<1>1. cur' # 0
  BY DEF TypeInv, DiskTyped, Start, Session
<1> QED
  BY <1>1 DEF TypeInv, Start, ControlTyped, Stages, Fetches, Editing

LEMMA ControlSteps == ASSUME TypeInv, [Next]_vars PROVE ControlTyped'
<1> USE DEF TypeInv
<1>1. ASSUME NEW u \in Pages, Move(u) PROVE ControlTyped'
  BY <1>1
  DEF Move, master, task, ControlTyped, Stages, Fetches, FlowsOf, Flows, Edits, Editing,
      Compiling, DiskTyped
<1>2. CASE Age
  BY <1>2
  DEF Age, master, task, ControlTyped, Stages, Fetches, FlowsOf, Flows, Edits, Editing,
      Compiling, DiskTyped
<1>3. CASE RequestStop
  BY <1>3
  DEF RequestStop, master, task, ControlTyped, Stages, Fetches, FlowsOf, Flows, Edits,
      Editing, Compiling, DiskTyped
<1>4. CASE ChangeProvider
  BY <1>4
  DEF ChangeProvider, master, task, ControlTyped, Stages, Fetches, FlowsOf, Flows, Edits,
      Editing, Compiling, DiskTyped
<1>5. CASE NewSession
  BY <1>5
  DEF NewSession, master, task, ControlTyped, Stages, Fetches, FlowsOf, Flows, Edits,
      Editing, Compiling, DiskTyped
<1>6. CASE UseLatestSession
  BY <1>6
  DEF UseLatestSession, master, task, ControlTyped, Stages, Fetches, FlowsOf, Flows, Edits,
      Editing, Compiling, DiskTyped
<1>7. CASE Restart
  BY <1>7 DEF Restart, ControlTyped, Stages, Fetches, FlowsOf, Flows, Edits, Editing, Compiling
<1>8. CASE StartFullAuto
  BY <1>8, StartKeepsControl DEF StartFullAuto, FlowsOf, Flows, Stages, Fetches
<1>9. CASE StartStep1
  BY <1>9, StartKeepsControl DEF StartStep1, FlowsOf, Flows, Stages, Fetches
<1>10. CASE StartStep2
  BY <1>10, StartKeepsControl DEF StartStep2, FlowsOf, Flows, Stages, Fetches
<1>11. CASE StartStep3
  BY <1>11, StartKeepsControl DEF StartStep3, FlowsOf, Flows, Stages, Fetches
<1>12. CASE StartStep4
  BY <1>12, StartKeepsControl DEF StartStep4, FlowsOf, Flows, Stages, Fetches
<1>13. ASSUME NEW found \in Answers, Attempt(found) PROVE ControlTyped'
  <2>1. CASE found = {} /\ tries + 1 < MaxAttempts
    BY <1>13, <2>1 DEF Attempt, ControlTyped, task, master
  <2>2. CASE ~(found = {} /\ tries + 1 < MaxAttempts)
    <3>1. Then(Onward(pc)) \/ Then("idle") \/ Then(pc)
      BY <1>13, <2>2 DEF Attempt, Fetched, AfterSnapshot
    <3> QED
      BY <1>13, <3>1, OnwardFits DEF Attempt, master
  <2> QED
    BY <2>1, <2>2
<1>14. CASE FetchGivesUp
  <2>1. Then(Onward(pc)) \/ Then("idle") \/ Then(pc)
    BY <1>14 DEF FetchGivesUp, Fetched, AfterSnapshot
  <2> QED
    BY <1>14, <2>1, OnwardFits DEF FetchGivesUp, master
<1>15. CASE VpnFails
  BY <1>15, IdleFits DEF VpnFails
<1>16. CASE SaveList
  <2>1. Then(Onward(pc)) \/ Then("idle")
    BY <1>16 DEF SaveList
  <2> QED
    BY <1>16, <2>1, OnwardFits DEF SaveList, master, Fetches
<1>17. CASE Compare
  <2>1. Then(Onward(pc)) \/ Then("idle")
    BY <1>17 DEF Compare
  <2> QED
    BY <1>17, <2>1, OnwardFits DEF Compare, master
<1>18. CASE Verify
  BY <1>18
  DEF Verify, Then, master, ControlTyped, Stages, Fetches, FlowsOf, Flows, Edits, Editing,
      Compiling
<1>19. CASE Publish
  BY <1>19
  DEF Publish, Then, master, ControlTyped, Stages, Fetches, FlowsOf, Flows, Edits, Editing,
      Compiling
<1>20. CASE Clean
  BY <1>20
  DEF Clean, Then, master, ControlTyped, Stages, Fetches, FlowsOf, Flows, Edits, Editing,
      Compiling
<1>21. CASE Compile
  BY <1>21
  DEF Compile, Then, master, ControlTyped, Stages, Fetches, FlowsOf, Flows, Edits, Editing,
      Compiling
<1>22. CASE WriteText
  BY <1>22
  DEF WriteText, Then, master, ControlTyped, Stages, Fetches, FlowsOf, Flows, Edits, Editing,
      Compiling
<1>23. CASE KeepDated
  BY <1>23
  DEF KeepDated, Then, master, ControlTyped, Stages, Fetches, FlowsOf, Flows, Edits, Editing,
      Compiling
<1>24. CASE WriteJson
  BY <1>24
  DEF WriteJson, Then, master, ControlTyped, Stages, Fetches, FlowsOf, Flows, Edits, Editing,
      Compiling
<1>25. CASE StartEdit
  <2>1. PICK kind, u, stage :
          /\ kind \in Edits /\ Edit(kind, u, stage)
          /\ \/ stage = "compile"
             \/ stage \in {"add", "untext"} /\ u \in Pages
             \/ stage = "ban" /\ kind = "block" /\ u \in Pages
             \/ stage = "country" /\ u \in Names(json) /\ u \in Pages
    BY <1>25 DEF StartEdit, Edits
  <2> QED
    BY <2>1
    DEF Edit, master, ControlTyped, Stages, Fetches, FlowsOf, Flows, Edits, Editing, Compiling
<1>26. CASE AddManual
  BY <1>26
  DEF AddManual, Then, master, ControlTyped, Stages, Fetches, FlowsOf, Flows, Edits, Editing,
      Compiling
<1>27. CASE Ban
  BY <1>27
  DEF Ban, Then, master, ControlTyped, Stages, Fetches, FlowsOf, Flows, Edits, Editing,
      Compiling
<1>28. CASE RemoveFromText
  BY <1>28
  DEF RemoveFromText, Then, master, ControlTyped, Stages, Fetches, FlowsOf, Flows, Edits,
      Editing, Compiling
<1>29. CASE RemoveFromManual
  BY <1>29
  DEF RemoveFromManual, Then, master, ControlTyped, Stages, Fetches, FlowsOf, Flows, Edits,
      Editing, Compiling
<1>30. CASE RemoveFromJson
  BY <1>30
  DEF RemoveFromJson, Then, master, ControlTyped, Stages, Fetches, FlowsOf, Flows, Edits,
      Editing, Compiling
<1>31. CASE SetCountry
  BY <1>31
  DEF SetCountry, Then, master, ControlTyped, Stages, Fetches, FlowsOf, Flows, Edits,
      Editing, Compiling
<1>32. CASE UNCHANGED vars
  BY <1>32 DEF vars, master, task, ControlTyped
<1> QED
  BY <1>1, <1>2, <1>3, <1>4, <1>5, <1>6, <1>7, <1>8, <1>9, <1>10, <1>11, <1>12,
     <1>13, <1>14, <1>15, <1>16, <1>17, <1>18, <1>19, <1>20, <1>21, <1>22, <1>23, <1>24,
     <1>25, <1>26, <1>27, <1>28, <1>29, <1>30, <1>31, <1>32
  DEF Next

LEMMA InitTypeInv == Init => TypeInv
<1> SUFFICES ASSUME Init PROVE TypeInv
  OBVIOUS
<1>1. DiskTyped
  BY DEF Init, DiskTyped, Sessions, Lists
<1>2. MemoryTyped
  <2>1. whole \in BOOLEAN /\ sighted \in BOOLEAN
    BY DEF Init
  <2> QED
    BY <2>1, EmptyIsMaster, NoReferencesAreReferences DEF Init, MemoryTyped, Lists
<1>3. ControlTyped
  BY DEF Init, ControlTyped, Stages, Fetches, Editing
<1> QED
  BY <1>1, <1>2, <1>3 DEF TypeInv

LEMMA TypeInvariance == Spec => []TypeInv
<1>1. ASSUME TypeInv, [Next]_vars PROVE TypeInv'
  BY <1>1, DiskSteps, MemorySteps, ControlSteps DEF TypeInv
<1> QED
  BY <1>1, InitTypeInv, PTL DEF Spec

\* Every reachable state is well typed: what the files, the memory and the
\* task that runs hold (all handlers of MFCRunner and the service's starts).
THEOREM Typing == Spec => []TypeOK
<1>1. TypeInv => TypeOK
  BY DEF TypeInv, DiskTyped, MemoryTyped, ControlTyped, TypeOK
<1> QED
  BY <1>1, TypeInvariance, PTL

-----------------------------------------------------------------------------
(* What is confirmed.                                                      *)

\* Pages that a verification may confirm.
Excused == Hidden \cup slipped
PairSound == live # NoFile /\ view # NoFile => live \ view \subseteq Excused

\* Snapshots that will be compared belong together: the references of manual
\* steps, or those of the flow that is about to verify.
PairInv ==
  /\ (refs.vpn /\ refs.local) \/ pc = "verify" => PairSound
  /\ automatic => ~refs.vpn /\ ~refs.local
  /\ (op = "step1" /\ pc = "live") \/ (op = "step2" /\ pc = "view") => ~automatic

FilesInv ==
  /\ \A s \in Sessions : Lines(verified[s]) \subseteq Excused
  /\ \A u \in Names(json) : ~json[u].pending /\ ~json[u].manual => u \in Excused
  /\ \A u \in DOMAIN plan : ~plan[u].pending /\ ~plan[u].manual => u \in Excused
  /\ pc = "publish" => got \subseteq Excused

LEMMA FetchedKeepsPairs ==
  ASSUME TypeInv, PairInv, NEW found, pc \in Fetches, Fetched(found),
         UNCHANGED automatic
  PROVE  PairInv'
<1> USE DEF PairInv, TypeInv, ControlTyped, FlowsOf, Stages, Fetches
<1>1. CASE pc = "vpn"
  BY <1>1 DEF Fetched, Then, Onward, Following, PairSound, Excused, memory
<1>2. CASE pc = "local"
  BY <1>2 DEF Fetched, Then, Onward, Following, PairSound, Excused, memory
<1>3. CASE pc = "live"
  <2>1. ~(refs'.vpn /\ refs'.local) /\ (automatic => ~refs'.vpn /\ ~refs'.local)
    BY <1>3 DEF Fetched
  <2>2. pc' \in {"idle", "view"} /\ op' \in {op, "none"} /\ op # "step2"
    BY <1>3 DEF Fetched, Then, AfterSnapshot, Onward, Following
  <2> QED
    BY <2>1, <2>2
<1>4. CASE pc = "view"
  <2>1. live' = live /\ view' = Reference(found)
        /\ slipped' = slipped \cup (Lines(live) \ (found \cup Hidden))
    BY <1>4 DEF Fetched
  <2>2. PairSound'
    BY <2>1 DEF PairSound, Reference, Lines, Excused
  <2>3. automatic => ~refs'.vpn /\ ~refs'.local
    BY <1>4 DEF Fetched
  <2>4. pc' \in {"idle", "verify"}
    BY <1>4 DEF Fetched, Then, AfterSnapshot, Onward, Following
  <2> QED
    BY <2>2, <2>3, <2>4
<1> QED
  BY <1>1, <1>2, <1>3, <1>4

LEMMA PairSteps == ASSUME TypeInv, PairInv, [Next]_vars PROVE PairInv'
<1> USE DEF PairInv, PairSound, Excused
<1>1. ASSUME NEW u \in Pages, Move(u) PROVE PairInv'
  BY <1>1 DEF Move, Then, memory, task, aux
<1>2. CASE Age
  BY <1>2 DEF Age, Then, memory, task, aux
<1>3. CASE RequestStop
  BY <1>3 DEF RequestStop, Then, memory, task, aux
<1>4. CASE ChangeProvider
  BY <1>4 DEF ChangeProvider, NoReferences, task
<1>5. CASE NewSession
  BY <1>5 DEF NewSession, Then, memory, task, aux
<1>6. CASE UseLatestSession
  BY <1>6 DEF UseLatestSession, Then, memory, task, aux
<1>7. CASE Restart
  BY <1>7 DEF Restart, NoReferences
<1>8. CASE StartFullAuto
  BY <1>8 DEF StartFullAuto, Start, aux
<1>9. CASE StartStep1
  BY <1>9 DEF StartStep1, Start, LocalForgotten, ReferencesServe, NoReferences, aux
<1>10. CASE StartStep2
  BY <1>10 DEF StartStep2, Start, LocalForgotten, ReferencesServe, NoReferences, aux
<1>11. CASE StartStep3
  BY <1>11 DEF StartStep3, Start, aux
<1>12. CASE StartStep4
  BY <1>12 DEF StartStep4, Start, LocalForgotten, ReferencesServe, NoReferences, aux
<1>13. ASSUME NEW found \in Answers, Attempt(found) PROVE PairInv'
  <2>1. CASE Fetched(found)
    BY <1>13, <2>1, FetchedKeepsPairs DEF Attempt
  <2>2. CASE ~Fetched(found)
    BY <1>13, <2>2 DEF Attempt, memory, task
  <2> QED
    BY <2>1, <2>2
<1>14. CASE FetchGivesUp
  BY <1>14, FetchedKeepsPairs DEF FetchGivesUp
<1>15. CASE VpnFails
  BY <1>15 DEF VpnFails, Then, memory, task, aux
<1>16. CASE SaveList
  BY <1>16
  DEF SaveList, Then, Onward, Following, memory, aux, TypeInv, ControlTyped, Stages, Fetches,
      FlowsOf
<1>17. CASE Compare
  BY <1>17
  DEF Compare, Then, Onward, Following, memory, aux, TypeInv, ControlTyped, Stages, Fetches,
      FlowsOf
<1>18. CASE Verify
  BY <1>18 DEF Verify, Then, memory, task, aux
<1>19. CASE Publish
  BY <1>19 DEF Publish, Then, memory, task, aux
<1>20. CASE Clean
  BY <1>20 DEF Clean, Then, memory, task, aux
<1>21. CASE Compile
  BY <1>21 DEF Compile, Then, memory, task, aux
<1>22. CASE WriteText
  BY <1>22 DEF WriteText, Then, memory, task, aux
<1>23. CASE KeepDated
  BY <1>23 DEF KeepDated, Then, memory, task, aux
<1>24. CASE WriteJson
  BY <1>24 DEF WriteJson, Then, memory, task, aux
<1>25. CASE StartEdit
  BY <1>25 DEF StartEdit, Edit, memory, aux
<1>26. CASE AddManual
  BY <1>26 DEF AddManual, Then, memory, task, aux
<1>27. CASE Ban
  BY <1>27 DEF Ban, Then, memory, task, aux
<1>28. CASE RemoveFromText
  BY <1>28 DEF RemoveFromText, Then, memory, task, aux
<1>29. CASE RemoveFromManual
  BY <1>29 DEF RemoveFromManual, Then, memory, task, aux
<1>30. CASE RemoveFromJson
  BY <1>30 DEF RemoveFromJson, Then, memory, task, aux
<1>31. CASE SetCountry
  BY <1>31 DEF SetCountry, Then, memory, task, aux
<1>32. CASE UNCHANGED vars
  BY <1>32 DEF vars, memory, task, aux
<1> QED
  BY <1>1, <1>2, <1>3, <1>4, <1>5, <1>6, <1>7, <1>8, <1>9, <1>10, <1>11, <1>12,
     <1>13, <1>14, <1>15, <1>16, <1>17, <1>18, <1>19, <1>20, <1>21, <1>22, <1>23, <1>24,
     <1>25, <1>26, <1>27, <1>28, <1>29, <1>30, <1>31, <1>32
  DEF Next

LEMMA FetchedKeepsFiles ==
  ASSUME TypeInv, FilesInv, NEW found, pc \in Fetches, Fetched(found),
         UNCHANGED <<folders, master, plan>>
  PROVE  FilesInv'
<1>1. slipped \subseteq slipped'
  BY DEF Fetched
<1>2. pc' # "publish"
  BY DEF Fetched, Then, AfterSnapshot, Onward, Following, TypeInv, ControlTyped, Stages,
         Fetches, FlowsOf
<1> QED
  BY <1>1, <1>2 DEF FilesInv, Excused, Names, Readable, folders, master

\* An entry that a compilation takes for confirmed is on a verified list.
LEMMA ConfirmedAreExcused ==
  ASSUME FilesInv, NEW mine, NEW black, NEW read, NEW old,
         \A s \in read : s \in Sessions,
         NEW u \in DOMAIN Compiled(mine, black, read, old),
         ~Compiled(mine, black, read, old)[u].pending,
         ~Compiled(mine, black, read, old)[u].manual
  PROVE  u \in Excused
<1>1. u \notin mine /\ u \in Pages
      /\ \E s \in read : u \in Source(s) /\ ~Unjudged(s)
  BY DEF Compiled
<1> QED
  BY <1>1 DEF Unjudged, Source, Lines, FilesInv

LEMMA FilesSteps == ASSUME TypeInv, PairInv, FilesInv, [Next]_vars PROVE FilesInv'
<1> USE DEF FilesInv, Names, Readable, Excused
<1>1. ASSUME NEW u \in Pages, Move(u) PROVE FilesInv'
  BY <1>1 DEF Move, Then, folders, master, data, aux, task
<1>2. CASE Age
  BY <1>2 DEF Age, Then, folders, master, data, aux, task
<1>3. CASE RequestStop
  BY <1>3 DEF RequestStop, Then, folders, master, data, aux, task
<1>4. CASE ChangeProvider
  BY <1>4 DEF ChangeProvider, Then, folders, master, data, aux, task
<1>5. CASE NewSession
  BY <1>5 DEF NewSession, Then, folders, master, data, aux, task
<1>6. CASE UseLatestSession
  BY <1>6 DEF UseLatestSession, Then, folders, master, data, aux, task
<1>7. CASE Restart
  BY <1>7, EmptyIsMaster DEF Restart, master, folders
<1>8. CASE StartFullAuto
  BY <1>8 DEF StartFullAuto, Start, master, aux
<1>9. CASE StartStep1
  BY <1>9 DEF StartStep1, Start, master, aux
<1>10. CASE StartStep2
  BY <1>10 DEF StartStep2, Start, master, aux
<1>11. CASE StartStep3
  BY <1>11 DEF StartStep3, Start, master, aux
<1>12. CASE StartStep4
  BY <1>12 DEF StartStep4, Start, master, aux
<1>13. ASSUME NEW found \in Answers, Attempt(found) PROVE FilesInv'
  <2>1. CASE Fetched(found)
    BY <1>13, <2>1, FetchedKeepsFiles DEF Attempt
  <2>2. CASE ~Fetched(found)
    BY <1>13, <2>2 DEF Attempt, folders, master, task
  <2> QED
    BY <2>1, <2>2
<1>14. CASE FetchGivesUp
  BY <1>14, FetchedKeepsFiles DEF FetchGivesUp
<1>15. CASE VpnFails
  BY <1>15 DEF VpnFails, Then, folders, master, data, aux, task
<1>16. CASE SaveList
  BY <1>16
  DEF SaveList, Then, Onward, Following, master, aux, TypeInv, ControlTyped, Stages, Fetches,
      FlowsOf
<1>17. CASE Compare
  BY <1>17
  DEF Compare, Then, Onward, Following, master, data, aux, TypeInv, ControlTyped, Stages,
      Fetches, FlowsOf
<1>18. CASE Verify
  <2>1. CASE pc' = "publish"
    <3>1. live # NoFile /\ view # NoFile /\ got' \subseteq live \ view
      BY <1>18, <2>1 DEF Verify, Then, Confirmed, Lines
    <3>2. live \ view \subseteq Excused
      BY <1>18, <3>1 DEF Verify, PairInv, PairSound
    <3> QED
      BY <1>18, <3>1, <3>2 DEF Verify, folders, master, aux
  <2>2. CASE pc' # "publish"
    BY <1>18, <2>2 DEF Verify, folders, master, aux
  <2> QED
    BY <2>1, <2>2
<1>19. CASE Publish
  <2>1. PICK content \in Remains(verified[cur], got) :
          verified' = [verified EXCEPT ![cur] = content]
    BY <1>19 DEF Publish
  <2>2. Lines(content) \subseteq Excused
    <3>1. CASE content \in SUBSET got
      BY <1>19, <3>1 DEF Publish, Lines
    <3>2. CASE content = verified[cur]
      <4>1. cur \in Sessions
        BY <1>19 DEF Publish, TypeInv, DiskTyped, ControlTyped, Sessions
      <4> QED
        BY <3>2, <4>1
    <3> QED
      BY <2>1, <3>1, <3>2 DEF Remains
  <2>3. \A s \in Sessions : Lines(verified'[s]) \subseteq Excused
    BY <2>1, <2>2 DEF TypeInv, DiskTyped
  <2>4. pc' # "publish" /\ json' = json /\ plan' = plan /\ slipped' = slipped
    BY <1>19 DEF Publish, Then, master, aux
  <2> QED
    BY <2>3, <2>4
<1>20. CASE Clean
  BY <1>20 DEF Clean, Then, folders, master, data, aux, task
<1>21. CASE Compile
  <2> DEFINE old(sees) == IF sees /\ Readable(json) THEN json ELSE <<>>
  <2>1. PICK mine \in {manual, {}}, black \in {banned, {}}, read \in SUBSET (1..made),
             sees \in BOOLEAN :
          plan' = Compiled(mine, black, read, old(sees))
    BY <1>21 DEF Compile
  <2>2. \A s \in read : s \in Sessions
    BY <2>1 DEF TypeInv, DiskTyped, Sessions
  <2>3. \A u \in DOMAIN plan' : ~plan'[u].pending /\ ~plan'[u].manual => u \in Excused
    BY <2>1, <2>2, ConfirmedAreExcused DEF Excused
  <2> QED
    BY <1>21, <2>3 DEF Compile, Then, folders, master
<1>22. CASE WriteText
  BY <1>22 DEF WriteText, Then, folders, master, data, aux, task
<1>23. CASE KeepDated
  BY <1>23 DEF KeepDated, Then, folders, master, data, aux, task
<1>24. CASE WriteJson
  BY <1>24, EmptyIsMaster DEF WriteJson, JsonRemains, Then, folders, aux
<1>25. CASE StartEdit
  BY <1>25 DEF StartEdit, Edit, folders, master, data, aux
<1>26. CASE AddManual
  BY <1>26 DEF AddManual, Then, folders, master, data, aux, task
<1>27. CASE Ban
  BY <1>27 DEF Ban, Then, folders, master, data, aux, task
<1>28. CASE RemoveFromText
  BY <1>28 DEF RemoveFromText, Then, folders, master, data, aux, task
<1>29. CASE RemoveFromManual
  BY <1>29 DEF RemoveFromManual, Then, folders, master, data, aux, task
<1>30. CASE RemoveFromJson
  BY <1>30 DEF RemoveFromJson, WithoutEntry, JsonRemains, Then, folders, data, aux
<1>31. CASE SetCountry
  <2>1. Readable(json) /\ target \in DOMAIN json
    BY <1>31 DEF SetCountry, TypeInv, ControlTyped
  <2>2. PICK list \in SUBSET Pages : json \in [list -> Entry]
    BY <2>1 DEF TypeInv, DiskTyped, Masters
  <2>3. json[target] \in Entry
    BY <2>1, <2>2
  <2>4. CASE json' = [json EXCEPT ![target].country = TRUE]
    <3>1. DOMAIN json' = DOMAIN json
      BY <2>2, <2>4
    <3>2. \A u \in DOMAIN json :
            json'[u].pending = json[u].pending /\ json'[u].manual = json[u].manual
      BY <2>2, <2>3, <2>4 DEF Entry
    <3>3. \A u \in Names(json') : ~json'[u].pending /\ ~json'[u].manual => u \in Excused
      BY <2>1, <3>1, <3>2
    <3> QED
      BY <1>31, <3>3 DEF SetCountry, Then, folders, data, aux
  <2>5. CASE JsonRemains
    BY <1>31, <2>5 DEF SetCountry, JsonRemains, Then, folders, data, aux
  <2> QED
    BY <1>31, <2>4, <2>5 DEF SetCountry
<1>32. CASE UNCHANGED vars
  BY <1>32 DEF vars, folders, master, data, task, aux
<1> QED
  BY <1>1, <1>2, <1>3, <1>4, <1>5, <1>6, <1>7, <1>8, <1>9, <1>10, <1>11, <1>12,
     <1>13, <1>14, <1>15, <1>16, <1>17, <1>18, <1>19, <1>20, <1>21, <1>22, <1>23, <1>24,
     <1>25, <1>26, <1>27, <1>28, <1>29, <1>30, <1>31, <1>32
  DEF Next

LEMMA SoundInvariance == Spec => [](TypeInv /\ PairInv /\ FilesInv)
<1>1. Init => PairInv /\ FilesInv
  BY EmptyIsMaster
  DEF Init, PairInv, FilesInv, PairSound, NoReferences, Lines, Names, Readable
<1>2. ASSUME TypeInv, PairInv, FilesInv, [Next]_vars PROVE PairInv' /\ FilesInv'
  BY <1>2, PairSteps, FilesSteps
<1> QED
  BY <1>1, <1>2, TypeInvariance, PTL DEF Spec

\* Whatever pages come and go, servers answer, steps are repeated and processes
\* die: an entry of the master list that neither awaits verification nor is the
\* operator's is hidden from this connection, or a snapshot missed it
\* (verify_live_models, compile_master_list, the references of start_verify).
THEOREM Soundness == Spec => []MasterIsSound
<1>1. FilesInv => MasterIsSound
  BY DEF FilesInv, MasterIsSound, Excused
<1> QED
  BY <1>1, SoundInvariance, PTL

-----------------------------------------------------------------------------
(* The two files of the master list.                                       *)

Settled == Shown = Lines(text) /\ Lines(text) \cap banned = {}
\* Where no file of the master list is half-way.
Resting == Stages \cup {"idle", "publish", "clean", "compile", "add", "country", "ban"}

\* As long as nothing was cut short or failed, the files agree but for the page
\* that is being removed, and a compilation goes through text, then JSON.
AgreeInv ==
  whole =>
    /\ pc \in Resting => Settled
    /\ pc = "untext" => /\ Shown = Lines(text) /\ Lines(text) \cap banned \subseteq {target}
                        /\ op # "block" => Settled
    /\ pc \in {"unmanual", "unjson"} =>
         Shown \ {target} = Lines(text) /\ Lines(text) \cap banned = {}
    /\ pc = "text" => DOMAIN plan \cap banned = {}
    /\ pc \in {"back", "json"} => text = DOMAIN plan /\ DOMAIN plan \cap banned = {}

LEMMA OnwardRests ==
  ASSUME TypeInv, pc \in Fetches \cup {"compare"}
  PROVE  Onward(pc) \in Stages \cup {"idle"}
  BY DEF Onward, Following, Stages, Fetches, TypeInv, ControlTyped, FlowsOf

\* Steps that leave the master list alone and rest before and after.
LEMMA AtRest ==
  ASSUME AgreeInv, UNCHANGED <<text, json, banned, whole>>, pc \in Resting, pc' \in Resting
  PROVE  AgreeInv'
  BY DEF AgreeInv, Settled, Shown, Resting, Stages, Fetches

LEMMA AgreeSteps == ASSUME TypeInv, AgreeInv, [Next]_vars PROVE AgreeInv'
<1>1. ASSUME NEW u \in Pages, Move(u) PROVE AgreeInv'
  BY <1>1 DEF Move, AgreeInv, Settled, Shown, master, task, data, aux
<1>2. CASE Age
  BY <1>2 DEF Age, AgreeInv, Settled, Shown, master, task, data, aux
<1>3. CASE RequestStop
  BY <1>3 DEF RequestStop, AgreeInv, Settled, Shown, master, task, data, aux
<1>4. CASE ChangeProvider
  BY <1>4, AtRest DEF ChangeProvider, Resting, Stages, Fetches, master, task, aux
<1>5. CASE NewSession
  BY <1>5, AtRest DEF NewSession, Resting, Stages, Fetches, master, task, aux
<1>6. CASE UseLatestSession
  BY <1>6, AtRest DEF UseLatestSession, Resting, Stages, Fetches, master, task, aux
<1>7. CASE Restart
  <2>1. UNCHANGED <<text, json, banned>> /\ pc' = "idle"
    BY <1>7 DEF Restart, master
  <2>2. CASE whole'
    <3>1. whole /\ pc \notin {"text", "back", "json", "unmanual", "unjson"}
          /\ ~(pc = "untext" /\ op = "block")
      BY <1>7, <2>2 DEF Restart
    <3>2. pc \in Resting \/ (pc = "untext" /\ op # "block")
      BY <3>1 DEF Resting, TypeInv, ControlTyped, Compiling, Editing
    <3>3. Settled
      BY <3>1, <3>2 DEF AgreeInv
    <3> QED
      BY <2>1, <3>3 DEF AgreeInv, Settled, Shown
  <2>3. CASE ~whole'
    BY <2>3 DEF AgreeInv
  <2> QED
    BY <2>2, <2>3
<1>8. CASE StartFullAuto
  BY <1>8, AtRest DEF StartFullAuto, Start, Resting, Stages, Fetches, master, aux
<1>9. CASE StartStep1
  BY <1>9, AtRest DEF StartStep1, Start, Resting, Stages, Fetches, master, aux
<1>10. CASE StartStep2
  BY <1>10, AtRest DEF StartStep2, Start, Resting, Stages, Fetches, master, aux
<1>11. CASE StartStep3
  BY <1>11, AtRest DEF StartStep3, Start, Resting, Stages, Fetches, master, aux
<1>12. CASE StartStep4
  BY <1>12, AtRest DEF StartStep4, Start, Resting, Stages, Fetches, master, aux
<1>13. ASSUME NEW found \in Answers, Attempt(found) PROVE AgreeInv'
  <2>1. pc' \in Stages \cup {"idle"} /\ pc \in Stages
    BY <1>13, OnwardRests DEF Attempt, Fetched, AfterSnapshot, Then, Stages, Fetches, task
  <2> QED
    BY <1>13, <2>1, AtRest DEF Attempt, master, Resting
<1>14. CASE FetchGivesUp
  <2>1. pc' \in Stages \cup {"idle"} /\ pc \in Stages
    BY <1>14, OnwardRests DEF FetchGivesUp, Fetched, AfterSnapshot, Then, Stages, Fetches
  <2> QED
    BY <1>14, <2>1, AtRest DEF FetchGivesUp, master, Resting
<1>15. CASE VpnFails
  BY <1>15, AtRest DEF VpnFails, Then, Resting, Stages, Fetches, master, aux
<1>16. CASE SaveList
  <2>1. pc' \in Stages \cup {"idle"} /\ pc \in Stages
    BY <1>16, OnwardRests DEF SaveList, Then, Stages, Fetches
  <2> QED
    BY <1>16, <2>1, AtRest DEF SaveList, master, aux, Resting
<1>17. CASE Compare
  <2>1. pc' \in Stages \cup {"idle"} /\ pc \in Stages
    BY <1>17, OnwardRests DEF Compare, Then, Stages, Fetches
  <2> QED
    BY <1>17, <2>1, AtRest DEF Compare, master, aux, Resting
<1>18. CASE Verify
  BY <1>18, AtRest DEF Verify, Then, Resting, Stages, Fetches, master, aux
<1>19. CASE Publish
  BY <1>19, AtRest DEF Publish, Then, Resting, Stages, Fetches, master, aux
<1>20. CASE Clean
  BY <1>20, AtRest DEF Clean, Then, Resting, Stages, Fetches, master, aux
<1>21. CASE Compile
  <2>1. CASE whole'
    <3>1. PICK mine, read, old : plan' = Compiled(mine, banned, read, old)
      BY <1>21, <2>1 DEF Compile
    <3>2. DOMAIN plan' \cap banned = {}
      BY <3>1 DEF Compiled
    <3> QED
      BY <1>21, <3>2 DEF Compile, Then, AgreeInv, Resting, Stages, Fetches, master
  <2>2. CASE ~whole'
    BY <2>2 DEF AgreeInv
  <2> QED
    BY <2>1, <2>2
<1>22. CASE WriteText
  BY <1>22 DEF WriteText, Then, AgreeInv, Resting, Stages, Fetches, data
<1>23. CASE KeepDated
  BY <1>23 DEF KeepDated, Then, AgreeInv, Resting, Stages, Fetches, data
<1>24. CASE WriteJson
  <2>1. CASE json' = plan /\ whole' = whole
    <3>1. Readable(plan) /\ NoFile \notin {DOMAIN plan}
      BY DEF Readable, TypeInv, MemoryTyped, Masters
    <3>2. whole => text = DOMAIN plan /\ DOMAIN plan \cap banned = {}
      BY <1>24 DEF WriteJson, AgreeInv
    <3> QED
      BY <1>24, <2>1, <3>1, <3>2 DEF WriteJson, Then, AgreeInv, Settled, Shown, Lines
  <2>2. CASE ~whole'
    BY <2>2 DEF AgreeInv
  <2> QED
    BY <1>24, <2>1, <2>2 DEF WriteJson
<1>25. CASE StartEdit
  <2>1. PICK kind, u, stage : Edit(kind, u, stage)
                                /\ (stage \in {"compile", "add", "ban", "country"}
                                    \/ (stage = "untext" /\ kind = "remove"))
    BY <1>25 DEF StartEdit
  <2>2. whole => Settled
    BY <2>1 DEF Edit, AgreeInv, Resting
  <2> QED
    BY <2>1, <2>2
    DEF Edit, AgreeInv, Settled, Shown, Resting, Stages, Fetches, master, data, aux
<1>26. CASE AddManual
  BY <1>26, AtRest DEF AddManual, Then, Resting, Stages, Fetches, master, aux
<1>27. CASE Ban
  <2>1. whole => Settled
    BY <1>27 DEF Ban, AgreeInv, Resting
  <2>2. UNCHANGED <<text, json, whole>> /\ Shown' = Shown
    BY <1>27 DEF Ban, Shown, aux
  <2>3. CASE banned' = banned
    <3>1. pc' \in {"idle", "untext"} /\ (pc' = "untext" => text # NoFile)
      BY <1>27 DEF Ban, Then
    <3>2. whole' => Settled'
      BY <2>1, <2>2, <2>3 DEF Settled
    <3> QED
      BY <2>2, <3>1, <3>2 DEF AgreeInv, Settled, Resting, Stages, Fetches
  <2>4. CASE banned' = banned \cup {target} /\ text = NoFile
    <3>1. pc' = "idle"
      BY <1>27, <2>4 DEF Ban, Then
    <3>2. whole' => Settled'
      BY <2>1, <2>2, <2>4 DEF Settled, Lines
    <3> QED
      BY <3>1, <3>2 DEF AgreeInv, Resting
  <2>5. CASE banned' = banned \cup {target} /\ text # NoFile /\ pc' = "untext"
    <3>1. op' = "block" /\ target' = target
      BY <1>27, <2>5 DEF Ban, Then, TypeInv, ControlTyped
    <3>2. whole' => Shown' = Lines(text') /\ Lines(text') \cap banned' \subseteq {target'}
      BY <2>1, <2>2, <2>5, <3>1 DEF Settled
    <3> QED
      BY <2>5, <3>1, <3>2 DEF AgreeInv, Resting, Stages, Fetches
  <2> QED
    BY <1>27, <2>3, <2>4, <2>5 DEF Ban, Then
<1>28. CASE RemoveFromText
  <2>1. whole => Shown = Lines(text) /\ Lines(text) \cap banned \subseteq {target}
    BY <1>28 DEF RemoveFromText, AgreeInv
  <2>2. CASE target \notin Lines(text)
    <3>1. pc' = "idle" /\ UNCHANGED <<text, json, banned, whole>> /\ Shown' = Shown
      BY <1>28, <2>2 DEF RemoveFromText, Then, Shown
    <3>2. whole' => Settled'
      BY <2>1, <2>2, <3>1 DEF Settled
    <3> QED
      BY <3>1, <3>2 DEF AgreeInv, Resting
  <2>3. CASE text' = Lines(text) \ {target} /\ target \in Lines(text) /\ whole' = whole
    <3>1. text' # NoFile /\ Lines(text') = Lines(text) \ {target}
      BY <2>3 DEF Lines, TypeInv, DiskTyped, Lists
    <3>2. json' = json /\ banned' = banned /\ pc' = "unmanual" /\ target' = target
      BY <1>28, <2>3 DEF RemoveFromText, Then
    <3>3. whole => Shown' \ {target} = Lines(text') /\ Lines(text') \cap banned = {}
      BY <2>1, <3>1, <3>2 DEF Shown
    <3> QED
      BY <2>3, <3>2, <3>3 DEF AgreeInv, Resting, Stages, Fetches
  <2>4. CASE ~whole'
    BY <2>4 DEF AgreeInv
  <2> QED
    BY <1>28, <2>2, <2>3, <2>4 DEF RemoveFromText
<1>29. CASE RemoveFromManual
  BY <1>29 DEF RemoveFromManual, Then, AgreeInv, Shown, Resting, Stages, Fetches, aux
<1>30. CASE RemoveFromJson
  <2>1. CASE ~whole'
    BY <2>1 DEF AgreeInv
  <2>2. CASE json' = WithoutEntry(target) /\ whole' = whole
    <3>1. whole => Shown \ {target} = Lines(text) /\ Lines(text) \cap banned = {}
      BY <1>30 DEF RemoveFromJson, AgreeInv
    <3>2. whole => Shown' = Lines(text)
      <4>1. CASE target \in Names(json)
        <5>1. json' = [v \in Names(json) \ {target} |-> json[v]] /\ Readable(json)
          BY <2>2, <4>1 DEF WithoutEntry, Names
        <5>2. json' \in Masters
          <6>1. WithoutEntry(target) # NoFile /\ WithoutEntry(target) # Torn
            <7>1. PICK list \in SUBSET Pages : json \in [list -> Entry]
              BY <5>1 DEF TypeInv, DiskTyped, Masters, Readable
            <7>2. json' \in [list \ {target} -> Entry]
              BY <5>1, <7>1 DEF Names
            <7> QED
              BY <2>2, <7>2, MFCAssumption
          <6> QED
            BY <2>2, <6>1, WithoutIsMaster
        <5>3. Readable(json') /\ DOMAIN json' = Names(json) \ {target}
          BY <5>1, <5>2 DEF Readable, Masters
        <5> QED
          BY <3>1, <5>1, <5>3 DEF Shown, Names
      <4>2. CASE target \notin Names(json)
        BY <1>30, <2>2, <3>1, <4>2 DEF WithoutEntry, Names, Shown, RemoveFromJson
      <4> QED
        BY <4>1, <4>2
    <3> QED
      BY <1>30, <2>2, <3>1, <3>2 DEF RemoveFromJson, Then, AgreeInv, Settled
  <2> QED
    BY <1>30, <2>1, <2>2 DEF RemoveFromJson
<1>31. CASE SetCountry
  <2>1. Readable(json) /\ target \in DOMAIN json
    BY <1>31 DEF SetCountry, TypeInv, ControlTyped, Names
  <2>2. json \in Masters
    BY <2>1 DEF TypeInv, DiskTyped, Readable
  <2>3. UNCHANGED <<text, banned, whole>> /\ pc = "country" /\ pc' = "idle"
    BY <1>31 DEF SetCountry, Then, aux
  <2>4. CASE json' = [json EXCEPT ![target].country = TRUE]
    <3>1. json' \in Masters /\ DOMAIN json' = DOMAIN json
      BY <2>1, <2>2, <2>4, CountryIsMaster DEF Masters
    <3>2. Readable(json')
      BY <3>1 DEF Readable, Masters
    <3> QED
      BY <2>1, <2>3, <3>1, <3>2 DEF AgreeInv, Settled, Shown, Resting
  <2>5. CASE JsonRemains
    <3>1. ~Readable(Torn)
      BY DEF Readable
    <3> QED
      BY <2>1, <2>3, <2>5, <3>1 DEF JsonRemains, AgreeInv, Settled, Shown, Resting
  <2> QED
    BY <1>31, <2>4, <2>5 DEF SetCountry
<1>32. CASE UNCHANGED vars
  BY <1>32 DEF vars, master, task, data, aux, AgreeInv, Settled, Shown
<1> QED
  BY <1>1, <1>2, <1>3, <1>4, <1>5, <1>6, <1>7, <1>8, <1>9, <1>10, <1>11, <1>12,
     <1>13, <1>14, <1>15, <1>16, <1>17, <1>18, <1>19, <1>20, <1>21, <1>22, <1>23, <1>24,
     <1>25, <1>26, <1>27, <1>28, <1>29, <1>30, <1>31, <1>32
  DEF Next

LEMMA AgreeInvariance == Spec => [](TypeInv /\ AgreeInv)
<1>1. Init => AgreeInv
  BY DEF Init, AgreeInv, Settled, Shown, Lines, Readable
<1>2. ASSUME TypeInv, AgreeInv, [Next]_vars PROVE AgreeInv'
  BY <1>2, AgreeSteps
<1> QED
  BY <1>1, <1>2, TypeInvariance, PTL DEF Spec

\* Unless an operation was cut short or a file failed since the last
\* compilation, the list that is shown is the list in the text, without the
\* banned pages (every edit and compile_master_list).
THEOREM Agreement == Spec => []ListsAgree
<1>1. AgreeInv => ListsAgree
  BY DEF AgreeInv, Settled, ListsAgree, Resting
<1> QED
  BY <1>1, AgreeInvariance, PTL

-----------------------------------------------------------------------------
(* What a compilation keeps.                                               *)

\* The plan keeps the countries that were read, and its dated copy is made
\* before the JSON is overwritten.
TrackInv ==
  whole =>
    /\ pc \in {"text", "back", "json"} =>
         /\ sighted
         /\ \A u \in Names(json) \cap DOMAIN plan : json[u].country => plan[u].country
    /\ pc = "json" /\ Cardinality(DOMAIN plan) < Cardinality(Names(json)) =>
         Names(json) \subseteq dated

LEMMA TrackSteps == ASSUME TypeInv, TrackInv, [Next]_vars PROVE TrackInv'
<1> USE DEF TrackInv
<1>1. ASSUME NEW u \in Pages, Move(u) PROVE TrackInv'
  BY <1>1 DEF Move, Then, master, task, data, aux
<1>2. CASE Age
  BY <1>2 DEF Age, Then, master, task, data, aux
<1>3. CASE RequestStop
  BY <1>3 DEF RequestStop, Then, master, task, data, aux
<1>4. CASE ChangeProvider
  BY <1>4 DEF ChangeProvider, Then, master, task, data, aux
<1>5. CASE NewSession
  BY <1>5 DEF NewSession, Then, master, task, data, aux
<1>6. CASE UseLatestSession
  BY <1>6 DEF UseLatestSession, Then, master, task, data, aux
<1>7. CASE Restart
  BY <1>7 DEF Restart, Then, master, task, data, aux
<1>8. CASE StartFullAuto
  BY <1>8 DEF StartFullAuto, Start, aux
<1>9. CASE StartStep1
  BY <1>9 DEF StartStep1, Start, aux
<1>10. CASE StartStep2
  BY <1>10 DEF StartStep2, Start, aux
<1>11. CASE StartStep3
  BY <1>11 DEF StartStep3, Start, aux
<1>12. CASE StartStep4
  BY <1>12 DEF StartStep4, Start, aux
<1>13. ASSUME NEW found \in Answers, Attempt(found) PROVE TrackInv'
  <2>1. pc' \in Stages \cup {"idle"}
    BY <1>13, OnwardRests DEF Attempt, Fetched, AfterSnapshot, Then, Stages, Fetches, task
  <2> QED
    BY <2>1 DEF Stages, Fetches
<1>14. CASE FetchGivesUp
  <2>1. pc' \in Stages \cup {"idle"}
    BY <1>14, OnwardRests DEF FetchGivesUp, Fetched, AfterSnapshot, Then, Stages, Fetches, task
  <2> QED
    BY <2>1 DEF Stages, Fetches
<1>15. CASE VpnFails
  BY <1>15 DEF VpnFails, Then, master, task, data, aux
<1>16. CASE SaveList
  <2>1. pc' \in Stages \cup {"idle"}
    BY <1>16, OnwardRests DEF SaveList, Then, Stages, Fetches
  <2> QED
    BY <2>1 DEF Stages, Fetches
<1>17. CASE Compare
  <2>1. pc' \in Stages \cup {"idle"}
    BY <1>17, OnwardRests DEF Compare, Then, Stages, Fetches
  <2> QED
    BY <2>1 DEF Stages, Fetches
<1>18. CASE Verify
  BY <1>18 DEF Verify, Then, master, task, data, aux
<1>19. CASE Publish
  BY <1>19 DEF Publish, Then, master, task, data, aux
<1>20. CASE Clean
  BY <1>20 DEF Clean, Then, master, task, data, aux
<1>21. CASE Compile
  <2>1. CASE whole'
    <3>1. PICK mine, read : plan' = Compiled(mine, banned, read,
                                     IF Readable(json) THEN json ELSE <<>>)
      BY <1>21, <2>1 DEF Compile
    <3>2. \A u \in Names(json) \cap DOMAIN plan' : json[u].country => plan'[u].country
      BY <3>1 DEF Compiled, Names
    <3>3. sighted' /\ pc' = "text" /\ json' = json
      BY <1>21, <2>1 DEF Compile, Then, master
    <3> QED
      BY <3>2, <3>3
  <2>2. CASE ~whole'
    BY <2>2
  <2> QED
    BY <2>1, <2>2
<1>22. CASE WriteText
  BY <1>22 DEF WriteText, Then, data
<1>23. CASE KeepDated
  BY <1>23 DEF KeepDated, Then, Known, data
<1>24. CASE WriteJson
  BY <1>24 DEF WriteJson, Then, master, task, data, aux
<1>25. CASE StartEdit
  BY <1>25 DEF StartEdit, Edit, aux
<1>26. CASE AddManual
  BY <1>26 DEF AddManual, Then, master, task, data, aux
<1>27. CASE Ban
  BY <1>27 DEF Ban, Then, master, task, data, aux
<1>28. CASE RemoveFromText
  BY <1>28 DEF RemoveFromText, Then, master, task, data, aux
<1>29. CASE RemoveFromManual
  BY <1>29 DEF RemoveFromManual, Then, master, task, data, aux
<1>30. CASE RemoveFromJson
  BY <1>30 DEF RemoveFromJson, Then, master, task, data, aux
<1>31. CASE SetCountry
  BY <1>31 DEF SetCountry, Then, master, task, data, aux
<1>32. CASE UNCHANGED vars
  BY <1>32 DEF vars, master, task, data, aux
<1> QED
  BY <1>1, <1>2, <1>3, <1>4, <1>5, <1>6, <1>7, <1>8, <1>9, <1>10, <1>11, <1>12,
     <1>13, <1>14, <1>15, <1>16, <1>17, <1>18, <1>19, <1>20, <1>21, <1>22, <1>23, <1>24,
     <1>25, <1>26, <1>27, <1>28, <1>29, <1>30, <1>31, <1>32
  DEF Next

\* At its last write a compilation replaces the JSON, or nothing does.
LEMMA OnlyWriteJson ==
  ASSUME [Next]_vars, pc = "json" PROVE UNCHANGED json \/ WriteJson
<1>1. ASSUME NEW u \in Pages, Move(u) PROVE UNCHANGED json \/ WriteJson
  BY <1>1 DEF Move, master
<1>2. CASE Age
  BY <1>2 DEF Age, master
<1>3. CASE RequestStop
  BY <1>3 DEF RequestStop, master
<1>4. CASE ChangeProvider
  BY <1>4 DEF ChangeProvider, master
<1>5. CASE NewSession
  BY <1>5 DEF NewSession, master
<1>6. CASE UseLatestSession
  BY <1>6 DEF UseLatestSession, master
<1>7. CASE Restart
  BY <1>7 DEF Restart, master
<1>8. CASE StartFullAuto
  BY <1>8 DEF StartFullAuto, Start, master
<1>9. CASE StartStep1
  BY <1>9 DEF StartStep1, Start, master
<1>10. CASE StartStep2
  BY <1>10 DEF StartStep2, Start, master
<1>11. CASE StartStep3
  BY <1>11 DEF StartStep3, Start, master
<1>12. CASE StartStep4
  BY <1>12 DEF StartStep4, Start, master
<1>13. ASSUME NEW found \in Answers, Attempt(found) PROVE UNCHANGED json \/ WriteJson
  BY <1>13 DEF Attempt, master
<1>14. CASE FetchGivesUp
  BY <1>14 DEF FetchGivesUp, master
<1>15. CASE VpnFails
  BY <1>15 DEF VpnFails, master
<1>16. CASE SaveList
  BY <1>16 DEF SaveList, master
<1>17. CASE Compare
  BY <1>17 DEF Compare, master
<1>18. CASE Verify
  BY <1>18 DEF Verify, master
<1>19. CASE Publish
  BY <1>19 DEF Publish, master
<1>20. CASE Clean
  BY <1>20 DEF Clean, master
<1>21. CASE Compile
  BY <1>21 DEF Compile, master
<1>22. CASE WriteText
  BY <1>22 DEF WriteText, master
<1>23. CASE KeepDated
  BY <1>23 DEF KeepDated, master
<1>24. CASE WriteJson
  BY <1>24
<1>25. CASE StartEdit
  BY <1>25 DEF StartEdit, Edit
<1>26. CASE AddManual
  BY <1>26 DEF AddManual, master
<1>27. CASE Ban
  BY <1>27 DEF Ban, master
<1>28. CASE RemoveFromText
  BY <1>28 DEF RemoveFromText, master
<1>29. CASE RemoveFromManual
  BY <1>29 DEF RemoveFromManual, master
<1>30. CASE RemoveFromJson
  BY <1>30 DEF RemoveFromJson, master
<1>31. CASE SetCountry
  BY <1>31 DEF SetCountry, master
<1>32. CASE UNCHANGED vars
  BY <1>32 DEF vars, master
<1> QED
  BY <1>1, <1>2, <1>3, <1>4, <1>5, <1>6, <1>7, <1>8, <1>9, <1>10, <1>11, <1>12,
     <1>13, <1>14, <1>15, <1>16, <1>17, <1>18, <1>19, <1>20, <1>21, <1>22, <1>23, <1>24,
     <1>25, <1>26, <1>27, <1>28, <1>29, <1>30, <1>31, <1>32
  DEF Next

\* A compilation keeps the country of every entry it could read, and when it
\* makes the list shorter, the pages it drops are in a dated copy before the
\* list is overwritten (compile_master_list, its backup and its last write).
THEOREM Tracking == Spec => CompileKeepsTrack
<1> DEFINE Kept ==
      pc = "json" /\ whole /\ Readable(json') =>
        /\ \A u \in Names(json) \cap Names(json') : json[u].country => json'[u].country
        /\ Cardinality(Names(json')) < Cardinality(Names(json)) =>
             Names(json) \ Names(json') \subseteq dated
<1>1. ASSUME TypeInv, TrackInv, [Next]_vars PROVE [Kept]_vars
  <2> SUFFICES ASSUME pc = "json", whole, Readable(json')
      PROVE /\ \A u \in Names(json) \cap Names(json') : json[u].country => json'[u].country
            /\ Cardinality(Names(json')) < Cardinality(Names(json)) =>
                 Names(json) \ Names(json') \subseteq dated
    OBVIOUS
  <2>1. CASE UNCHANGED json
    <3>1. Cardinality(Names(json)) \in Nat
      <4>1. Names(json) \subseteq Pages /\ IsFiniteSet(Pages)
        BY <1>1, NamesArePages
      <4> QED
        BY <4>1, FS_Subset, FS_CardinalityType
    <3> QED
      BY <2>1, <3>1 DEF Names, Readable
  <2>2. CASE json' = plan
    BY <1>1, <2>2 DEF TrackInv, Names
  <2>3. CASE WriteJson
    BY <2>1, <2>2, <2>3 DEF WriteJson, JsonRemains, Readable
  <2> QED
    BY <1>1, <2>1, <2>3, OnlyWriteJson
<1>2. Init => TrackInv
  BY DEF Init, TrackInv
<1>3. ASSUME TypeInv, TrackInv, [Next]_vars PROVE TrackInv'
  BY <1>3, TrackSteps
<1> QED
  BY <1>1, <1>2, <1>3, TypeInvariance, PTL DEF Spec, CompileKeepsTrack
=============================================================================
