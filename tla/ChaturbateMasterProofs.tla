------------------------ MODULE ChaturbateMasterProofs ------------------------
(***************************************************************************)
(* Theorems about ChaturbateMaster, for any pages, sessions, preferences,  *)
(* batch sizes and numbers of operations and mishaps.                      *)
(***************************************************************************)
EXTENDS ChaturbateMaster, FiniteSetTheorems, WellFoundedInduction, TLAPS

USE MasterAssumption

-----------------------------------------------------------------------------
(* Types and control.                                                      *)

IsMaster(j) == j = NoMaster \/ \E list \in SUBSET Pages : j \in [list -> Entry]
Records == [page : Pages, verdict : Verdicts]
Counters == [ops : Nat, runs : Nat, edits : Nat, mishaps : Nat]

FilesTyped ==
  /\ text \subseteq Pages /\ manual \subseteq Pages /\ banned \subseteq Pages
  /\ final \in [Sessions -> (SUBSET Pages) \cup {NoMaster}]
  /\ local \in [Sessions -> SUBSET Pages] /\ vpn \in [Sessions -> SUBSET Pages]
  /\ bound \in [Sessions -> Policies \cup {NoMaster}] /\ policy \in Policies
TaskTyped ==
  /\ pc \in {"idle", "repair", "look", "manual", "ban", "publish", "text", "bury"}
  /\ op \in Ops /\ target \in Pages \cup {NoMaster}
QueueTyped ==
  /\ queue \in Seq(Pages) /\ records \in Seq(Records)
  /\ Len(queue) + Len(records) <= MaxBatch
CountersTyped ==
  /\ used \in Counters
  /\ blind \in Nat /\ buried \subseteq Pages /\ slipped \subseteq Pages

TypeInv == IsMaster(json) /\ FilesTyped /\ TaskTyped /\ QueueTyped /\ CountersTyped

\* What each operation is about, and where it may be.
ControlInv ==
  /\ pc = "repair" => op \in {"compile", "verify"}
  /\ pc \in {"look", "bury"} => op = "verify"
  /\ pc = "manual" => op \in {"add", "remove", "block"}
  /\ pc = "ban" => op = "block"
  /\ op \in {"add", "remove", "block", "country"} => target \in Pages
  /\ op \in {"remove", "block", "country"} /\ pc \in {"manual", "publish"} =>
       target \in Names(json)
  /\ pc \notin {"look", "publish", "text", "bury"} => records = <<>>
  /\ pc # "look" => queue = <<>>
  /\ op # "verify" => records = <<>>

\* While pages are looked at, and until it is published what was seen.
LookInv ==
  op = "verify" /\ pc \in {"look", "publish"} =>
    /\ \A i \in DOMAIN queue : queue[i] \in Candidates(json)
    /\ Seen \subseteq Candidates(json)

\* The text list follows the JSON.
TextInv == (used.mishaps = 0 /\ pc # "text") => text = Names(json)

TypingInv == TypeInv /\ ControlInv /\ LookInv /\ TextInv

LEMMA EntryFields ==
  ASSUME NEW e \in Entry
  PROVE  /\ e.found \in Origins /\ e.stamp \in Nat /\ e.at \in Nat /\ e.free \in SUBSET Nat
         /\ e.manual \in BOOLEAN /\ e.matched \in BOOLEAN /\ e.vpnMatched \in BOOLEAN
         /\ e.country \in BOOLEAN /\ e.pending \in BOOLEAN
  BY DEF Entry

LEMMA EntryIsRecord ==
  ASSUME NEW e \in Entry
  PROVE  e = [found |-> e.found, stamp |-> e.stamp, manual |-> e.manual,
              matched |-> e.matched, vpnMatched |-> e.vpnMatched, country |-> e.country,
              free |-> e.free, pending |-> e.pending, at |-> e.at]
  BY DEF Entry

LEMMA ProductIsNatural == ASSUME NEW a \in Nat, NEW b \in Nat PROVE a * b \in Nat
  OBVIOUS

LEMMA MasterEntries ==
  ASSUME NEW j, IsMaster(j)
  PROVE  Names(j) \subseteq Pages /\ \A u \in Names(j) : j[u] \in Entry
  BY DEF IsMaster, Names

LEMMA MastersAreThere ==
  ASSUME NEW list \in SUBSET Pages, NEW j \in [list -> Entry]
  PROVE  IsMaster(j) /\ Names(j) = list
  BY DEF IsMaster, Names

LEMMA PreservedTyped ==
  ASSUME NEW old, IsMaster(old), NEW u
  PROVE  LET p == Preserved(old, u)
         IN /\ p.free \in SUBSET Nat /\ p.pending \in BOOLEAN
            /\ p.at \in Nat /\ p.country \in BOOLEAN
<1>1. CASE u \in Names(old)
  <2>1. old[u] \in Entry
    BY <1>1, MasterEntries
  <2> QED
    BY <1>1, <2>1, EntryFields DEF Preserved
<1>2. CASE u \notin Names(old)
  BY <1>2 DEF Preserved
<1> QED
  BY <1>1, <1>2

LEMMA CompiledIsMaster ==
  ASSUME TypeInv, NEW read \in SUBSET Sessions, NEW mine, NEW black, NEW old, IsMaster(old)
  PROVE  /\ IsMaster(Compiled(read, mine, black, old))
         /\ Names(Compiled(read, mine, black, old)) \subseteq Pages \ black
         /\ \A u \in Names(Compiled(read, mine, black, old)) :
              LET e == Compiled(read, mine, black, old)[u]
                  p == Preserved(old, u)
              IN /\ e.free = p.free /\ e.pending = p.pending /\ e.at = p.at
<1> DEFINE blocked == [u \in Pages |-> {s \in read : final[s] # NoMaster /\ u \in final[s]}]
           matched == [u \in Pages |-> {s \in Sessions : u \in MatchesOf(s)}]
           confirmed == [u \in Pages |-> {s \in Sessions : u \in VpnMatchesOf(s)}]
           has == [u \in Pages |-> blocked[u] \cup matched[u] \cup confirmed[u]]
           found(u) == CASE blocked[u] # {} -> Discovery(blocked[u])
                         [] blocked[u] = {} /\ matched[u] # {} -> FirstListed(matched[u])
                         [] blocked[u] \cup matched[u] = {} /\ confirmed[u] # {} ->
                              FirstListed(confirmed[u])
                         [] has[u] = {} /\ u \in Names(old) -> old[u].found
                         [] OTHER -> "operator"
           stamp(u) == IF u \in Names(old) THEN old[u].stamp ELSE used.ops
           entry(u) == [found |-> found(u), manual |-> u \in mine,
                        matched |-> matched[u] # {}, vpnMatched |-> confirmed[u] # {},
                        stamp |-> stamp(u),
                        country |-> Preserved(old, u).country \/ matched[u] # {} \/ confirmed[u] # {},
                        free |-> Preserved(old, u).free, pending |-> Preserved(old, u).pending,
                        at |-> Preserved(old, u).at]
           list == Listed(black, mine, has)
<1>1. Compiled(read, mine, black, old) = [u \in list |-> entry(u)]
  BY DEF Compiled
<1>2. list \in SUBSET Pages /\ list \cap black = {}
  BY DEF Listed
<1>3. ASSUME NEW u \in list PROVE found(u) \in Origins
  <2>1. u \in Pages
    BY <1>2, <1>3
  <2>2. /\ blocked[u] \in SUBSET Sessions /\ matched[u] \in SUBSET Sessions
        /\ confirmed[u] \in SUBSET Sessions
    BY <2>1
  <2>3. u \in Names(old) => old[u].found \in Origins
    BY MasterEntries, EntryFields
  <2>4. Discovery(blocked[u]) \in Origins
    BY <2>2 DEF Origins
  <2>5. matched[u] # {} => FirstListed(matched[u]) \in Origins
    BY <2>2 DEF Origins
  <2>6. confirmed[u] # {} => FirstListed(confirmed[u]) \in Origins
    BY <2>2 DEF Origins
  <2>7. "operator" \in Origins
    BY DEF Origins
  <2> HIDE DEF blocked, matched, confirmed, has
  <2> QED
    BY <2>3, <2>4, <2>5, <2>6, <2>7
<1>4. ASSUME NEW u \in list PROVE stamp(u) \in Nat
  <2>1. u \in Names(old) => old[u].stamp \in Nat
    BY MasterEntries, EntryFields
  <2> QED
    BY <2>1 DEF TypeInv, CountersTyped, Counters
<1>5. ASSUME NEW u \in list PROVE entry(u) \in Entry
  <2>1. /\ (u \in mine) \in BOOLEAN /\ (matched[u] # {}) \in BOOLEAN
        /\ (confirmed[u] # {}) \in BOOLEAN
        /\ (Preserved(old, u).country \/ matched[u] # {} \/ confirmed[u] # {}) \in BOOLEAN
    OBVIOUS
  <2>2. /\ Preserved(old, u).free \in SUBSET Nat /\ Preserved(old, u).pending \in BOOLEAN
        /\ Preserved(old, u).at \in Nat
    BY PreservedTyped
  <2> HIDE DEF blocked, matched, confirmed, has, found, stamp
  <2> QED
    BY <1>3, <1>4, <1>5, <2>1, <2>2 DEF Entry
<1>6. [u \in list |-> entry(u)] \in [list -> Entry]
  <2> HIDE DEF entry, list
  <2> QED
    BY <1>5
<1>7. /\ IsMaster(Compiled(read, mine, black, old))
      /\ Names(Compiled(read, mine, black, old)) = list
  BY <1>1, <1>2, <1>6, MastersAreThere
<1>8. ASSUME NEW u \in list
      PROVE  /\ Compiled(read, mine, black, old)[u].free = Preserved(old, u).free
             /\ Compiled(read, mine, black, old)[u].pending = Preserved(old, u).pending
             /\ Compiled(read, mine, black, old)[u].at = Preserved(old, u).at
  <2>1. Compiled(read, mine, black, old)[u] = entry(u)
    BY <1>1, <1>8
  <2> QED
    BY <2>1
<1> QED
  BY <1>2, <1>7, <1>8

LEMMA CompiledKeeps ==
  ASSUME TypeInv, NEW read \in SUBSET Sessions, NEW mine, NEW black, NEW old, IsMaster(old),
         NEW u \in Names(Compiled(read, mine, black, old))
  PROVE  /\ u \in Pages \ black
         /\ Compiled(read, mine, black, old)[u].free = Preserved(old, u).free
         /\ Compiled(read, mine, black, old)[u].pending = Preserved(old, u).pending
         /\ Compiled(read, mine, black, old)[u].at = Preserved(old, u).at
  BY CompiledIsMaster

\* What a verification makes of an entry.
LEMMA JudgedIsEntry ==
  ASSUME TypeInv, NEW e \in Entry, NEW v \in Verdicts, NEW n \in Nat
  PROVE  LET j == Judged(e, v, n)
         IN /\ j \in Entry /\ j.at = n /\ j.manual = e.manual /\ j.matched = e.matched
            /\ v = "accessible" => j.free = e.free \cup {used.ops}
            /\ v = "blocked" => j.free = {}
            /\ v = "unknown" => j.free = e.free
<1> DEFINE seen == IF v = "accessible" THEN e.free \cup {used.ops} ELSE e.free
           free == IF v = "blocked" THEN {} ELSE seen
           pending == \/ v = "unknown"
                      \/ v = "accessible" /\ Cardinality(seen) < 2
           fields == [found |-> e.found, stamp |-> e.stamp, manual |-> e.manual,
                      matched |-> e.matched, vpnMatched |-> e.vpnMatched,
                      country |-> e.country, free |-> free, pending |-> pending, at |-> n]
<1>1. Judged(e, v, n) = fields
  <2>1. Judged(e, v, n) = [e EXCEPT !.at = n, !.free = free, !.pending = pending]
    BY DEF Judged
  <2> HIDE DEF free, pending
  <2> QED
    BY <2>1, EntryIsRecord
<1>2. free \in SUBSET Nat /\ pending \in BOOLEAN
  BY EntryFields DEF TypeInv, CountersTyped, Counters
<1>3. fields \in Entry
  <2> HIDE DEF free, pending
  <2> QED
    BY <1>2, EntryFields DEF Entry
<1>4. /\ v = "accessible" => free = e.free \cup {used.ops}
      /\ v = "blocked" => free = {}
      /\ v = "unknown" => free = e.free
  BY DEF Verdicts
<1>5. fields.at = n /\ fields.free = free /\ fields.manual = e.manual /\ fields.matched = e.matched
  OBVIOUS
<1> HIDE DEF fields, free, pending
<1> QED
  BY <1>1, <1>3, <1>4, <1>5

LEMMA FieldIsSet ==
  ASSUME NEW e \in Entry, NEW c
  PROVE  [e EXCEPT !.country = c] =
           [found |-> e.found, stamp |-> e.stamp, manual |-> e.manual,
            matched |-> e.matched, vpnMatched |-> e.vpnMatched, country |-> c,
            free |-> e.free, pending |-> e.pending, at |-> e.at]
  BY EntryIsRecord

LEMMA CountryIsEntry ==
  ASSUME NEW e \in Entry PROVE [e EXCEPT !.country = TRUE] \in Entry
  BY FieldIsSet, EntryFields DEF Entry

LEMMA CountryIsMaster ==
  ASSUME NEW j, IsMaster(j), NEW u \in Names(j)
  PROVE  /\ IsMaster([j EXCEPT ![u].country = TRUE])
         /\ Names([j EXCEPT ![u].country = TRUE]) = Names(j)
         /\ \A w \in Names(j) : LET e == [j EXCEPT ![u].country = TRUE][w]
                                IN /\ e.free = j[w].free /\ e.pending = j[w].pending
                                   /\ e.at = j[w].at /\ e.manual = j[w].manual
                                   /\ e.matched = j[w].matched
<1>1. PICK list \in SUBSET Pages : j \in [list -> Entry]
  BY DEF IsMaster, Names
<1>2. Names(j) = list
  BY <1>1, MastersAreThere
<1>3. [j[u] EXCEPT !.country = TRUE] \in Entry
  <2>1. j[u] \in Entry
    BY <1>1, <1>2
  <2> QED
    BY <2>1, CountryIsEntry
<1>4. [j EXCEPT ![u] = [j[u] EXCEPT !.country = TRUE]] \in [list -> Entry]
  BY <1>1, <1>3
<1>5. \A w \in list : LET e == [j EXCEPT ![u] = [j[u] EXCEPT !.country = TRUE]][w]
                      IN /\ e.free = j[w].free /\ e.pending = j[w].pending
                         /\ e.at = j[w].at /\ e.manual = j[w].manual
                         /\ e.matched = j[w].matched
  <2> TAKE w \in list
  <2>1. CASE w = u
    BY <1>1, <2>1 DEF Entry
  <2>2. CASE w # u
    BY <1>1, <2>2
  <2> QED
    BY <2>1, <2>2
<1> QED
  BY <1>2, <1>4, <1>5, MastersAreThere

LEMMA WithoutIsMaster ==
  ASSUME NEW list \in SUBSET Pages, NEW j \in [list -> Entry], NEW us
  PROVE  /\ IsMaster(Without(j, us)) /\ Names(Without(j, us)) = list \ us
         /\ \A u \in list \ us : Without(j, us)[u] = j[u]
<1>1. Without(j, us) \in [list \ us -> Entry]
  BY DEF Without
<1> QED
  BY <1>1, MastersAreThere DEF Without

LEMMA WithoutMaster ==
  ASSUME NEW j, IsMaster(j), j # NoMaster, NEW us
  PROVE  /\ IsMaster(Without(j, us)) /\ Names(Without(j, us)) = Names(j) \ us
         /\ \A u \in Names(j) \ us : Without(j, us)[u] = j[u]
<1>1. PICK list \in SUBSET Pages : j \in [list -> Entry]
  BY DEF IsMaster
<1>2. Names(j) = list
  BY <1>1, MastersAreThere
<1> QED
  BY <1>1, <1>2, WithoutIsMaster

\* What was looked at, and what that makes of the master.
LEMMA LookTyped ==
  ASSUME TypeInv, NEW u \in Seen
  PROVE  /\ LookAt(u) \in 1..Len(records) /\ records[LookAt(u)].page = u
         /\ records[LookAt(u)].verdict \in Verdicts
<1>1. \E i \in DOMAIN records : records[i].page = u
  BY DEF Seen
<1>2. LookAt(u) \in DOMAIN records /\ records[LookAt(u)].page = u
  BY <1>1 DEF LookAt
<1>3. DOMAIN records = 1..Len(records) /\ \A i \in DOMAIN records : records[i] \in Records
  BY DEF TypeInv, QueueTyped
<1> QED
  BY <1>2, <1>3 DEF Records

LEMMA CardinalityOfPages == Cardinality(Pages) \in Nat
  BY FS_CardinalityType

LEMMA AllJudgedIsMaster ==
  ASSUME TypeInv
  PROVE  /\ AllJudged \in [Names(json) -> Entry] /\ Names(json) \in SUBSET Pages
         /\ \A u \in Names(json) \ Seen : AllJudged[u] = json[u]
         /\ \A u \in Names(json) \cap Seen :
              LET n == used.ops * Cardinality(Pages) + LookAt(u)
              IN /\ n \in Nat
                 /\ AllJudged[u] = Judged(json[u], records[LookAt(u)].verdict, n)
<1>1. Names(json) \in SUBSET Pages /\ \A u \in Names(json) : json[u] \in Entry
  BY MasterEntries DEF TypeInv
<1>2. ASSUME NEW u \in Names(json) \cap Seen
      PROVE  LET n == used.ops * Cardinality(Pages) + LookAt(u)
             IN n \in Nat /\ Judged(json[u], records[LookAt(u)].verdict, n) \in Entry
  <2>1. used.ops \in Nat /\ LookAt(u) \in Nat
    BY LookTyped DEF TypeInv, CountersTyped, Counters
  <2>2. used.ops * Cardinality(Pages) + LookAt(u) \in Nat
    <3>1. used.ops * Cardinality(Pages) \in Nat
      BY <2>1, CardinalityOfPages, ProductIsNatural
    <3> QED
      BY <2>1, <3>1
  <2> QED
    BY <1>1, <2>2, LookTyped, JudgedIsEntry
<1> QED
  BY <1>1, <1>2 DEF AllJudged

LEMMA AllJudgedNames ==
  ASSUME TypeInv
  PROVE  IsMaster(AllJudged) /\ AllJudged # NoMaster /\ Names(AllJudged) = Names(json)
<1>1. AllJudged \in [Names(json) -> Entry] /\ Names(json) \in SUBSET Pages
  BY AllJudgedIsMaster
<1> QED
  BY <1>1, MastersAreThere

LEMMA ControlSteps == ASSUME TypingInv, [Next]_vars PROVE ControlInv'
<1> USE DEF TypingInv, ControlInv
<1>1. ASSUME NEW s \in Sessions, Conclude(s) PROVE ControlInv'
  BY <1>1 DEF Conclude, Begin, folders, files, work
<1>2. CASE Compile
  BY <1>2 DEF Compile, Begin, folders, files, work
<1>3. CASE Verify
  BY <1>3 DEF Verify, Begin, folders, files, work
<1>4. ASSUME NEW u \in Pages, AddManual(u) PROVE ControlInv'
  BY <1>4 DEF AddManual, Begin, folders, files, work
<1>5. ASSUME NEW u \in Pages, RemoveModel(u) PROVE ControlInv'
  BY <1>5 DEF RemoveModel, Begin, folders, files, work
<1>6. ASSUME NEW u \in Pages, BlockModel(u) PROVE ControlInv'
  BY <1>6 DEF BlockModel, Begin, folders, files, work
<1>7. ASSUME NEW u \in Pages, SetCountry(u) PROVE ControlInv'
  BY <1>7 DEF SetCountry, Begin, folders, files, work
<1>8. CASE Repair
  <2>1. UNCHANGED <<json, records>> /\ (pc' # "look" => UNCHANGED queue)
        /\ (pc' \in {"look", "publish"} => UNCHANGED <<op, target>>)
        /\ (pc' = "idle" => op' = "compile" /\ records' = <<>>)
    BY <1>8 DEF Repair, GoOn, Return, work
  <2>2. op \in {"compile", "verify"} /\ records = <<>> /\ queue = <<>>
    BY <1>8 DEF Repair
  <2>3. \/ pc' = "publish" /\ op = "compile"
        \/ pc' = "look" /\ op # "compile"
        \/ pc' = "idle"
    BY <1>8 DEF Repair, GoOn, Return
  <2> QED
    BY <2>1, <2>2, <2>3
<1>9. CASE Look
  <2>1. op = "verify" /\ pc' = "look" /\ UNCHANGED <<op, target>>
    BY <1>9 DEF Look
  <2> QED
    BY <2>1
<1>10. CASE EndLooking
  BY <1>10 DEF EndLooking, folders, files, work
<1>11. CASE WriteManual
  BY <1>11 DEF WriteManual, folders, files, work
<1>12. CASE WriteBan
  BY <1>12 DEF WriteBan, GoOn, Return, folders, files, work
<1>13. CASE PublishCompiled
  <2>1. pc' = "text" /\ UNCHANGED work
    BY <1>13 DEF PublishCompiled, Publish
  <2> QED
    BY <1>13, <2>1 DEF PublishCompiled, work
<1>14. CASE PublishEdit
  <2>1. pc' = "text" /\ UNCHANGED work
    BY <1>14 DEF PublishEdit, Publish
  <2> QED
    BY <1>14, <2>1 DEF PublishEdit, work
<1>15. CASE PublishVerified
  <2>1. pc' = "text" /\ UNCHANGED work
    BY <1>15 DEF PublishVerified, Publish
  <2> QED
    BY <1>15, <2>1 DEF PublishVerified, work
<1>16. CASE WriteText
  BY <1>16 DEF WriteText, GoOn, Return, folders, files, work
<1>17. CASE Bury
  BY <1>17 DEF Bury, Return, folders, files, work
<1>18. CASE Crash
  BY <1>18 DEF Crash, Return, folders, files, work
<1>19. CASE ChangePolicy
  BY <1>19 DEF ChangePolicy, folders, files, work
<1>20. CASE UNCHANGED vars
  BY <1>20 DEF vars, folders, files, work
<1> QED
  BY <1>1, <1>2, <1>3, <1>4, <1>5, <1>6, <1>7, <1>8, <1>9, <1>10, <1>11, <1>12,
     <1>13, <1>14, <1>15, <1>16, <1>17, <1>18, <1>19, <1>20
  DEF Next

LEMMA MasterSteps == ASSUME TypingInv, [Next]_vars PROVE IsMaster(json')
<1> USE DEF TypingInv, TypeInv
<1>1. ASSUME NEW s \in Sessions, Conclude(s) PROVE IsMaster(json')
  BY <1>1 DEF Conclude, Begin, files
<1>2. CASE Compile
  BY <1>2 DEF Compile, Begin, files
<1>3. CASE Verify
  BY <1>3 DEF Verify, Begin, files
<1>4. ASSUME NEW u \in Pages, AddManual(u) PROVE IsMaster(json')
  BY <1>4 DEF AddManual, Begin, files
<1>5. ASSUME NEW u \in Pages, RemoveModel(u) PROVE IsMaster(json')
  BY <1>5 DEF RemoveModel, Begin, files
<1>6. ASSUME NEW u \in Pages, BlockModel(u) PROVE IsMaster(json')
  BY <1>6 DEF BlockModel, Begin, files
<1>7. ASSUME NEW u \in Pages, SetCountry(u) PROVE IsMaster(json')
  BY <1>7 DEF SetCountry, Begin, files
<1>8. CASE Repair
  BY <1>8 DEF Repair, GoOn, Return, files
<1>9. CASE Look
  BY <1>9 DEF Look, files
<1>10. CASE EndLooking
  BY <1>10 DEF EndLooking, files
<1>11. CASE WriteManual
  BY <1>11 DEF WriteManual, files
<1>12. CASE WriteBan
  BY <1>12 DEF WriteBan, GoOn, Return, files
<1>13. CASE PublishCompiled
  <2>1. IsMaster(NoMaster)
    BY DEF IsMaster
  <2>2. json' \in {Compiled(Sessions, manual, banned, json), Compiled(Sessions, {}, banned, json),
                   Compiled(Sessions, manual, {}, json), Compiled(Sessions, manual, banned, NoMaster)}
          \cup {Compiled(Sessions \ {s}, manual, banned, json) : s \in Sessions}
    BY <1>13 DEF PublishCompiled, Publish
  <2>3. \A s \in Sessions : Sessions \ {s} \in SUBSET Sessions
    OBVIOUS
  <2>4. Sessions \in SUBSET Sessions
    OBVIOUS
  <2>5. /\ IsMaster(Compiled(Sessions, manual, banned, json))
        /\ IsMaster(Compiled(Sessions, {}, banned, json))
        /\ IsMaster(Compiled(Sessions, manual, {}, json))
        /\ IsMaster(Compiled(Sessions, manual, banned, NoMaster))
    BY <2>1, <2>4, CompiledIsMaster
  <2>6. \A s \in Sessions : IsMaster(Compiled(Sessions \ {s}, manual, banned, json))
    BY <2>3, CompiledIsMaster
  <2> HIDE DEF TypingInv, TypeInv
  <2> QED
    BY <2>2, <2>5, <2>6
<1>14. CASE PublishEdit
  <2>1. target \in Names(json)
    BY <1>14 DEF PublishEdit, ControlInv
  <2>2. PICK list \in SUBSET Pages : json \in [list -> Entry]
    BY <2>1 DEF IsMaster, Names
  <2>3. IsMaster(Without(json, {target}))
    BY <2>2, WithoutIsMaster
  <2>4. IsMaster([json EXCEPT ![target].country = TRUE])
    BY <2>1, CountryIsMaster
  <2> QED
    BY <1>14, <2>3, <2>4 DEF PublishEdit, Publish
<1>15. CASE PublishVerified
  BY <1>15, AllJudgedIsMaster, WithoutIsMaster DEF PublishVerified, Publish
<1>16. CASE WriteText
  BY <1>16 DEF WriteText, GoOn, Return, files
<1>17. CASE Bury
  BY <1>17 DEF Bury, Return, files
<1>18. CASE Crash
  BY <1>18 DEF Crash, Return, files
<1>19. CASE ChangePolicy
  BY <1>19 DEF ChangePolicy, files
<1>20. CASE UNCHANGED vars
  BY <1>20 DEF vars, files
<1> QED
  BY <1>1, <1>2, <1>3, <1>4, <1>5, <1>6, <1>7, <1>8, <1>9, <1>10, <1>11, <1>12,
     <1>13, <1>14, <1>15, <1>16, <1>17, <1>18, <1>19, <1>20
  DEF Next

LEMMA SeenPages == ASSUME TypeInv PROVE Seen \subseteq Pages
<1>1. \A i \in DOMAIN records : records[i] \in Records
  BY DEF TypeInv, QueueTyped
<1> QED
  BY <1>1 DEF Seen, Records

LEMMA FileSteps == ASSUME TypingInv, [Next]_vars PROVE FilesTyped'
<1> USE DEF TypingInv, TypeInv
<1>1. ASSUME NEW s \in Sessions, Conclude(s) PROVE FilesTyped'
  <2>1. bound' \in [Sessions -> Policies \cup {NoMaster}]
    BY <1>1 DEF Conclude, FilesTyped
  <2>2. PICK found \in Finds : /\ final' = [final EXCEPT ![s] = found.blocked]
                              /\ local' = [local EXCEPT ![s] = found.local]
                              /\ vpn' = [vpn EXCEPT ![s] = found.vpn]
    BY <1>1 DEF Conclude
  <2>3. found.blocked \subseteq Pages /\ found.local \subseteq Pages /\ found.vpn \subseteq Pages
    OBVIOUS
  <2> QED
    BY <1>1, <2>1, <2>2, <2>3 DEF Conclude, Begin, files, FilesTyped
<1>2. CASE Compile
  BY <1>2 DEF Compile, Begin, folders, files, FilesTyped
<1>3. CASE Verify
  BY <1>3 DEF Verify, Begin, folders, files, FilesTyped
<1>4. ASSUME NEW u \in Pages, AddManual(u) PROVE FilesTyped'
  BY <1>4 DEF AddManual, Begin, folders, files, FilesTyped
<1>5. ASSUME NEW u \in Pages, RemoveModel(u) PROVE FilesTyped'
  BY <1>5 DEF RemoveModel, Begin, folders, files, FilesTyped
<1>6. ASSUME NEW u \in Pages, BlockModel(u) PROVE FilesTyped'
  BY <1>6 DEF BlockModel, Begin, folders, files, FilesTyped
<1>7. ASSUME NEW u \in Pages, SetCountry(u) PROVE FilesTyped'
  BY <1>7 DEF SetCountry, Begin, folders, files, FilesTyped
<1>8. CASE Repair
  BY <1>8, MasterEntries DEF Repair, folders, FilesTyped
<1>9. CASE Look
  BY <1>9 DEF Look, folders, files, FilesTyped
<1>10. CASE EndLooking
  BY <1>10 DEF EndLooking, folders, files, FilesTyped
<1>11. CASE WriteManual
  BY <1>11 DEF WriteManual, ControlInv, folders, FilesTyped
<1>12. CASE WriteBan
  BY <1>12 DEF WriteBan, ControlInv, folders, FilesTyped
<1>13. CASE PublishCompiled
  <2>1. UNCHANGED <<folders, policy, text, manual, banned>>
    BY <1>13 DEF PublishCompiled, Publish
  <2> QED
    BY <2>1 DEF folders, FilesTyped
<1>14. CASE PublishEdit
  <2>1. UNCHANGED <<folders, policy, text, manual, banned>>
    BY <1>14 DEF PublishEdit, Publish
  <2> QED
    BY <2>1 DEF folders, FilesTyped
<1>15. CASE PublishVerified
  <2>1. UNCHANGED <<folders, policy, text, manual, banned>>
    BY <1>15 DEF PublishVerified, Publish
  <2> QED
    BY <2>1 DEF folders, FilesTyped
<1>16. CASE WriteText
  BY <1>16, MasterEntries DEF WriteText, folders, FilesTyped
<1>17. CASE Bury
  <2>1. Seen \subseteq Pages
    BY SeenPages
  <2> QED
    BY <1>17, <2>1 DEF Bury, folders, FilesTyped
<1>18. CASE Crash
  BY <1>18 DEF Crash, Return, folders, files, FilesTyped
<1>19. CASE ChangePolicy
  BY <1>19 DEF ChangePolicy, folders, files, FilesTyped
<1>20. CASE UNCHANGED vars
  BY <1>20 DEF vars, folders, files, FilesTyped
<1> QED
  BY <1>1, <1>2, <1>3, <1>4, <1>5, <1>6, <1>7, <1>8, <1>9, <1>10, <1>11, <1>12,
     <1>13, <1>14, <1>15, <1>16, <1>17, <1>18, <1>19, <1>20
  DEF Next

LEMMA TaskSteps == ASSUME TypingInv, [Next]_vars PROVE TaskTyped'
<1> USE DEF TypingInv, TypeInv
<1>1. ASSUME NEW s \in Sessions, Conclude(s) PROVE TaskTyped'
  BY <1>1 DEF Conclude, Begin, work, TaskTyped, Ops
<1>2. CASE Compile
  BY <1>2 DEF Compile, Begin, work, TaskTyped, Ops
<1>3. CASE Verify
  BY <1>3 DEF Verify, Begin, work, TaskTyped, Ops
<1>4. ASSUME NEW u \in Pages, AddManual(u) PROVE TaskTyped'
  BY <1>4 DEF AddManual, Begin, work, TaskTyped, Ops
<1>5. ASSUME NEW u \in Pages, RemoveModel(u) PROVE TaskTyped'
  BY <1>5 DEF RemoveModel, Begin, work, TaskTyped, Ops
<1>6. ASSUME NEW u \in Pages, BlockModel(u) PROVE TaskTyped'
  BY <1>6 DEF BlockModel, Begin, work, TaskTyped, Ops
<1>7. ASSUME NEW u \in Pages, SetCountry(u) PROVE TaskTyped'
  BY <1>7 DEF SetCountry, Begin, work, TaskTyped, Ops
<1>8. CASE Repair
  BY <1>8 DEF Repair, GoOn, Return, work, TaskTyped, Ops
<1>9. CASE Look
  BY <1>9 DEF Look, work, TaskTyped, Ops
<1>10. CASE EndLooking
  BY <1>10 DEF EndLooking, work, TaskTyped, Ops
<1>11. CASE WriteManual
  BY <1>11 DEF WriteManual, work, TaskTyped, Ops
<1>12. CASE WriteBan
  BY <1>12 DEF WriteBan, GoOn, Return, work, TaskTyped, Ops
<1>13. CASE PublishCompiled
  BY <1>13 DEF PublishCompiled, Publish, work, TaskTyped, Ops
<1>14. CASE PublishEdit
  BY <1>14 DEF PublishEdit, Publish, work, TaskTyped, Ops
<1>15. CASE PublishVerified
  BY <1>15 DEF PublishVerified, Publish, work, TaskTyped, Ops
<1>16. CASE WriteText
  BY <1>16 DEF WriteText, GoOn, Return, work, TaskTyped, Ops
<1>17. CASE Bury
  BY <1>17 DEF Bury, Return, work, TaskTyped, Ops
<1>18. CASE Crash
  BY <1>18 DEF Crash, Return, work, TaskTyped, Ops
<1>19. CASE ChangePolicy
  BY <1>19 DEF ChangePolicy, work, TaskTyped, Ops
<1>20. CASE UNCHANGED vars
  BY <1>20 DEF vars, work, TaskTyped
<1> QED
  BY <1>1, <1>2, <1>3, <1>4, <1>5, <1>6, <1>7, <1>8, <1>9, <1>10, <1>11, <1>12,
     <1>13, <1>14, <1>15, <1>16, <1>17, <1>18, <1>19, <1>20
  DEF Next

LEMMA NothingQueued == queue' = <<>> /\ records' = <<>> => QueueTyped'
  BY DEF QueueTyped

LEMMA CandidatesArePages ==
  ASSUME TypeInv
  PROVE  Candidates(json) \subseteq Pages /\ Cardinality(Candidates(json)) \in Nat
<1>1. Candidates(json) \subseteq Pages
  BY MasterEntries DEF TypeInv, Candidates
<1> QED
  BY <1>1, FS_Subset, FS_CardinalityType

\* A batch is the front of the candidates in the order of their turn.
LEMMA BatchesTyped ==
  ASSUME TypeInv, NEW b \in Batches(json)
  PROVE  /\ b \in Seq(Pages) /\ Len(b) <= MaxBatch
         /\ \A i \in DOMAIN b : b[i] \in Candidates(json)
         /\ \E q \in InTurn(json) :
              /\ q \in [1..Cardinality(Candidates(json)) -> Candidates(json)]
              /\ Len(b) <= Cardinality(Candidates(json))
              /\ \A i \in 1..Len(b) : b[i] = q[i]
<1> DEFINE n == Cardinality(Candidates(json))
<1>1. n \in Nat /\ Candidates(json) \subseteq Pages
  BY CandidatesArePages
<1>2. PICK q \in InTurn(json) : b = SubSeq(q, 1, IF Len(q) < MaxBatch THEN Len(q) ELSE MaxBatch)
  BY DEF Batches
<1>3. q \in [1..n -> Candidates(json)]
  BY DEF InTurn, SetToSeqs
<1> HIDE DEF n
<1>4. q \in Seq(Candidates(json)) /\ Len(q) = n
  BY <1>1, <1>3
<1> DEFINE m == IF n < MaxBatch THEN n ELSE MaxBatch
<1>5. m \in 0..n /\ m <= MaxBatch
  BY <1>1
<1>6. b = SubSeq(q, 1, m)
  BY <1>2, <1>4
<1> HIDE DEF m
<1>7. Len(b) = m /\ \A i \in 1..m : b[i] = q[i]
  BY <1>1, <1>4, <1>5, <1>6
<1>8. b \in Seq(Candidates(json))
  BY <1>4, <1>5, <1>6
<1> QED
  BY <1>1, <1>3, <1>5, <1>7, <1>8 DEF n

LEMMA QueueSteps == ASSUME TypingInv, [Next]_vars PROVE QueueTyped'
<1> USE DEF TypingInv, TypeInv
<1>1. ASSUME NEW s \in Sessions, Conclude(s) PROVE QueueTyped'
  BY <1>1 DEF Conclude, Begin, QueueTyped
<1>2. CASE Compile
  BY <1>2 DEF Compile, Begin, QueueTyped
<1>3. CASE Verify
  BY <1>3 DEF Verify, Begin, QueueTyped
<1>4. ASSUME NEW u \in Pages, AddManual(u) PROVE QueueTyped'
  BY <1>4 DEF AddManual, Begin, QueueTyped
<1>5. ASSUME NEW u \in Pages, RemoveModel(u) PROVE QueueTyped'
  BY <1>5 DEF RemoveModel, Begin, QueueTyped
<1>6. ASSUME NEW u \in Pages, BlockModel(u) PROVE QueueTyped'
  BY <1>6 DEF BlockModel, Begin, QueueTyped
<1>7. ASSUME NEW u \in Pages, SetCountry(u) PROVE QueueTyped'
  BY <1>7 DEF SetCountry, Begin, QueueTyped
<1>8. CASE Repair
  <2>1. CASE UNCHANGED work
    BY <2>1 DEF QueueTyped, work
  <2>2. CASE Return
    BY <2>2, NothingQueued DEF Return
  <2>3. CASE queue' \in Batches(json) /\ UNCHANGED records
    <3>1. queue' \in Seq(Pages) /\ Len(queue') \in Nat /\ Len(queue') <= MaxBatch
      BY <2>3, BatchesTyped
    <3>2. records = <<>>
      BY <1>8 DEF Repair, ControlInv
    <3> QED
      BY <2>3, <3>1, <3>2 DEF QueueTyped
  <2> QED
    BY <1>8, <2>1, <2>2, <2>3 DEF Repair, GoOn
<1>9. CASE Look
  <2>1. PICK v \in Verdicts : records' = Append(records, [page |-> Head(queue), verdict |-> v])
    BY <1>9 DEF Look
  <2>2. queue # <<>> /\ queue' = Tail(queue)
    BY <1>9 DEF Look
  <2>3. Head(queue) \in Pages /\ Tail(queue) \in Seq(Pages) /\ Len(Tail(queue)) = Len(queue) - 1
    BY <2>2 DEF QueueTyped
  <2>4. [page |-> Head(queue), verdict |-> v] \in Records
    BY <2>3 DEF Records
  <2>5. records' \in Seq(Records) /\ Len(records') = Len(records) + 1
    BY <2>1, <2>4 DEF QueueTyped
  <2>6. Len(queue) \in Nat /\ Len(records) \in Nat
    BY DEF QueueTyped
  <2> QED
    BY <2>2, <2>3, <2>5, <2>6 DEF QueueTyped
<1>10. CASE EndLooking
  <2>1. queue' = <<>> /\ records' = records /\ Len(queue) \in Nat /\ Len(records) \in Nat
    BY <1>10 DEF EndLooking, QueueTyped
  <2> QED
    BY <2>1 DEF QueueTyped
<1>11. CASE WriteManual
  BY <1>11 DEF WriteManual, QueueTyped, work
<1>12. CASE WriteBan
  <2>1. CASE UNCHANGED work
    BY <2>1 DEF QueueTyped, work
  <2>2. CASE Return
    BY <2>2, NothingQueued DEF Return
  <2> QED
    BY <1>12, <2>1, <2>2 DEF WriteBan, GoOn
<1>13. CASE PublishCompiled
  BY <1>13 DEF PublishCompiled, Publish, QueueTyped, work
<1>14. CASE PublishEdit
  BY <1>14 DEF PublishEdit, Publish, QueueTyped, work
<1>15. CASE PublishVerified
  BY <1>15 DEF PublishVerified, Publish, QueueTyped, work
<1>16. CASE WriteText
  <2>1. CASE UNCHANGED work
    BY <2>1 DEF QueueTyped, work
  <2>2. CASE Return
    BY <2>2, NothingQueued DEF Return
  <2> QED
    BY <1>16, <2>1, <2>2 DEF WriteText, GoOn
<1>17. CASE Bury
  BY <1>17, NothingQueued DEF Bury, Return
<1>18. CASE Crash
  BY <1>18, NothingQueued DEF Crash, Return
<1>19. CASE ChangePolicy
  BY <1>19 DEF ChangePolicy, QueueTyped, work
<1>20. CASE UNCHANGED vars
  BY <1>20 DEF vars, work, QueueTyped
<1> QED
  BY <1>1, <1>2, <1>3, <1>4, <1>5, <1>6, <1>7, <1>8, <1>9, <1>10, <1>11, <1>12,
     <1>13, <1>14, <1>15, <1>16, <1>17, <1>18, <1>19, <1>20
  DEF Next

LEMMA CountersMove ==
  ASSUME CountersTyped
  PROVE  /\ [used EXCEPT !.ops = @ + 1, !.runs = @ + 1] \in Counters
         /\ [used EXCEPT !.ops = @ + 1, !.edits = @ + 1] \in Counters
         /\ [used EXCEPT !.mishaps = @ + 1] \in Counters
<1>1. used \in Counters
  BY DEF CountersTyped
<1>2. \A c \in Counters : \A i \in Nat :
        /\ [c EXCEPT !.ops = i] \in Counters /\ [c EXCEPT !.runs = i] \in Counters
        /\ [c EXCEPT !.edits = i] \in Counters /\ [c EXCEPT !.mishaps = i] \in Counters
  BY DEF Counters
<1>3. \A c \in Counters : c.ops \in Nat /\ c.runs \in Nat /\ c.edits \in Nat /\ c.mishaps \in Nat
  BY DEF Counters
<1>4. ASSUME NEW c \in Counters
      PROVE  /\ c.ops + 1 \in Nat /\ c.runs + 1 \in Nat
             /\ c.edits + 1 \in Nat /\ c.mishaps + 1 \in Nat
  BY <1>3, <1>4
<1>5. ASSUME NEW c \in Counters
      PROVE  /\ [c EXCEPT !.ops = @ + 1] \in Counters /\ [c EXCEPT !.runs = @ + 1] \in Counters
             /\ [c EXCEPT !.edits = @ + 1] \in Counters
             /\ [c EXCEPT !.mishaps = @ + 1] \in Counters
  <2> DEFINE p == c.ops + 1
             q == c.runs + 1
             r == c.edits + 1
             t == c.mishaps + 1
  <2>1. p \in Nat /\ q \in Nat /\ r \in Nat /\ t \in Nat
    BY <1>4, <1>5
  <2>2. /\ [c EXCEPT !.ops = p] \in Counters /\ [c EXCEPT !.runs = q] \in Counters
        /\ [c EXCEPT !.edits = r] \in Counters /\ [c EXCEPT !.mishaps = t] \in Counters
    <3> HIDE DEF p, q, r, t
    <3> QED
      BY <1>2, <1>5, <2>1
  <2> QED
    BY <2>2
<1> DEFINE counted == [used EXCEPT !.ops = @ + 1]
<1>6. counted \in Counters
  BY <1>1, <1>5
<1>7. /\ [counted EXCEPT !.runs = @ + 1] \in Counters
      /\ [counted EXCEPT !.edits = @ + 1] \in Counters
  <2> HIDE DEF counted
  <2> QED
    BY <1>5, <1>6
<1>8. /\ [used EXCEPT !.ops = @ + 1, !.runs = @ + 1] = [counted EXCEPT !.runs = @ + 1]
      /\ [used EXCEPT !.ops = @ + 1, !.edits = @ + 1] = [counted EXCEPT !.edits = @ + 1]
  BY <1>1 DEF Counters
<1>9. [used EXCEPT !.mishaps = @ + 1] \in Counters
  BY <1>1, <1>5
<1> QED
  BY <1>7, <1>8, <1>9

LEMMA CounterSteps == ASSUME TypingInv, [Next]_vars PROVE CountersTyped'
<1> USE DEF TypingInv, TypeInv
<1>1. ASSUME NEW s \in Sessions, Conclude(s) PROVE CountersTyped'
  <2>1. used' \in Counters
    BY <1>1, CountersMove DEF Conclude, Begin, CountersTyped
  <2> QED
    BY <1>1, <2>1 DEF Conclude, aux, CountersTyped
<1>2. CASE Compile
  <2>1. used' \in Counters
    BY <1>2, CountersMove DEF Compile, Begin, CountersTyped
  <2> QED
    BY <1>2, <2>1 DEF Compile, aux, CountersTyped
<1>3. CASE Verify
  <2>1. used' \in Counters
    BY <1>3, CountersMove DEF Verify, Begin, CountersTyped
  <2> QED
    BY <1>3, <2>1 DEF Verify, aux, CountersTyped
<1>4. ASSUME NEW u \in Pages, AddManual(u) PROVE CountersTyped'
  <2>1. used' \in Counters
    BY <1>4, CountersMove DEF AddManual, Begin, CountersTyped
  <2> QED
    BY <1>4, <2>1 DEF AddManual, aux, CountersTyped
<1>5. ASSUME NEW u \in Pages, RemoveModel(u) PROVE CountersTyped'
  <2>1. used' \in Counters
    BY <1>5, CountersMove DEF RemoveModel, Begin, CountersTyped
  <2> QED
    BY <1>5, <2>1 DEF RemoveModel, aux, CountersTyped
<1>6. ASSUME NEW u \in Pages, BlockModel(u) PROVE CountersTyped'
  <2>1. used' \in Counters
    BY <1>6, CountersMove DEF BlockModel, Begin, CountersTyped
  <2> QED
    BY <1>6, <2>1 DEF BlockModel, aux, CountersTyped
<1>7. ASSUME NEW u \in Pages, SetCountry(u) PROVE CountersTyped'
  <2>1. used' \in Counters
    BY <1>7, CountersMove DEF SetCountry, Begin, CountersTyped
  <2> QED
    BY <1>7, <2>1 DEF SetCountry, aux, CountersTyped
<1>8. CASE Repair
  BY <1>8 DEF Repair, GoOn, Return, aux, CountersTyped
<1>9. CASE Look
  BY <1>9 DEF Look, aux, CountersTyped
<1>10. CASE EndLooking
  BY <1>10 DEF EndLooking, aux, CountersTyped
<1>11. CASE WriteManual
  BY <1>11 DEF WriteManual, aux, CountersTyped
<1>12. CASE WriteBan
  <2>1. target \in Pages
    BY <1>12 DEF WriteBan, ControlInv
  <2>2. buried' \subseteq Pages /\ slipped' \subseteq Pages
    BY <1>12, <2>1 DEF WriteBan, Blocked, CountersTyped
  <2> QED
    BY <1>12, <2>2 DEF WriteBan, CountersTyped
<1>13. CASE PublishCompiled
  <2>1. UNCHANGED <<buried, slipped>>
    BY <1>13 DEF PublishCompiled
  <2>2. blind' \in Nat
    BY <1>13 DEF PublishCompiled, CountersTyped
  <2>3. used' \in Counters
    BY <1>13, CountersMove DEF PublishCompiled, CountersTyped
  <2> QED
    BY <2>1, <2>2, <2>3 DEF CountersTyped
<1>14. CASE PublishEdit
  BY <1>14 DEF PublishEdit, CountersTyped
<1>15. CASE PublishVerified
  <2>1. Confirmed \subseteq Pages
    BY SeenPages DEF Confirmed
  <2> QED
    BY <1>15, <2>1 DEF PublishVerified, CountersTyped
<1>16. CASE WriteText
  <2>1. op = "block" => target \in Pages
    BY DEF ControlInv
  <2> QED
    BY <1>16, <2>1 DEF WriteText, Blocked, CountersTyped
<1>17. CASE Bury
  BY <1>17 DEF Bury, aux, CountersTyped
<1>18. CASE Crash
  <2>1. used' \in Counters
    BY <1>18, CountersMove DEF Crash, CountersTyped
  <2> QED
    BY <1>18, <2>1, SeenPages DEF Crash, CountersTyped
<1>19. CASE ChangePolicy
  <2>1. used' \in Counters
    BY <1>19, CountersMove DEF ChangePolicy, CountersTyped
  <2> QED
    BY <1>19, <2>1 DEF ChangePolicy, aux, CountersTyped
<1>20. CASE UNCHANGED vars
  BY <1>20 DEF vars, aux, CountersTyped
<1> QED
  BY <1>1, <1>2, <1>3, <1>4, <1>5, <1>6, <1>7, <1>8, <1>9, <1>10, <1>11, <1>12,
     <1>13, <1>14, <1>15, <1>16, <1>17, <1>18, <1>19, <1>20
  DEF Next

LEMMA LookSteps == ASSUME TypingInv, [Next]_vars PROVE LookInv'
<1> USE DEF TypingInv, TypeInv, LookInv
<1>1. ASSUME NEW s \in Sessions, Conclude(s) PROVE LookInv'
  BY <1>1 DEF Conclude, Begin
<1>2. CASE Compile
  BY <1>2 DEF Compile, Begin
<1>3. CASE Verify
  BY <1>3 DEF Verify, Begin
<1>4. ASSUME NEW u \in Pages, AddManual(u) PROVE LookInv'
  BY <1>4 DEF AddManual, Begin
<1>5. ASSUME NEW u \in Pages, RemoveModel(u) PROVE LookInv'
  BY <1>5 DEF RemoveModel, Begin
<1>6. ASSUME NEW u \in Pages, BlockModel(u) PROVE LookInv'
  BY <1>6 DEF BlockModel, Begin
<1>7. ASSUME NEW u \in Pages, SetCountry(u) PROVE LookInv'
  BY <1>7 DEF SetCountry, Begin
<1>8. CASE Repair
  <2>1. records' = <<>> /\ json' = json
    BY <1>8 DEF Repair, GoOn, Return, work, ControlInv
  <2>2. Seen' = {}
    BY <2>1 DEF Seen
  <2>3. pc' = "look" => \A i \in DOMAIN queue' : queue'[i] \in Candidates(json)
    BY <1>8, BatchesTyped DEF Repair, GoOn, Return
  <2>4. pc' = "publish" => op' # "verify"
    BY <1>8 DEF Repair, GoOn, Return, work
  <2> QED
    BY <2>1, <2>2, <2>3, <2>4 DEF Candidates
<1>9. CASE Look
  <2>1. PICK v \in Verdicts : records' = Append(records, [page |-> Head(queue), verdict |-> v])
    BY <1>9 DEF Look
  <2>2. /\ queue # <<>> /\ queue' = Tail(queue) /\ json' = json
        /\ queue \in Seq(Pages) /\ records \in Seq(Records)
        /\ op = "verify" /\ pc = "look"
    BY <1>9 DEF Look, QueueTyped, ControlInv, files
  <2>3. Head(queue) \in Candidates(json)
    BY <2>2
  <2>4. \A i \in DOMAIN queue' : queue'[i] \in Candidates(json)
    BY <2>2
  <2>5. Seen' \subseteq Seen \cup {Head(queue)}
    <3>1. \A i \in DOMAIN records' : IF i = Len(records) + 1 THEN records'[i].page = Head(queue)
                                    ELSE i \in DOMAIN records /\ records'[i] = records[i]
      BY <2>1, <2>2
    <3> QED
      BY <3>1 DEF Seen
  <2> QED
    BY <2>2, <2>3, <2>4, <2>5 DEF Candidates
<1>10. CASE EndLooking
  <2>1. queue' = <<>> /\ UNCHANGED <<json, records, op>> /\ pc = "look"
    BY <1>10 DEF EndLooking, files
  <2> QED
    BY <2>1 DEF Seen, Candidates
<1>11. CASE WriteManual
  BY <1>11 DEF WriteManual, ControlInv, work
<1>12. CASE WriteBan
  BY <1>12 DEF WriteBan, GoOn, Return, work
<1>13. CASE PublishCompiled
  BY <1>13 DEF PublishCompiled, Publish
<1>14. CASE PublishEdit
  BY <1>14 DEF PublishEdit, Publish
<1>15. CASE PublishVerified
  BY <1>15 DEF PublishVerified, Publish
<1>16. CASE WriteText
  BY <1>16 DEF WriteText, GoOn, Return
<1>17. CASE Bury
  BY <1>17 DEF Bury, Return
<1>18. CASE Crash
  BY <1>18 DEF Crash, Return
<1>19. CASE ChangePolicy
  BY <1>19 DEF ChangePolicy
<1>20. CASE UNCHANGED vars
  BY <1>20 DEF vars, folders, files, work, Seen, Candidates
<1> QED
  BY <1>1, <1>2, <1>3, <1>4, <1>5, <1>6, <1>7, <1>8, <1>9, <1>10, <1>11, <1>12,
     <1>13, <1>14, <1>15, <1>16, <1>17, <1>18, <1>19, <1>20
  DEF Next

LEMMA TextSteps == ASSUME TypingInv, [Next]_vars PROVE TextInv'
<1> USE DEF TypingInv, TypeInv, TextInv
<1>1. ASSUME NEW s \in Sessions, Conclude(s) PROVE TextInv'
  BY <1>1 DEF Conclude, Begin, files, CountersTyped, Counters
<1>2. CASE Compile
  BY <1>2 DEF Compile, Begin, files, CountersTyped, Counters
<1>3. CASE Verify
  BY <1>3 DEF Verify, Begin, files, CountersTyped, Counters
<1>4. ASSUME NEW u \in Pages, AddManual(u) PROVE TextInv'
  BY <1>4 DEF AddManual, Begin, files, CountersTyped, Counters
<1>5. ASSUME NEW u \in Pages, RemoveModel(u) PROVE TextInv'
  BY <1>5 DEF RemoveModel, Begin, files, CountersTyped, Counters
<1>6. ASSUME NEW u \in Pages, BlockModel(u) PROVE TextInv'
  BY <1>6 DEF BlockModel, Begin, files, CountersTyped, Counters
<1>7. ASSUME NEW u \in Pages, SetCountry(u) PROVE TextInv'
  BY <1>7 DEF SetCountry, Begin, files, CountersTyped, Counters
<1>8. CASE Repair
  BY <1>8 DEF Repair, GoOn, Return, files, CountersTyped, Counters
<1>9. CASE Look
  BY <1>9 DEF Look, files, CountersTyped, Counters
<1>10. CASE EndLooking
  BY <1>10 DEF EndLooking, files, CountersTyped, Counters
<1>11. CASE WriteManual
  BY <1>11 DEF WriteManual, files, CountersTyped, Counters
<1>12. CASE WriteBan
  BY <1>12 DEF WriteBan, GoOn, Return, files, CountersTyped, Counters
<1>13. CASE PublishCompiled
  BY <1>13 DEF PublishCompiled, Publish
<1>14. CASE PublishEdit
  BY <1>14 DEF PublishEdit, Publish
<1>15. CASE PublishVerified
  BY <1>15 DEF PublishVerified, Publish
<1>16. CASE WriteText
  BY <1>16 DEF WriteText, GoOn, Return, files, CountersTyped, Counters
<1>17. CASE Bury
  BY <1>17 DEF Bury, Return, files, CountersTyped, Counters
<1>18. CASE Crash
  BY <1>18 DEF Crash, Return, files, CountersTyped, Counters
<1>19. CASE ChangePolicy
  BY <1>19 DEF ChangePolicy, files, CountersTyped, Counters
<1>20. CASE UNCHANGED vars
  BY <1>20 DEF vars, files
<1> QED
  BY <1>1, <1>2, <1>3, <1>4, <1>5, <1>6, <1>7, <1>8, <1>9, <1>10, <1>11, <1>12,
     <1>13, <1>14, <1>15, <1>16, <1>17, <1>18, <1>19, <1>20
  DEF Next

LEMMA InitTyping == Init => TypingInv
<1> SUFFICES ASSUME Init PROVE TypingInv
  OBVIOUS
<1>1. IsMaster(json) /\ Names(json) = {}
  BY DEF Init, IsMaster, Names
<1>2. FilesTyped
  BY DEF Init, FilesTyped
<1>3. TaskTyped
  BY DEF Init, TaskTyped, Ops
<1>4. QueueTyped
  BY DEF Init, QueueTyped
<1>5. CountersTyped
  BY DEF Init, CountersTyped, Counters
<1>6. ControlInv /\ LookInv
  BY DEF Init, ControlInv, LookInv
<1>7. TextInv
  BY <1>1 DEF Init, TextInv
<1> QED
  BY <1>1, <1>2, <1>3, <1>4, <1>5, <1>6, <1>7 DEF TypingInv, TypeInv

LEMMA TypingSteps == ASSUME TypingInv, [Next]_vars PROVE TypingInv'
  BY ControlSteps, MasterSteps, FileSteps, TaskSteps, QueueSteps, CounterSteps, LookSteps,
     TextSteps
  DEF TypingInv, TypeInv

\* The master, its files and the operation that runs are well formed, and the
\* text list shows the names in the JSON whenever no operation was cut short
\* and none is between the two writes (publish, validate_consistency).
THEOREM Typing == Spec => []TypeOK
<1>1. TypingInv => TypeOK
  BY DEF TypingInv, TypeInv, IsMaster, FilesTyped, TaskTyped, QueueTyped, TextInv, TypeOK
<1> QED
  BY <1>1, InitTyping, TypingSteps, PTL DEF Spec

-----------------------------------------------------------------------------
(* The blacklist.                                                          *)

\* What was buried is out of the master and banned, or about to be banned by the
\* verification that took it out; a block bans before it removes.
InTheAir(u) == pc \in {"text", "bury"} /\ op = "verify" /\ u \in Seen \ Names(json)
BanInv ==
  /\ \A u \in buried \ slipped : u \in banned \/ InTheAir(u)
  /\ blind = 0 => \A u \in buried \ slipped : u \notin Names(json)
  /\ op = "block" /\ pc \in {"manual", "publish", "text"} => target \in banned
  /\ op = "block" /\ pc = "text" => target \notin Names(json)

\* Only compiling lists a page.
LEMMA NamesShrink ==
  ASSUME TypingInv, PublishEdit \/ PublishVerified
  PROVE  Names(json') \subseteq Names(json)
<1>1. CASE PublishEdit
  <2>1. target \in Names(json)
    BY <1>1 DEF PublishEdit, TypingInv, ControlInv
  <2>2. json # NoMaster /\ IsMaster(json)
    BY <2>1 DEF TypingInv, TypeInv, Names
  <2>3. Names(Without(json, {target})) \subseteq Names(json)
    BY <2>2, WithoutMaster
  <2>4. Names([json EXCEPT ![target].country = TRUE]) = Names(json)
    BY <2>1, CountryIsMaster DEF TypingInv, TypeInv
  <2> QED
    BY <1>1, <2>3, <2>4 DEF PublishEdit, Publish
<1>2. CASE PublishVerified
  BY <1>2, AllJudgedNames, WithoutMaster DEF PublishVerified, Publish, TypingInv
<1> QED
  BY <1>1, <1>2

\* Nothing is under way that removes a page, and nothing will be.
LEMMA NothingRemoved ==
  ASSUME BanInv, pc \notin {"text", "bury"}, pc' \notin {"text", "bury"},
         UNCHANGED <<buried, slipped, json, blind>>, banned \subseteq banned',
         op' = "block" /\ pc' \in {"manual", "publish"} => target' \in banned'
  PROVE  BanInv'
  BY DEF BanInv, InTheAir

LEMMA BanSteps == ASSUME TypingInv, BanInv, [Next]_vars PROVE BanInv'
<1> USE DEF TypingInv, TypeInv, ControlInv
<1>1. ASSUME NEW s \in Sessions, Conclude(s) PROVE BanInv'
  BY <1>1, NothingRemoved DEF Conclude, Begin, files, aux
<1>2. CASE Compile
  BY <1>2, NothingRemoved DEF Compile, Begin, files, aux
<1>3. CASE Verify
  BY <1>3, NothingRemoved DEF Verify, Begin, files, aux
<1>4. ASSUME NEW u \in Pages, AddManual(u) PROVE BanInv'
  BY <1>4, NothingRemoved DEF AddManual, Begin, files, aux
<1>5. ASSUME NEW u \in Pages, RemoveModel(u) PROVE BanInv'
  BY <1>5, NothingRemoved DEF RemoveModel, Begin, files, aux
<1>6. ASSUME NEW u \in Pages, BlockModel(u) PROVE BanInv'
  BY <1>6, NothingRemoved DEF BlockModel, Begin, files, aux
<1>7. ASSUME NEW u \in Pages, SetCountry(u) PROVE BanInv'
  BY <1>7, NothingRemoved DEF SetCountry, Begin, files, aux
<1>8. CASE Repair
  BY <1>8, NothingRemoved DEF Repair, GoOn, Return, work, aux
<1>9. CASE Look
  BY <1>9, NothingRemoved DEF Look, files, aux
<1>10. CASE EndLooking
  BY <1>10, NothingRemoved DEF EndLooking, files, aux
<1>11. CASE WriteManual
  BY <1>11, NothingRemoved DEF WriteManual, work, aux, BanInv
<1>12. CASE WriteBan
  <2>1. pc = "ban" /\ op = "block" /\ banned' = banned \cup {target} /\ UNCHANGED <<json, blind>>
    BY <1>12 DEF WriteBan
  <2>2. CASE target \in Names(json)
    BY <1>12, <2>1, <2>2, NothingRemoved DEF WriteBan, GoOn, work
  <2>3. CASE target \notin Names(json)
    <3>1. pc' = "idle" /\ buried' = buried \cup {target} /\ slipped' = slipped \ {target}
      BY <1>12, <2>3 DEF WriteBan, Return, Blocked
    <3>2. \A u \in buried' \ slipped' : u \in buried \ slipped \/ u = target
      BY <3>1
    <3>3. \A u \in buried \ slipped : u \in banned
      BY <2>1 DEF BanInv, InTheAir
    <3> QED
      BY <2>1, <2>3, <3>1, <3>2, <3>3 DEF BanInv, InTheAir
  <2> QED
    BY <2>2, <2>3
<1>13. CASE PublishCompiled
  <2>1. /\ UNCHANGED <<buried, slipped, banned, op, target>> /\ pc = "publish" /\ pc' = "text"
        /\ op \notin {"block", "verify"}
    BY <1>13 DEF PublishCompiled, Publish, work
  <2>2. blind' = 0 => json' = Compiled(Sessions, manual, banned, json)
    BY <1>13 DEF PublishCompiled, Publish, CountersTyped
  <2>3. Names(Compiled(Sessions, manual, banned, json)) \cap banned = {}
    <3>1. Sessions \in SUBSET Sessions
      OBVIOUS
    <3> QED
      BY <3>1, CompiledIsMaster
  <2>4. \A u \in buried \ slipped : u \in banned
    BY <2>1 DEF BanInv, InTheAir
  <2> QED
    BY <2>1, <2>2, <2>3, <2>4 DEF BanInv, InTheAir
<1>14. CASE PublishEdit
  <2>1. /\ UNCHANGED <<buried, slipped, banned, op, target, blind>>
        /\ pc = "publish" /\ pc' = "text" /\ op # "verify"
    BY <1>14 DEF PublishEdit, Publish, work
  <2>2. op = "block" => target \in banned
    BY <2>1 DEF BanInv
  <2>3. op = "block" => target \notin Names(json')
    BY <1>14 DEF PublishEdit, Publish, Without, Names
  <2>4. \A u \in buried \ slipped : u \in banned
    BY <2>1 DEF BanInv, InTheAir
  <2> QED
    BY <1>14, <2>1, <2>2, <2>3, <2>4, NamesShrink DEF BanInv, InTheAir
<1>15. CASE PublishVerified
  <2>1. /\ UNCHANGED <<banned, op, target, blind, records>> /\ pc = "publish" /\ pc' = "text"
        /\ op = "verify" /\ json' = Without(AllJudged, Confirmed)
        /\ buried' = buried \cup Confirmed /\ slipped' = slipped \ Confirmed
    BY <1>15 DEF PublishVerified, Publish, work
  <2>2. Confirmed \subseteq Seen /\ Seen' = Seen
    BY <2>1 DEF Confirmed, Seen
  <2>3. Names(json') \cap Confirmed = {}
    BY <2>1, AllJudgedNames, WithoutMaster
  <2>4. \A u \in buried' \ slipped' : u \in Confirmed \/ u \in buried \ slipped
    BY <2>1
  <2>5. \A u \in buried \ slipped : u \in banned
    BY <2>1 DEF BanInv, InTheAir
  <2>6. Names(json') \subseteq Names(json)
    BY <1>15, NamesShrink
  <2>7. \A u \in buried' \ slipped' : u \in banned' \/ InTheAir(u)'
    BY <2>1, <2>2, <2>3, <2>4, <2>5 DEF InTheAir
  <2>8. blind' = 0 => \A u \in buried' \ slipped' : u \notin Names(json')
    BY <2>1, <2>3, <2>4, <2>6 DEF BanInv
  <2> QED
    BY <2>1, <2>7, <2>8 DEF BanInv
<1>16. CASE WriteText
  <2>1. pc = "text" /\ UNCHANGED <<json, banned, blind>>
    BY <1>16 DEF WriteText
  <2>2. CASE op = "verify" /\ ~(Seen \subseteq Names(json))
    <3>1. pc' = "bury" /\ UNCHANGED <<buried, slipped, op, target, records>>
      BY <1>16, <2>2 DEF WriteText, GoOn, work
    <3>2. Seen' = Seen
      BY <3>1 DEF Seen
    <3> QED
      BY <2>1, <2>2, <3>1, <3>2 DEF BanInv, InTheAir
  <2>3. CASE op # "verify" \/ Seen \subseteq Names(json)
    <3>1. pc' = "idle"
      BY <1>16, <2>3 DEF WriteText, Return
    <3>2. \A u \in buried \ slipped : u \in banned
      BY <2>3 DEF BanInv, InTheAir
    <3>3. \/ op = "block" /\ buried' = buried \cup {target} /\ slipped' = slipped \ {target}
          \/ UNCHANGED <<buried, slipped>>
      BY <1>16 DEF WriteText, Blocked
    <3>4. \A u \in buried' \ slipped' : u \in buried \ slipped \/ (op = "block" /\ u = target)
      BY <3>3
    <3> QED
      BY <2>1, <3>1, <3>2, <3>4 DEF BanInv, InTheAir
  <2> QED
    BY <2>2, <2>3
<1>17. CASE Bury
  <2>1. /\ pc = "bury" /\ pc' = "idle" /\ UNCHANGED <<buried, slipped, json, blind>>
        /\ banned' = banned \cup (Seen \ Names(json))
    BY <1>17 DEF Bury, Return, aux
  <2> QED
    BY <2>1 DEF BanInv, InTheAir
<1>18. CASE Crash
  <2>1. /\ pc' = "idle" /\ UNCHANGED <<buried, banned, json, blind>>
        /\ slipped' = slipped \cup (Seen \ Names(json))
    BY <1>18 DEF Crash, Return, files
  <2> QED
    BY <2>1 DEF BanInv, InTheAir
<1>19. CASE ChangePolicy
  BY <1>19, NothingRemoved DEF ChangePolicy, files, work, aux
<1>20. CASE UNCHANGED vars
  <2>1. UNCHANGED <<pc, op, target, records, buried, slipped, banned, json, blind>>
    BY <1>20 DEF vars, files, work, aux
  <2> QED
    BY <2>1 DEF BanInv, InTheAir, Seen
<1> QED
  BY <1>1, <1>2, <1>3, <1>4, <1>5, <1>6, <1>7, <1>8, <1>9, <1>10, <1>11, <1>12,
     <1>13, <1>14, <1>15, <1>16, <1>17, <1>18, <1>19, <1>20
  DEF Next

\* A page that was blocked by the operator or taken out by a verification does
\* not come back, unless a compilation could not read what it compiles from or
\* that verification ended between the publication and its ban (block_model,
\* apply_verification_records, compile_master_list).
THEOREM Banning == Spec => []BannedStaysOut
<1>1. Init => BanInv
  BY DEF Init, BanInv, InTheAir
<1>2. BanInv => BannedStaysOut
  BY DEF BanInv, BannedStaysOut
<1> QED
  BY <1>1, <1>2, BanSteps, InitTyping, TypingSteps, PTL DEF Spec

-----------------------------------------------------------------------------
(* Two looks.                                                              *)

\* What an entry says of its confirmations happened.
FreeInv ==
  /\ runsFree \in [Pages -> SUBSET Nat]
  /\ \A u \in Pages : IsFiniteSet(runsFree[u])
  /\ \A u \in Names(json) : json[u].free \subseteq runsFree[u]

LEMMA PublishedAfterLooks ==
  ASSUME TypingInv, FreeInv, PublishVerified
  PROVE  /\ FreeInv'
         /\ \A u \in Names(json) \ Names(json') :
              /\ Cardinality(runsFree'[u]) >= 2
              /\ ~json[u].manual /\ ~json[u].matched
<1> DEFINE verdict(u) == records[LookAt(u)].verdict
<1>1. /\ AllJudged \in [Names(json) -> Entry] /\ Names(json) \in SUBSET Pages
      /\ \A u \in Names(json) \ Seen : AllJudged[u] = json[u]
  BY AllJudgedIsMaster DEF TypingInv
<1>2. ASSUME NEW u \in Names(json) \cap Seen
      PROVE  /\ verdict(u) \in Verdicts
             /\ verdict(u) = "accessible" => AllJudged[u].free = json[u].free \cup {used.ops}
             /\ verdict(u) = "blocked" => AllJudged[u].free = {}
             /\ verdict(u) = "unknown" => AllJudged[u].free = json[u].free
  <2>1. verdict(u) \in Verdicts
    BY LookTyped DEF TypingInv
  <2>2. json[u] \in Entry
    BY MasterEntries DEF TypingInv, TypeInv
  <2>3. PICK n \in Nat : AllJudged[u] = Judged(json[u], verdict(u), n)
    BY AllJudgedIsMaster DEF TypingInv
  <2>4. /\ verdict(u) = "accessible" => Judged(json[u], verdict(u), n).free = json[u].free \cup {used.ops}
        /\ verdict(u) = "blocked" => Judged(json[u], verdict(u), n).free = {}
        /\ verdict(u) = "unknown" => Judged(json[u], verdict(u), n).free = json[u].free
    <3> HIDE DEF verdict
    <3> QED
      BY <2>1, <2>2, JudgedIsEntry DEF TypingInv
  <2> QED
    BY <2>1, <2>3, <2>4
<1>3. runsFree' = [u \in Pages |->
        IF u \notin Seen THEN runsFree[u]
        ELSE CASE verdict(u) = "accessible" -> runsFree[u] \cup {used.ops}
               [] verdict(u) = "blocked" -> {}
               [] OTHER -> runsFree[u]]
  BY DEF PublishVerified
<1>4. used.ops \in Nat
  BY DEF TypingInv, TypeInv, CountersTyped, Counters
<1>5. /\ Names(json') = Names(json) \ Confirmed
      /\ \A u \in Names(json') : json'[u] = AllJudged[u]
  BY AllJudgedNames, WithoutMaster DEF PublishVerified, Publish, TypingInv
<1>6. ASSUME NEW u \in Pages
      PROVE  runsFree'[u] \in SUBSET Nat /\ IsFiniteSet(runsFree'[u])
  <2>1. IsFiniteSet({}) /\ IsFiniteSet(runsFree[u] \cup {used.ops})
    BY FS_EmptySet, FS_AddElement DEF FreeInv
  <2>2. runsFree[u] \in SUBSET Nat /\ IsFiniteSet(runsFree[u])
    BY DEF FreeInv
  <2> HIDE DEF verdict
  <2> QED
    BY <1>3, <1>4, <2>1, <2>2
<1>7. ASSUME NEW u \in Names(json) PROVE AllJudged[u].free \subseteq runsFree'[u]
  <2>1. json[u].free \subseteq runsFree[u] /\ u \in Pages
    BY <1>1 DEF FreeInv
  <2> HIDE DEF verdict
  <2>2. CASE u \notin Seen
    BY <1>1, <1>3, <2>1, <2>2
  <2>3. CASE u \in Seen
    BY <1>2, <1>3, <2>1, <2>3 DEF Verdicts
  <2> QED
    BY <2>2, <2>3
<1>8. FreeInv'
  <2>1. runsFree' \in [Pages -> SUBSET Nat]
    <3>1. DOMAIN runsFree' = Pages /\ runsFree' = [u \in Pages |-> runsFree'[u]]
      BY <1>3
    <3> QED
      BY <1>6, <3>1
  <2>2. Names(json') \subseteq Names(json)
    BY <1>5
  <2> QED
    BY <1>5, <1>6, <1>7, <2>1, <2>2 DEF FreeInv
<1>9. ASSUME NEW u \in Names(json) \ Names(json')
      PROVE  /\ Cardinality(runsFree'[u]) >= 2
             /\ ~json[u].manual /\ ~json[u].matched
  <2>1. u \in Confirmed /\ u \in Seen
    BY <1>5 DEF Confirmed
  <2>2. u \in Candidates(json)
    BY <2>1 DEF TypingInv, LookInv, PublishVerified
  <2>3. Cardinality(AllJudged[u].free) >= 2
    BY <2>1 DEF Confirmed
  <2>4. IsFiniteSet(runsFree'[u]) /\ AllJudged[u].free \in SUBSET runsFree'[u]
    BY <1>1, <1>6, <1>7
  <2>5. /\ Cardinality(AllJudged[u].free) <= Cardinality(runsFree'[u])
        /\ Cardinality(AllJudged[u].free) \in Nat /\ Cardinality(runsFree'[u]) \in Nat
    BY <2>4, FS_Subset, FS_CardinalityType
  <2> QED
    BY <2>2, <2>3, <2>5 DEF Candidates
<1> QED
  BY <1>8, <1>9


\* An edit removes a page or notes its country, and changes nothing else.
LEMMA EditKeeps ==
  ASSUME TypingInv, PublishEdit, NEW u \in Names(json')
  PROVE  /\ json'[u].free = json[u].free /\ json'[u].pending = json[u].pending
         /\ json'[u].at = json[u].at /\ json'[u].manual = json[u].manual
         /\ json'[u].matched = json[u].matched
<1>1. target \in Names(json) /\ IsMaster(json)
  BY DEF PublishEdit, TypingInv, TypeInv, ControlInv
<1>2. u \in Names(json)
  BY NamesShrink
<1>3. CASE op = "country"
  <2>1. json' = [json EXCEPT ![target].country = TRUE]
    BY <1>3 DEF PublishEdit, Publish
  <2> QED
    BY <1>1, <1>2, <2>1, CountryIsMaster
<1>4. CASE op # "country"
  <2>1. json' = Without(json, {target})
    BY <1>4 DEF PublishEdit, Publish
  <2>2. json # NoMaster
    BY <1>1 DEF Names
  <2>3. u \in Names(json) \ {target}
    BY <1>1, <2>1, <2>2, WithoutMaster
  <2>4. json'[u] = json[u]
    BY <1>1, <2>1, <2>2, <2>3, WithoutMaster
  <2> QED
    BY <2>4
<1> QED
  BY <1>3, <1>4

LEMMA FreeSteps == ASSUME TypingInv, FreeInv, [Next]_vars PROVE FreeInv'
<1> USE DEF TypingInv, TypeInv
<1>1. ASSUME NEW s \in Sessions, Conclude(s) PROVE FreeInv'
  BY <1>1 DEF Conclude, Begin, files, aux, FreeInv
<1>2. CASE Compile
  BY <1>2 DEF Compile, Begin, files, aux, FreeInv
<1>3. CASE Verify
  BY <1>3 DEF Verify, Begin, files, aux, FreeInv
<1>4. ASSUME NEW u \in Pages, AddManual(u) PROVE FreeInv'
  BY <1>4 DEF AddManual, Begin, files, aux, FreeInv
<1>5. ASSUME NEW u \in Pages, RemoveModel(u) PROVE FreeInv'
  BY <1>5 DEF RemoveModel, Begin, files, aux, FreeInv
<1>6. ASSUME NEW u \in Pages, BlockModel(u) PROVE FreeInv'
  BY <1>6 DEF BlockModel, Begin, files, aux, FreeInv
<1>7. ASSUME NEW u \in Pages, SetCountry(u) PROVE FreeInv'
  BY <1>7 DEF SetCountry, Begin, files, aux, FreeInv
<1>8. CASE Repair
  BY <1>8 DEF Repair, GoOn, Return, files, aux, FreeInv
<1>9. CASE Look
  BY <1>9 DEF Look, files, aux, FreeInv
<1>10. CASE EndLooking
  BY <1>10 DEF EndLooking, files, aux, FreeInv
<1>11. CASE WriteManual
  BY <1>11 DEF WriteManual, files, aux, FreeInv
<1>12. CASE WriteBan
  BY <1>12 DEF WriteBan, GoOn, Return, FreeInv
<1>13. CASE PublishCompiled
  <2>1. /\ runsFree' \in [Pages -> SUBSET Nat]
        /\ \A u \in Pages : IsFiniteSet(runsFree'[u])
        /\ \A u \in Names(json') : u \in Pages => runsFree'[u] = runsFree[u]
    <3>1. runsFree' = [u \in Pages |-> IF u \in Names(json') THEN runsFree[u] ELSE {}]
      BY <1>13 DEF PublishCompiled, Forget
    <3>2. IsFiniteSet({})
      BY FS_EmptySet
    <3> QED
      BY <3>1, <3>2 DEF FreeInv
  <2>2. PICK read \in SUBSET Sessions : \E mine, black, old :
          /\ json' = Compiled(read, mine, black, old)
          /\ old \in {json, NoMaster}
    <3>1. /\ Sessions \in SUBSET Sessions
          /\ \A s \in Sessions : Sessions \ {s} \in SUBSET Sessions
      OBVIOUS
    <3>2. json' \in {Compiled(Sessions, manual, banned, json), Compiled(Sessions, {}, banned, json),
                     Compiled(Sessions, manual, {}, json), Compiled(Sessions, manual, banned, NoMaster)}
            \cup {Compiled(Sessions \ {s}, manual, banned, json) : s \in Sessions}
      BY <1>13 DEF PublishCompiled, Publish
    <3> QED
      BY <3>1, <3>2
  <2>3. PICK mine, black, old : /\ json' = Compiled(read, mine, black, old)
                                /\ old \in {json, NoMaster}
    BY <2>2
  <2>4. IsMaster(old)
    BY <2>3 DEF IsMaster
  <2> DEFINE new == Compiled(read, mine, black, old)
  <2>a. /\ Names(new) \subseteq Pages \ black
        /\ \A u \in Names(new) : new[u].free = Preserved(old, u).free
    BY <2>4, CompiledKeeps
  <2>5. ASSUME NEW u \in Names(json') PROVE u \in Pages /\ json'[u].free = Preserved(old, u).free
    <3>1. u \in Names(new)
      BY <2>3, <2>5
    <3> QED
      BY <2>3, <2>a, <3>1
  <2>6. ASSUME NEW u \in Names(json') PROVE Preserved(old, u).free \subseteq runsFree[u]
    <3>1. CASE u \in Names(old)
      <4>1. old = json
        BY <2>3, <3>1 DEF Names
      <4> QED
        BY <3>1, <4>1 DEF Preserved, FreeInv
    <3>2. CASE u \notin Names(old)
      BY <3>2 DEF Preserved
    <3> QED
      BY <3>1, <3>2
  <2> QED
    BY <2>1, <2>5, <2>6 DEF FreeInv
<1>14. CASE PublishEdit
  <2>1. /\ runsFree' \in [Pages -> SUBSET Nat]
        /\ \A u \in Pages : IsFiniteSet(runsFree'[u])
        /\ \A u \in Names(json') : u \in Pages => runsFree'[u] = runsFree[u]
    <3>1. runsFree' = [u \in Pages |-> IF u \in Names(json') THEN runsFree[u] ELSE {}]
      BY <1>14 DEF PublishEdit, Forget
    <3>2. IsFiniteSet({})
      BY FS_EmptySet
    <3> QED
      BY <3>1, <3>2 DEF FreeInv
  <2>2. Names(json') \subseteq Names(json) /\ Names(json) \subseteq Pages
    BY <1>14, NamesShrink, MasterEntries
  <2>3. ASSUME NEW u \in Names(json') PROVE json'[u].free = json[u].free
    BY <1>14, <2>2, <2>3, EditKeeps
  <2> QED
    BY <2>1, <2>2, <2>3 DEF FreeInv
<1>15. CASE PublishVerified
  BY <1>15, PublishedAfterLooks
<1>16. CASE WriteText
  BY <1>16 DEF WriteText, FreeInv
<1>17. CASE Bury
  BY <1>17 DEF Bury, aux, FreeInv
<1>18. CASE Crash
  BY <1>18 DEF Crash, Return, files, FreeInv
<1>19. CASE ChangePolicy
  BY <1>19 DEF ChangePolicy, files, aux, FreeInv
<1>20. CASE UNCHANGED vars
  BY <1>20 DEF vars, files, aux, FreeInv
<1> QED
  BY <1>1, <1>2, <1>3, <1>4, <1>5, <1>6, <1>7, <1>8, <1>9, <1>10, <1>11, <1>12,
     <1>13, <1>14, <1>15, <1>16, <1>17, <1>18, <1>19, <1>20
  DEF Next

LEMMA LooksBeforeRemoval ==
  ASSUME TypingInv, FreeInv, [Next]_vars
  PROVE  \A u \in Names(json) \ Names(json') : op = "verify" =>
           /\ Cardinality(runsFree'[u]) >= 2
           /\ ~json[u].manual /\ ~json[u].matched
<1> DEFINE Looked == \A u \in Names(json) \ Names(json') : op = "verify" =>
                       /\ Cardinality(runsFree'[u]) >= 2
                       /\ ~json[u].manual /\ ~json[u].matched
<1> SUFFICES Looked
  OBVIOUS
<1>1. ASSUME NEW s \in Sessions, Conclude(s) PROVE Looked
  BY <1>1 DEF Conclude, Begin, files
<1>2. CASE Compile
  BY <1>2 DEF Compile, Begin, files
<1>3. CASE Verify
  BY <1>3 DEF Verify, Begin, files
<1>4. ASSUME NEW u \in Pages, AddManual(u) PROVE Looked
  BY <1>4 DEF AddManual, Begin, files
<1>5. ASSUME NEW u \in Pages, RemoveModel(u) PROVE Looked
  BY <1>5 DEF RemoveModel, Begin, files
<1>6. ASSUME NEW u \in Pages, BlockModel(u) PROVE Looked
  BY <1>6 DEF BlockModel, Begin, files
<1>7. ASSUME NEW u \in Pages, SetCountry(u) PROVE Looked
  BY <1>7 DEF SetCountry, Begin, files
<1>8. CASE Repair
  BY <1>8 DEF Repair, GoOn, Return, files
<1>9. CASE Look
  BY <1>9 DEF Look, files
<1>10. CASE EndLooking
  BY <1>10 DEF EndLooking, files
<1>11. CASE WriteManual
  BY <1>11 DEF WriteManual, files
<1>12. CASE WriteBan
  BY <1>12 DEF WriteBan, GoOn, Return, files
<1>13. CASE PublishCompiled
  BY <1>13 DEF PublishCompiled
<1>14. CASE PublishEdit
  BY <1>14 DEF PublishEdit
<1>15. CASE PublishVerified
  BY <1>15, PublishedAfterLooks
<1>16. CASE WriteText
  BY <1>16 DEF WriteText, GoOn, Return, files
<1>17. CASE Bury
  BY <1>17 DEF Bury, Return, files
<1>18. CASE Crash
  BY <1>18 DEF Crash, Return, files
<1>19. CASE ChangePolicy
  BY <1>19 DEF ChangePolicy, files
<1>20. CASE UNCHANGED vars
  BY <1>20 DEF vars, files
<1> QED
  BY <1>1, <1>2, <1>3, <1>4, <1>5, <1>6, <1>7, <1>8, <1>9, <1>10, <1>11, <1>12,
     <1>13, <1>14, <1>15, <1>16, <1>17, <1>18, <1>19, <1>20
  DEF Next

\* Verification removes a page only after two runs found it accessible with no
\* run in between that found it blocked, and never one the operator added or
\* that matches a profile (apply_verification_records, verify_master_list).
THEOREM TwoLooks == Spec => TwoLooksRemove
<1>1. Init => FreeInv
  BY FS_EmptySet DEF Init, FreeInv, Names
<1>2. TypingInv /\ FreeInv /\ [Next]_vars =>
        [\A u \in Names(json) \ Names(json') :
           op = "verify" => /\ Cardinality(runsFree'[u]) >= 2
                            /\ ~json[u].manual /\ ~json[u].matched]_vars
  BY LooksBeforeRemoval
<1> QED
  BY <1>1, <1>2, FreeSteps, InitTyping, TypingSteps, PTL DEF Spec, TwoLooksRemove

-----------------------------------------------------------------------------
(* Turns.                                                                  *)

\* The time at which operation k begins, and what it adds at most.
Clock(k) == k * Cardinality(Pages)

AtInv ==
  \A u \in Names(json) :
    json[u].at <= IF op = "verify" /\ pc \in {"repair", "look", "publish"}
                    THEN Clock(used.ops) ELSE Clock(used.ops) + Cardinality(Pages)

\* The pages looked at, and after them those in the queue, are the front of the
\* candidates in the order of their turn.
Ahead(q) ==
  /\ Len(records) + Len(queue) <= Cardinality(Candidates(json))
  /\ \A i \in 1..Len(records) : records[i].page = q[i]
  /\ \A i \in 1..Len(queue) : queue[i] = q[Len(records) + i]
BatchInv ==
  op = "verify" /\ pc \in {"look", "publish"} => \E q \in InTurn(json) : Ahead(q)

\* Who was looked at while u waited, and waits too, was looked at after it.
OrderInv ==
  \A u \in Names(json) : json[u].pending =>
    \A v \in since[u] \cap Names(json) : json[v].pending => json[v].at > json[u].at

SinceTyped == since \in [Pages -> SUBSET Pages]

TurnInv == AtInv /\ BatchInv /\ OrderInv /\ SinceTyped

LEMMA ClockAdvances ==
  ASSUME NEW k \in Nat
  PROVE  /\ Clock(k) \in Nat /\ Cardinality(Pages) \in Nat
         /\ Clock(k + 1) = Clock(k) + Cardinality(Pages)
<1>1. Cardinality(Pages) \in Nat
  BY CardinalityOfPages
<1>2. \A n \in Nat : k * n \in Nat /\ (k + 1) * n = k * n + n
  OBVIOUS
<1> QED
  BY <1>1, <1>2 DEF Clock

LEMMA InTurnProperties ==
  ASSUME TypeInv, NEW q \in InTurn(json)
  PROVE  /\ q \in [1..Cardinality(Candidates(json)) -> Candidates(json)]
         /\ \A u \in Candidates(json) : \E i \in 1..Cardinality(Candidates(json)) : q[i] = u
         /\ \A a, b \in 1..Cardinality(Candidates(json)) : a < b => ~Before(json, q[b], q[a])
<1> DEFINE n == Cardinality(Candidates(json))
<1>1. n \in Nat /\ IsFiniteSet(Candidates(json))
  BY CandidatesArePages, FS_Subset
<1>2. q \in Injection(1..n, Candidates(json))
  BY DEF InTurn, SetToSeqs, Injection, IsInjective
<1>3. Cardinality(1..n) = n
  <2> HIDE DEF n
  <2> QED
    BY <1>1, FS_Interval
<1>4. q \in Surjection(1..n, Candidates(json))
  BY <1>1, <1>2, <1>3, FS_Injection
<1>5. \A a, b \in DOMAIN q : a < b => ~Before(json, q[b], q[a])
  BY DEF InTurn
<1>6. q \in [1..n -> Candidates(json)]
  BY <1>2 DEF Injection
<1> QED
  BY <1>4, <1>5, <1>6 DEF Surjection

\* The pages looked at are no more than there are.
LEMMA FewLooks ==
  ASSUME TypingInv, BatchInv, op = "verify", pc = "publish", NEW u \in Seen
  PROVE  LookAt(u) \in 1..Cardinality(Pages)
<1>1. PICK q \in InTurn(json) : Ahead(q)
  BY DEF BatchInv
<1>2. LookAt(u) \in 1..Len(records)
  BY LookTyped DEF TypingInv
<1>3. /\ Cardinality(Candidates(json)) <= Cardinality(Pages)
      /\ Cardinality(Candidates(json)) \in Nat
  BY CandidatesArePages, FS_Subset DEF TypingInv
<1>4. Cardinality(Pages) \in Nat /\ Len(queue) \in Nat /\ Len(records) \in Nat
  BY CardinalityOfPages DEF TypingInv, TypeInv, QueueTyped
<1> QED
  BY <1>1, <1>2, <1>3, <1>4 DEF Ahead

\* A compilation takes the verification of an entry from the old one, or it
\* does not wait for any.
LEMMA CompiledWaits ==
  ASSUME TypingInv, PublishCompiled, NEW u \in Names(json')
  PROVE  /\ json'[u].pending => /\ u \in Names(json) /\ json[u].pending
                                /\ json'[u].at = json[u].at
         /\ \/ json'[u].at = 0
            \/ u \in Names(json) /\ json'[u].at = json[u].at
<1>1. PICK read \in SUBSET Sessions : \E mine, black, old :
        /\ json' = Compiled(read, mine, black, old)
        /\ old \in {json, NoMaster}
  <2>1. /\ Sessions \in SUBSET Sessions
        /\ \A s \in Sessions : Sessions \ {s} \in SUBSET Sessions
    OBVIOUS
  <2>2. json' \in {Compiled(Sessions, manual, banned, json), Compiled(Sessions, {}, banned, json),
                   Compiled(Sessions, manual, {}, json), Compiled(Sessions, manual, banned, NoMaster)}
          \cup {Compiled(Sessions \ {s}, manual, banned, json) : s \in Sessions}
    BY DEF PublishCompiled, Publish
  <2> QED
    BY <2>1, <2>2
<1>2. PICK mine, black, old : /\ json' = Compiled(read, mine, black, old)
                              /\ old \in {json, NoMaster}
  BY <1>1
<1>3. IsMaster(old)
  BY <1>2 DEF TypingInv, TypeInv, IsMaster
<1> DEFINE new == Compiled(read, mine, black, old)
<1>4. /\ u \in Names(new) => /\ new[u].pending = Preserved(old, u).pending
                             /\ new[u].at = Preserved(old, u).at
  BY <1>3, CompiledKeeps DEF TypingInv
<1>5. /\ json'[u].pending = Preserved(old, u).pending
      /\ json'[u].at = Preserved(old, u).at
  BY <1>2, <1>4
<1>6. CASE u \in Names(old)
  <2>1. old = json
    BY <1>2, <1>6 DEF Names
  <2> QED
    BY <1>5, <1>6, <2>1 DEF Preserved
<1>7. CASE u \notin Names(old)
  BY <1>5, <1>7 DEF Preserved
<1> QED
  BY <1>6, <1>7

\* What publishing a verification run leaves.
LEMMA VerifiedEntries ==
  ASSUME TypingInv, BatchInv, PublishVerified, NEW u \in Names(json')
  PROVE  /\ u \in Names(json)
         /\ u \notin Seen => json'[u] = json[u]
         /\ u \in Seen => /\ json'[u].at > Clock(used.ops)
                          /\ json'[u].at <= Clock(used.ops) + Cardinality(Pages)
<1>1. u \in Names(json) /\ json'[u] = AllJudged[u]
  BY AllJudgedNames, WithoutMaster DEF PublishVerified, Publish, TypingInv
<1>2. u \notin Seen => json'[u] = json[u]
  BY <1>1, AllJudgedIsMaster DEF TypingInv
<1>3. CASE u \in Seen
  <2> DEFINE n == used.ops * Cardinality(Pages) + LookAt(u)
  <2>1. n \in Nat /\ AllJudged[u] = Judged(json[u], records[LookAt(u)].verdict, n)
    BY <1>1, <1>3, AllJudgedIsMaster DEF TypingInv
  <2>2. json[u] \in Entry /\ records[LookAt(u)].verdict \in Verdicts
    BY <1>1, <1>3, MasterEntries, LookTyped DEF TypingInv, TypeInv
  <2>3. json'[u].at = n
    <3> HIDE DEF n
    <3> QED
      BY <1>1, <2>1, <2>2, JudgedIsEntry DEF TypingInv
  <2>4. LookAt(u) \in 1..Cardinality(Pages) /\ n = Clock(used.ops) + LookAt(u)
    BY <1>3, FewLooks DEF PublishVerified, Clock
  <2>5. Clock(used.ops) \in Nat /\ Cardinality(Pages) \in Nat
    BY ClockAdvances DEF TypingInv, TypeInv, CountersTyped, Counters
  <2> HIDE DEF n
  <2> QED
    BY <1>1, <1>3, <2>3, <2>4, <2>5
<1> QED
  BY <1>1, <1>2, <1>3

\* A new operation begins after everything that was looked at; within one
\* that leaves the master alone nothing changes.
LEMMA AtBegins ==
  ASSUME TypingInv, AtInv, used'.ops = used.ops + 1, UNCHANGED json
  PROVE  AtInv'
<1> USE DEF TypingInv, TypeInv
<1>1. /\ Clock(used.ops) \in Nat /\ Cardinality(Pages) \in Nat /\ used.ops \in Nat
      /\ Clock(used.ops + 1) = Clock(used.ops) + Cardinality(Pages)
  BY ClockAdvances DEF CountersTyped, Counters
<1>2. \A u \in Names(json) : json[u].at \in Nat
  BY MasterEntries, EntryFields
<1>3. Clock(used'.ops) = Clock(used.ops) + Cardinality(Pages)
  BY <1>1
<1>4. ASSUME NEW u \in Names(json) PROVE json[u].at <= Clock(used'.ops)
  <2>1. json[u].at <= Clock(used.ops) \/ json[u].at <= Clock(used.ops) + Cardinality(Pages)
    BY DEF AtInv
  <2> QED
    BY <1>1, <1>2, <1>3, <2>1
<1>5. \A u \in Names(json) : json[u].at <= Clock(used'.ops) + Cardinality(Pages)
  BY <1>1, <1>2, <1>3, <1>4
<1> QED
  BY <1>4, <1>5 DEF AtInv, Names

LEMMA AtGoesOn ==
  ASSUME TypingInv, AtInv, used'.ops = used.ops, UNCHANGED json,
         op' = "verify" /\ pc' \in {"repair", "look", "publish"} =>
           op = "verify" /\ pc \in {"repair", "look", "publish"}
  PROVE  AtInv'
<1>1. /\ Clock(used.ops) \in Nat /\ Cardinality(Pages) \in Nat
  BY ClockAdvances DEF TypingInv, TypeInv, CountersTyped, Counters
<1>2. \A u \in Names(json) : json[u].at \in Nat
  BY MasterEntries, EntryFields DEF TypingInv, TypeInv
<1>3. \A u \in Names(json) : json[u].at <= Clock(used.ops) + Cardinality(Pages)
  BY <1>1, <1>2 DEF AtInv
<1> QED
  BY <1>3 DEF AtInv, Names

LEMMA AtSteps == ASSUME TypingInv, TurnInv, [Next]_vars PROVE AtInv'
<1> USE DEF TypingInv, TypeInv, TurnInv
<1>1. ASSUME NEW s \in Sessions, Conclude(s) PROVE AtInv'
  <2>1. used'.ops = used.ops + 1 /\ UNCHANGED json
    BY <1>1 DEF Conclude, Begin, files, CountersTyped, Counters
  <2> QED
    BY <2>1, AtBegins
<1>2. CASE Compile
  <2>1. used'.ops = used.ops + 1 /\ UNCHANGED json
    BY <1>2 DEF Compile, Begin, files, CountersTyped, Counters
  <2> QED
    BY <2>1, AtBegins
<1>3. CASE Verify
  <2>1. used'.ops = used.ops + 1 /\ UNCHANGED json
    BY <1>3 DEF Verify, Begin, files, CountersTyped, Counters
  <2> QED
    BY <2>1, AtBegins
<1>4. ASSUME NEW u \in Pages, AddManual(u) PROVE AtInv'
  <2>1. used'.ops = used.ops + 1 /\ UNCHANGED json
    BY <1>4 DEF AddManual, Begin, files, CountersTyped, Counters
  <2> QED
    BY <2>1, AtBegins
<1>5. ASSUME NEW u \in Pages, RemoveModel(u) PROVE AtInv'
  <2>1. used'.ops = used.ops + 1 /\ UNCHANGED json
    BY <1>5 DEF RemoveModel, Begin, files, CountersTyped, Counters
  <2> QED
    BY <2>1, AtBegins
<1>6. ASSUME NEW u \in Pages, BlockModel(u) PROVE AtInv'
  <2>1. used'.ops = used.ops + 1 /\ UNCHANGED json
    BY <1>6 DEF BlockModel, Begin, files, CountersTyped, Counters
  <2> QED
    BY <2>1, AtBegins
<1>7. ASSUME NEW u \in Pages, SetCountry(u) PROVE AtInv'
  <2>1. used'.ops = used.ops + 1 /\ UNCHANGED json
    BY <1>7 DEF SetCountry, Begin, files, CountersTyped, Counters
  <2> QED
    BY <2>1, AtBegins
<1>8. CASE Repair
  <2>1. used'.ops = used.ops /\ UNCHANGED json
    BY <1>8 DEF Repair, files, CountersTyped, Counters
  <2>2. op' = "verify" /\ pc' \in {"repair", "look", "publish"} =>
          op = "verify" /\ pc \in {"repair", "look", "publish"}
    BY <1>8 DEF Repair, GoOn, Return, work
  <2> QED
    BY <2>1, <2>2, AtGoesOn
<1>9. CASE Look
  <2>1. used'.ops = used.ops /\ UNCHANGED json
    BY <1>9 DEF Look, files, CountersTyped, Counters
  <2>2. op' = "verify" /\ pc' \in {"repair", "look", "publish"} =>
          op = "verify" /\ pc \in {"repair", "look", "publish"}
    BY <1>9 DEF Look, work
  <2> QED
    BY <2>1, <2>2, AtGoesOn
<1>10. CASE EndLooking
  <2>1. used'.ops = used.ops /\ UNCHANGED json
    BY <1>10 DEF EndLooking, files, CountersTyped, Counters
  <2>2. op' = "verify" /\ pc' \in {"repair", "look", "publish"} =>
          op = "verify" /\ pc \in {"repair", "look", "publish"}
    BY <1>10 DEF EndLooking, work
  <2> QED
    BY <2>1, <2>2, AtGoesOn
<1>11. CASE WriteManual
  <2>1. used'.ops = used.ops /\ UNCHANGED json
    BY <1>11 DEF WriteManual, files, CountersTyped, Counters
  <2>2. op' = "verify" /\ pc' \in {"repair", "look", "publish"} =>
          op = "verify" /\ pc \in {"repair", "look", "publish"}
    BY <1>11 DEF WriteManual, ControlInv, work
  <2> QED
    BY <2>1, <2>2, AtGoesOn
<1>12. CASE WriteBan
  <2>1. used'.ops = used.ops /\ UNCHANGED json
    BY <1>12 DEF WriteBan, files, CountersTyped, Counters
  <2>2. op' = "verify" /\ pc' \in {"repair", "look", "publish"} =>
          op = "verify" /\ pc \in {"repair", "look", "publish"}
    BY <1>12 DEF WriteBan, GoOn, Return, work
  <2> QED
    BY <2>1, <2>2, AtGoesOn
<1>13. CASE PublishCompiled
  <2>a. /\ Clock(used.ops) \in Nat /\ Cardinality(Pages) \in Nat /\ used.ops \in Nat
        /\ Clock(used.ops + 1) = Clock(used.ops) + Cardinality(Pages)
    BY ClockAdvances DEF CountersTyped, Counters
  <2>b. \A u \in Names(json) : json[u].at \in Nat
    BY MasterEntries, EntryFields
  <2>1. used'.ops = used.ops /\ pc' = "text"
    BY <1>13 DEF PublishCompiled, Publish, CountersTyped, Counters
  <2>2. \A u \in Names(json) : json[u].at <= Clock(used.ops) + Cardinality(Pages)
    BY <2>a, <2>b DEF AtInv
  <2>3. ASSUME NEW u \in Names(json')
        PROVE  json'[u].at <= Clock(used.ops) + Cardinality(Pages)
    <3>1. json'[u].at = 0 \/ (u \in Names(json) /\ json'[u].at = json[u].at)
      BY <1>13, <2>3, CompiledWaits
    <3> QED
      BY <2>a, <2>2, <3>1
  <2> QED
    BY <2>1, <2>3 DEF AtInv
<1>14. CASE PublishEdit
  <2>a. /\ Clock(used.ops) \in Nat /\ Cardinality(Pages) \in Nat /\ used.ops \in Nat
        /\ Clock(used.ops + 1) = Clock(used.ops) + Cardinality(Pages)
    BY ClockAdvances DEF CountersTyped, Counters
  <2>b. \A u \in Names(json) : json[u].at \in Nat
    BY MasterEntries, EntryFields
  <2>1. used'.ops = used.ops /\ pc' = "text"
    BY <1>14 DEF PublishEdit, Publish, CountersTyped, Counters
  <2>2. \A u \in Names(json) : json[u].at <= Clock(used.ops) + Cardinality(Pages)
    BY <2>a, <2>b DEF AtInv
  <2>3. ASSUME NEW u \in Names(json')
        PROVE  json'[u].at <= Clock(used.ops) + Cardinality(Pages)
    BY <1>14, <2>a, <2>2, <2>3, EditKeeps, NamesShrink
  <2> QED
    BY <2>1, <2>3 DEF AtInv
<1>15. CASE PublishVerified
  <2>a. /\ Clock(used.ops) \in Nat /\ Cardinality(Pages) \in Nat /\ used.ops \in Nat
        /\ Clock(used.ops + 1) = Clock(used.ops) + Cardinality(Pages)
    BY ClockAdvances DEF CountersTyped, Counters
  <2>b. \A u \in Names(json) : json[u].at \in Nat
    BY MasterEntries, EntryFields
  <2>1. used'.ops = used.ops /\ pc' = "text"
    BY <1>15 DEF PublishVerified, Publish, CountersTyped, Counters
  <2>2. \A u \in Names(json) : json[u].at <= Clock(used.ops) + Cardinality(Pages)
    BY <2>a, <2>b DEF AtInv
  <2>3. ASSUME NEW u \in Names(json')
        PROVE  json'[u].at <= Clock(used.ops) + Cardinality(Pages)
    BY <1>15, <2>a, <2>2, <2>3, VerifiedEntries
  <2> QED
    BY <2>1, <2>3 DEF AtInv
<1>16. CASE WriteText
  <2>1. used'.ops = used.ops /\ UNCHANGED json
    BY <1>16 DEF WriteText, files, CountersTyped, Counters
  <2>2. op' = "verify" /\ pc' \in {"repair", "look", "publish"} =>
          op = "verify" /\ pc \in {"repair", "look", "publish"}
    BY <1>16 DEF WriteText, GoOn, Return, work
  <2> QED
    BY <2>1, <2>2, AtGoesOn
<1>17. CASE Bury
  <2>1. used'.ops = used.ops /\ UNCHANGED json
    BY <1>17 DEF Bury, files, CountersTyped, Counters
  <2>2. op' = "verify" /\ pc' \in {"repair", "look", "publish"} =>
          op = "verify" /\ pc \in {"repair", "look", "publish"}
    BY <1>17 DEF Bury, Return, work
  <2> QED
    BY <2>1, <2>2, AtGoesOn
<1>18. CASE Crash
  <2>1. used'.ops = used.ops /\ UNCHANGED json
    BY <1>18 DEF Crash, files, CountersTyped, Counters
  <2>2. op' = "verify" /\ pc' \in {"repair", "look", "publish"} =>
          op = "verify" /\ pc \in {"repair", "look", "publish"}
    BY <1>18 DEF Crash, Return, work
  <2> QED
    BY <2>1, <2>2, AtGoesOn
<1>19. CASE ChangePolicy
  <2>1. used'.ops = used.ops /\ UNCHANGED json
    BY <1>19 DEF ChangePolicy, files, CountersTyped, Counters
  <2>2. op' = "verify" /\ pc' \in {"repair", "look", "publish"} =>
          op = "verify" /\ pc \in {"repair", "look", "publish"}
    BY <1>19 DEF ChangePolicy, work
  <2> QED
    BY <2>1, <2>2, AtGoesOn
<1>20. CASE UNCHANGED vars
  BY <1>20 DEF vars, files, work, AtInv, Names
<1> QED
  BY <1>1, <1>2, <1>3, <1>4, <1>5, <1>6, <1>7, <1>8, <1>9, <1>10, <1>11, <1>12,
     <1>13, <1>14, <1>15, <1>16, <1>17, <1>18, <1>19, <1>20
  DEF Next

LEMMA OrderSteps == ASSUME TypingInv, TurnInv, [Next]_vars PROVE OrderInv'
<1> USE DEF TypingInv, TypeInv, TurnInv
<1>1. ASSUME NEW s \in Sessions, Conclude(s) PROVE OrderInv'
  BY <1>1 DEF Conclude, Begin, files, aux, OrderInv
<1>2. CASE Compile
  BY <1>2 DEF Compile, Begin, files, aux, OrderInv
<1>3. CASE Verify
  BY <1>3 DEF Verify, Begin, files, aux, OrderInv
<1>4. ASSUME NEW u \in Pages, AddManual(u) PROVE OrderInv'
  BY <1>4 DEF AddManual, Begin, files, aux, OrderInv
<1>5. ASSUME NEW u \in Pages, RemoveModel(u) PROVE OrderInv'
  BY <1>5 DEF RemoveModel, Begin, files, aux, OrderInv
<1>6. ASSUME NEW u \in Pages, BlockModel(u) PROVE OrderInv'
  BY <1>6 DEF BlockModel, Begin, files, aux, OrderInv
<1>7. ASSUME NEW u \in Pages, SetCountry(u) PROVE OrderInv'
  BY <1>7 DEF SetCountry, Begin, files, aux, OrderInv
<1>8. CASE Repair
  BY <1>8 DEF Repair, GoOn, Return, files, aux, OrderInv
<1>9. CASE Look
  BY <1>9 DEF Look, files, aux, OrderInv
<1>10. CASE EndLooking
  BY <1>10 DEF EndLooking, files, aux, OrderInv
<1>11. CASE WriteManual
  BY <1>11 DEF WriteManual, files, aux, OrderInv
<1>12. CASE WriteBan
  BY <1>12 DEF WriteBan, GoOn, Return, OrderInv
<1>13. CASE PublishCompiled
  <2>1. \A u \in Pages : since'[u] \subseteq since[u]
    BY <1>13 DEF PublishCompiled, Forget
  <2>2. \A u \in Names(json') : json'[u].pending =>
          /\ u \in Names(json) /\ json[u].pending /\ json'[u].at = json[u].at
    BY <1>13, CompiledWaits
  <2>3. Names(json) \subseteq Pages
    BY MasterEntries
  <2> QED
    BY <2>1, <2>2, <2>3 DEF OrderInv
<1>14. CASE PublishEdit
  <2>1. \A u \in Pages : since'[u] \subseteq since[u]
    BY <1>14 DEF PublishEdit, Forget
  <2>2. \A u \in Names(json') : json'[u].pending =>
          /\ u \in Names(json) /\ json[u].pending /\ json'[u].at = json[u].at
    BY <1>14, EditKeeps, NamesShrink
  <2>3. Names(json) \subseteq Pages
    BY MasterEntries
  <2> QED
    BY <2>1, <2>2, <2>3 DEF OrderInv
<1>15. CASE PublishVerified
  <2>1. since' = [u \in Pages |->
          IF u \in Seen \/ u \notin Candidates(json') \/ ~json'[u].pending
            THEN {} ELSE since[u] \cup Seen]
    BY <1>15 DEF PublishVerified
  <2> SUFFICES ASSUME NEW u \in Names(json'), json'[u].pending,
                      NEW v \in since'[u] \cap Names(json'), json'[v].pending
               PROVE  json'[v].at > json'[u].at
    BY DEF OrderInv
  <2>2. u \in Names(json) /\ v \in Names(json) /\ u \in Pages
    BY <1>15, VerifiedEntries, MasterEntries
  <2>3. u \notin Seen /\ v \in since[u] \cup Seen
    BY <2>1, <2>2
  <2>4. json'[u] = json[u]
    BY <1>15, <2>3, VerifiedEntries
  <2>5. CASE v \in Seen
    <3>1. json'[v].at > Clock(used.ops) /\ json[u].at <= Clock(used.ops)
      BY <1>15, <2>2, <2>5, VerifiedEntries DEF AtInv, PublishVerified
    <3>2. json[u].at \in Nat /\ Clock(used.ops) \in Nat /\ json'[v].at \in Nat
      <4>1. json[u].at \in Nat /\ Clock(used.ops) \in Nat
        BY <2>2, ClockAdvances, MasterEntries, EntryFields DEF CountersTyped, Counters
      <4>2. json'[v].at \in Nat
        BY <1>15, MasterSteps, MasterEntries, EntryFields DEF Next
      <4> QED
        BY <4>1, <4>2
    <3> QED
      BY <2>4, <3>1, <3>2
  <2>6. CASE v \notin Seen
    <3>1. json'[v] = json[v] /\ v \in since[u]
      BY <1>15, <2>3, <2>6, VerifiedEntries
    <3> QED
      BY <2>2, <2>4, <3>1 DEF OrderInv
  <2> QED
    BY <2>5, <2>6
<1>16. CASE WriteText
  BY <1>16 DEF WriteText, OrderInv
<1>17. CASE Bury
  BY <1>17 DEF Bury, aux, OrderInv
<1>18. CASE Crash
  BY <1>18 DEF Crash, Return, files, OrderInv
<1>19. CASE ChangePolicy
  BY <1>19 DEF ChangePolicy, files, aux, OrderInv
<1>20. CASE UNCHANGED vars
  BY <1>20 DEF vars, files, aux, OrderInv
<1> QED
  BY <1>1, <1>2, <1>3, <1>4, <1>5, <1>6, <1>7, <1>8, <1>9, <1>10, <1>11, <1>12,
     <1>13, <1>14, <1>15, <1>16, <1>17, <1>18, <1>19, <1>20
  DEF Next

LEMMA SinceSteps == ASSUME TypingInv, TurnInv, [Next]_vars PROVE SinceTyped'
<1> USE DEF TypingInv, TypeInv, TurnInv
<1>1. ASSUME NEW s \in Sessions, Conclude(s) PROVE SinceTyped'
  BY <1>1 DEF Conclude, Begin, aux, SinceTyped
<1>2. CASE Compile
  BY <1>2 DEF Compile, Begin, aux, SinceTyped
<1>3. CASE Verify
  BY <1>3 DEF Verify, Begin, aux, SinceTyped
<1>4. ASSUME NEW u \in Pages, AddManual(u) PROVE SinceTyped'
  BY <1>4 DEF AddManual, Begin, aux, SinceTyped
<1>5. ASSUME NEW u \in Pages, RemoveModel(u) PROVE SinceTyped'
  BY <1>5 DEF RemoveModel, Begin, aux, SinceTyped
<1>6. ASSUME NEW u \in Pages, BlockModel(u) PROVE SinceTyped'
  BY <1>6 DEF BlockModel, Begin, aux, SinceTyped
<1>7. ASSUME NEW u \in Pages, SetCountry(u) PROVE SinceTyped'
  BY <1>7 DEF SetCountry, Begin, aux, SinceTyped
<1>8. CASE Repair
  BY <1>8 DEF Repair, GoOn, Return, aux, SinceTyped
<1>9. CASE Look
  BY <1>9 DEF Look, aux, SinceTyped
<1>10. CASE EndLooking
  BY <1>10 DEF EndLooking, aux, SinceTyped
<1>11. CASE WriteManual
  BY <1>11 DEF WriteManual, aux, SinceTyped
<1>12. CASE WriteBan
  BY <1>12 DEF WriteBan, GoOn, Return, SinceTyped
<1>13. CASE PublishCompiled
  BY <1>13 DEF PublishCompiled, Forget, SinceTyped
<1>14. CASE PublishEdit
  BY <1>14 DEF PublishEdit, Forget, SinceTyped
<1>15. CASE PublishVerified
  BY <1>15, SeenPages DEF PublishVerified, SinceTyped
<1>16. CASE WriteText
  BY <1>16 DEF WriteText, SinceTyped
<1>17. CASE Bury
  BY <1>17 DEF Bury, aux, SinceTyped
<1>18. CASE Crash
  BY <1>18 DEF Crash, Return, SinceTyped
<1>19. CASE ChangePolicy
  BY <1>19 DEF ChangePolicy, aux, SinceTyped
<1>20. CASE UNCHANGED vars
  BY <1>20 DEF vars, aux, SinceTyped
<1> QED
  BY <1>1, <1>2, <1>3, <1>4, <1>5, <1>6, <1>7, <1>8, <1>9, <1>10, <1>11, <1>12,
     <1>13, <1>14, <1>15, <1>16, <1>17, <1>18, <1>19, <1>20
  DEF Next

LEMMA BatchSteps == ASSUME TypingInv, TurnInv, [Next]_vars PROVE BatchInv'
<1> USE DEF TypingInv, TypeInv, TurnInv, BatchInv
<1>1. ASSUME NEW s \in Sessions, Conclude(s) PROVE BatchInv'
  BY <1>1 DEF Conclude, Begin
<1>2. CASE Compile
  BY <1>2 DEF Compile, Begin
<1>3. CASE Verify
  BY <1>3 DEF Verify, Begin
<1>4. ASSUME NEW u \in Pages, AddManual(u) PROVE BatchInv'
  BY <1>4 DEF AddManual, Begin
<1>5. ASSUME NEW u \in Pages, RemoveModel(u) PROVE BatchInv'
  BY <1>5 DEF RemoveModel, Begin
<1>6. ASSUME NEW u \in Pages, BlockModel(u) PROVE BatchInv'
  BY <1>6 DEF BlockModel, Begin
<1>7. ASSUME NEW u \in Pages, SetCountry(u) PROVE BatchInv'
  BY <1>7 DEF SetCountry, Begin
<1>8. CASE Repair
  <2> SUFFICES ASSUME pc' = "look" PROVE \E q \in InTurn(json') : Ahead(q)'
    <3>1. pc' = "publish" => op' # "verify"
      BY <1>8 DEF Repair, GoOn, Return, work
    <3> QED
      BY <3>1
  <2>1. queue' \in Batches(json) /\ records' = <<>> /\ json' = json
    BY <1>8 DEF Repair, GoOn, Return, ControlInv
  <2>2. PICK q \in InTurn(json) :
          /\ Len(queue') <= Cardinality(Candidates(json))
          /\ \A i \in 1..Len(queue') : queue'[i] = q[i]
    BY <2>1, BatchesTyped
  <2>3. Len(queue') \in Nat /\ queue' \in Seq(Pages)
    BY <2>1, BatchesTyped
  <2>4. Ahead(q)'
    BY <2>1, <2>2, <2>3 DEF Ahead, Candidates, Names
  <2> QED
    BY <2>1, <2>4
<1>9. CASE Look
  <2>1. PICK v \in Verdicts : records' = Append(records, [page |-> Head(queue), verdict |-> v])
    BY <1>9 DEF Look
  <2>2. /\ queue # <<>> /\ queue' = Tail(queue) /\ json' = json
        /\ queue \in Seq(Pages) /\ records \in Seq(Records)
        /\ op = "verify" /\ pc = "look"
    BY <1>9 DEF Look, QueueTyped, ControlInv, files
  <2>3. PICK q \in InTurn(json) : Ahead(q)
    BY <2>2 DEF BatchInv
  <2>4. /\ Len(records') = Len(records) + 1 /\ Len(queue') = Len(queue) - 1
        /\ Len(records) \in Nat /\ Len(queue) \in Nat /\ Len(queue) > 0
    BY <2>1, <2>2
  <2>5. ASSUME NEW i \in 1..Len(records') PROVE records'[i].page = q[i]
    <3>1. CASE i = Len(records) + 1
      <4>1. records'[i].page = queue[1]
        BY <2>1, <2>2, <3>1
      <4>2. queue[1] = q[Len(records) + 1]
        BY <2>3, <2>4 DEF Ahead
      <4> QED
        BY <3>1, <4>1, <4>2
    <3>2. CASE i # Len(records) + 1
      <4>1. i \in 1..Len(records) /\ records'[i] = records[i]
        BY <2>1, <2>2, <2>4, <2>5, <3>2
      <4> QED
        BY <2>3, <4>1 DEF Ahead
    <3> QED
      BY <3>1, <3>2
  <2>6. ASSUME NEW i \in 1..Len(queue') PROVE queue'[i] = q[Len(records') + i]
    <3>1. queue'[i] = queue[i + 1] /\ i + 1 \in 1..Len(queue)
      BY <2>2, <2>4, <2>6
    <3>2. queue[i + 1] = q[Len(records) + (i + 1)]
      BY <2>3, <3>1 DEF Ahead
    <3>3. Len(records) + (i + 1) = Len(records') + i
      BY <2>4, <2>6
    <3> QED
      BY <3>1, <3>2, <3>3
  <2>7. Len(records') + Len(queue') <= Cardinality(Candidates(json))
    BY <2>3, <2>4 DEF Ahead
  <2>8. Candidates(json') = Candidates(json) /\ InTurn(json') = InTurn(json)
    BY <2>2
  <2>9. Ahead(q)'
    BY <2>5, <2>6, <2>7, <2>8 DEF Ahead
  <2> QED
    BY <2>8, <2>9
<1>10. CASE EndLooking
  <2>1. queue' = <<>> /\ UNCHANGED <<json, records, op>> /\ pc = "look" /\ op = "verify"
    BY <1>10 DEF EndLooking, files, ControlInv
  <2>2. PICK q \in InTurn(json) : Ahead(q)
    BY <2>1
  <2>3. /\ Len(records) \in Nat /\ Len(queue) \in Nat /\ Len(queue') = 0
        /\ Cardinality(Candidates(json)) \in Nat
    BY <2>1, CandidatesArePages DEF QueueTyped
  <2>4. Len(records) <= Cardinality(Candidates(json))
    BY <2>2, <2>3 DEF Ahead
  <2>5. Ahead(q)'
    BY <2>1, <2>2, <2>3, <2>4 DEF Ahead
  <2>6. InTurn(json') = InTurn(json)
    BY <2>1
  <2> QED
    BY <2>5, <2>6
<1>11. CASE WriteManual
  BY <1>11 DEF WriteManual, ControlInv, work
<1>12. CASE WriteBan
  BY <1>12 DEF WriteBan, GoOn, Return, work
<1>13. CASE PublishCompiled
  BY <1>13 DEF PublishCompiled, Publish
<1>14. CASE PublishEdit
  BY <1>14 DEF PublishEdit, Publish
<1>15. CASE PublishVerified
  BY <1>15 DEF PublishVerified, Publish
<1>16. CASE WriteText
  BY <1>16 DEF WriteText, GoOn, Return, work
<1>17. CASE Bury
  BY <1>17 DEF Bury, Return, work
<1>18. CASE Crash
  BY <1>18 DEF Crash, Return, work
<1>19. CASE ChangePolicy
  BY <1>19 DEF ChangePolicy, work
<1>20. CASE UNCHANGED vars
  BY <1>20 DEF vars, folders, files, work, Ahead, InTurn, Candidates, Before, Names
<1> QED
  BY <1>1, <1>2, <1>3, <1>4, <1>5, <1>6, <1>7, <1>8, <1>9, <1>10, <1>11, <1>12,
     <1>13, <1>14, <1>15, <1>16, <1>17, <1>18, <1>19, <1>20
  DEF Next

\* A run that has published did not pass over a page that waits, to look twice
\* at another while it did.
LEMMA WaitingPagesComeFirst ==
  ASSUME TypingInv, TurnInv, op = "verify", pc = "publish",
         NEW u \in Candidates(json) \ Seen, json[u].pending
  PROVE  Seen \cap since[u] = {}
<1> SUFFICES ASSUME NEW v \in Seen \cap since[u] PROVE FALSE
  OBVIOUS
<1> DEFINE n == Cardinality(Candidates(json))
<1>1. PICK q \in InTurn(json) : Ahead(q)
  BY DEF TurnInv, BatchInv
<1>2. /\ \A i \in 1..Len(records) : records[i].page = q[i]
      /\ Len(records) + Len(queue) <= n
  BY <1>1 DEF Ahead
<1>3. LookAt(v) \in 1..Len(records) /\ records[LookAt(v)].page = v
  BY LookTyped DEF TypingInv
<1>4. q[LookAt(v)] = v
  BY <1>2, <1>3
<1>5. PICK j \in 1..n : q[j] = u
  BY InTurnProperties DEF TypingInv
<1>6. Len(records) \in Nat /\ Len(queue) \in Nat /\ n \in Nat
  BY CandidatesArePages DEF TypingInv, TypeInv, QueueTyped
<1>7. j \notin 1..Len(records)
  <2>1. j \in 1..Len(records) => u \in Seen
    <3>1. DOMAIN records = 1..Len(records)
      BY DEF TypingInv, TypeInv, QueueTyped
    <3> QED
      BY <1>2, <1>5, <3>1 DEF Seen
  <2> QED
    BY <2>1
<1>8. LookAt(v) \in 1..n /\ LookAt(v) < j
  <2> HIDE DEF n
  <2> QED
    BY <1>2, <1>3, <1>5, <1>6, <1>7
<1>9. ~Before(json, u, v)
  BY <1>4, <1>5, <1>8, InTurnProperties DEF TypingInv
<1>10. v \in Names(json) /\ u \in Names(json)
  BY DEF TypingInv, LookInv, Candidates
<1>11. json[v].pending
  BY <1>9 DEF Before
<1>12. json[v].at > json[u].at
  BY <1>10, <1>11 DEF TurnInv, OrderInv
<1>13. json[u].at \in Nat /\ json[v].at \in Nat
  BY <1>10, MasterEntries, EntryFields DEF TypingInv, TypeInv
<1>14. json[u].pending = json[v].pending
  <2>1. json[u].pending \in BOOLEAN /\ json[v].pending \in BOOLEAN
    BY <1>10, MasterEntries, EntryFields DEF TypingInv, TypeInv
  <2> QED
    BY <1>11, <2>1
<1> QED
  BY <1>9, <1>12, <1>13, <1>14 DEF Before

\* A page that waits for another look gets it before any other page gets a
\* second one (the order verify_master_list sorts its candidates in).
THEOREM Turns == Spec => PendingInTurn
<1>1. Init => TurnInv
  <2> SUFFICES ASSUME Init PROVE TurnInv
    OBVIOUS
  <2>1. Names(json) = {} /\ op = "compile"
    BY DEF Init, Names
  <2>2. SinceTyped
    BY DEF Init, SinceTyped
  <2> QED
    BY <2>1, <2>2 DEF TurnInv, AtInv, BatchInv, OrderInv
<1>2. TypingInv /\ TurnInv /\ [Next]_vars => TurnInv'
  BY AtSteps, BatchSteps, OrderSteps, SinceSteps DEF TurnInv
<1>3. TypingInv /\ TurnInv /\ [Next]_vars =>
        [(pc = "publish" /\ op = "verify" /\ pc' = "text") =>
           \A u \in Candidates(json) \ Seen :
             json[u].pending => Seen \cap since[u] = {}]_vars
  BY WaitingPagesComeFirst
<1> QED
  BY <1>1, <1>2, <1>3, InitTyping, TypingSteps, PTL DEF Spec, PendingInTurn

-----------------------------------------------------------------------------
(* The session an entry dates from.                                        *)

LEMMA NatMin ==
  ASSUME NEW T \in SUBSET Nat, T # {}
  PROVE  \E x \in T : \A y \in T : x <= y
<1>1. PICK x \in T : \A y \in T : ~(<<y, x>> \in OpToRel(<, Nat))
  BY NatLessThanWellFounded, WFMin
<1>2. \A y \in T : <<y, x>> \in OpToRel(<, Nat) <=> y < x
  BY DEF OpToRel
<1>3. \A y \in T : ~(y < x)
  BY <1>1, <1>2, Zenon
<1> QED
  BY <1>3

\* Induction over a set of naturals.
LEMMA SetInduction ==
  ASSUME NEW I, 0 \in I, \A n \in Nat : n \in I => n + 1 \in I
  PROVE  Nat \subseteq I
<1> SUFFICES ASSUME Nat \ I # {} PROVE FALSE
  OBVIOUS
<1>1. PICK x \in Nat \ I : \A y \in Nat \ I : x <= y
  BY NatMin
<1>2. x - 1 \in Nat /\ (x - 1) + 1 = x /\ ~(x <= x - 1)
  BY <1>1
<1>3. x - 1 \in I
  BY <1>1, <1>2
<1> QED
  BY <1>1, <1>2, <1>3

LEMMA MaxOfInterval ==
  ASSUME NEW n \in Nat, NEW P \in SUBSET (1..n), P # {}
  PROVE  Max(P) \in P /\ \A y \in P : y <= Max(P)
<1> DEFINE U == {x \in Nat : \A y \in P : y <= x}
<1>1. n \in U
  OBVIOUS
<1>2. PICK x \in U : \A y \in U : x <= y
  <2>1. U \in SUBSET Nat /\ U # {}
    BY <1>1
  <2> HIDE DEF U
  <2> QED
    BY <2>1, NatMin
<1>3. x \in P
  <2> SUFFICES ASSUME x \notin P PROVE FALSE
    OBVIOUS
  <2>1. \A y \in P : y <= x - 1 /\ x - 1 \in Nat
    BY <1>2
  <2>5. PICK y \in P : TRUE
    OBVIOUS
  <2>2. x \in Nat /\ x - 1 \in Nat
    BY <1>2, <2>1, <2>5
  <2>3. x - 1 \in U
    BY <2>1, <2>2
  <2>4. x <= x - 1
    BY <1>2, <2>3
  <2> QED
    BY <2>2, <2>4
<1>4. \E m \in P : \A y \in P : m >= y
  BY <1>2, <1>3
<1>5. Max(P) \in P /\ \A y \in P : Max(P) >= y
  BY <1>4, Zenon DEF Max
<1> QED
  BY <1>5

\* One turn of the loop over the session folders, and the loop as a function
\* of the folders it has been through.
Turn(having, first, s) ==
  IF s \in having /\ (first = "operator" \/ Earlier(s, first)) THEN s ELSE first
IsScan(having, k, f) ==
  f = [P \in SUBSET (1..k) |->
         IF P = {} THEN "operator"
         ELSE Turn(having, f[P \ {Max(P)}], Listing[Max(P)])]
Scan(having) == CHOOSE f : IsScan(having, Len(Listing), f)

LEMMA DiscoveryScans ==
  ASSUME NEW having
  PROVE  Discovery(having) = Scan(having)[1..Len(Listing)]
<1>1. DOMAIN Listing = 1..Len(Listing)
  OBVIOUS
<1> DEFINE F(D) == CHOOSE f : f = [P \in SUBSET D |->
                     IF P = {} THEN "operator"
                     ELSE Turn(having, f[P \ {Max(P)}], Listing[Max(P)])]
<1>2. Discovery(having) = F(DOMAIN Listing)[DOMAIN Listing]
  BY Zenon DEF Discovery, FoldLeft, MapThenFoldSet, Turn
<1>3. Scan(having) = F(1..Len(Listing))
  BY Zenon DEF Scan, IsScan
<1> HIDE DEF F
<1> QED
  BY <1>1, <1>2, <1>3

LEMMA ScanGrows ==
  ASSUME NEW having, NEW k \in Nat, NEW f, IsScan(having, k, f)
  PROVE  \E g : IsScan(having, k + 1, g)
<1> DEFINE g == [P \in SUBSET (1..(k + 1)) |->
                   IF P = {} THEN "operator"
                   ELSE Turn(having, f[P \ {Max(P)}], Listing[Max(P)])]
<1>1. ASSUME NEW P \in SUBSET (1..(k + 1)), P # {}
      PROVE  P \ {Max(P)} \in SUBSET (1..k)
  <2>1. Max(P) \in 1..(k + 1) /\ \A y \in P : y <= Max(P)
    <3>1. k + 1 \in Nat
      OBVIOUS
    <3> QED
      BY <1>1, <3>1, MaxOfInterval
  <2>2. \A y \in P \ {Max(P)} : y \in 1..k
    BY <2>1
  <2> QED
    BY <2>2
<1>2. ASSUME NEW P \in SUBSET (1..k) PROVE g[P] = f[P]
  <2>1. P \in SUBSET (1..(k + 1))
    OBVIOUS
  <2>2. g[P] = IF P = {} THEN "operator"
               ELSE Turn(having, f[P \ {Max(P)}], Listing[Max(P)])
    BY <2>1
  <2>3. f[P] = IF P = {} THEN "operator"
               ELSE Turn(having, f[P \ {Max(P)}], Listing[Max(P)])
    BY Zenon DEF IsScan
  <2> QED
    BY <2>2, <2>3
<1>3. \A P \in SUBSET (1..(k + 1)) : P # {} => g[P \ {Max(P)}] = f[P \ {Max(P)}]
  BY <1>1, <1>2
<1>4. g = [P \in SUBSET (1..(k + 1)) |->
             IF P = {} THEN "operator"
             ELSE Turn(having, g[P \ {Max(P)}], Listing[Max(P)])]
  <2> DEFINE a(P) == IF P = {} THEN "operator"
                     ELSE Turn(having, f[P \ {Max(P)}], Listing[Max(P)])
             b(P) == IF P = {} THEN "operator"
                     ELSE Turn(having, g[P \ {Max(P)}], Listing[Max(P)])
  <2>1. \A P \in SUBSET (1..(k + 1)) : a(P) = b(P)
    <3> HIDE DEF g
    <3> QED
      BY <1>3
  <2>2. g = [P \in SUBSET (1..(k + 1)) |-> a(P)]
    OBVIOUS
  <2> HIDE DEF g, a, b
  <2>3. g = [P \in SUBSET (1..(k + 1)) |-> b(P)]
    BY <2>1, <2>2
  <2> QED
    BY <2>3 DEF b
<1> HIDE DEF g
<1> QED
  BY <1>4 DEF IsScan

LEMMA ScanIsThere ==
  ASSUME NEW having
  PROVE  IsScan(having, Len(Listing), Scan(having))
<1> DEFINE I == {k \in Nat : \E f : IsScan(having, k, f)}
<1>1. 0 \in I
  <2> DEFINE f == [P \in SUBSET (1..0) |-> "operator"]
  <2>1. \A P \in SUBSET (1..0) : P = {}
    OBVIOUS
  <2>2. f = [P \in SUBSET (1..0) |->
               IF P = {} THEN "operator"
               ELSE Turn(having, f[P \ {Max(P)}], Listing[Max(P)])]
    BY <2>1
  <2>3. IsScan(having, 0, f)
    BY <2>2 DEF IsScan
  <2> QED
    BY <2>3
<1>2. \A k \in Nat : k \in I => k + 1 \in I
  BY ScanGrows
<1> HIDE DEF I
<1>3. Len(Listing) \in I
  <2>1. Len(Listing) \in Nat
    OBVIOUS
  <2>2. Nat \subseteq I
    BY <1>1, <1>2, SetInduction
  <2> QED
    BY <2>1, <2>2
<1> QED
  BY <1>3, Zenon DEF I, Scan

\* After the first k folders.
After(having, k) == Scan(having)[1..k]

LEMMA ScanStarts == ASSUME NEW having PROVE After(having, 0) = "operator"
<1>1. {} \in SUBSET (1..Len(Listing)) /\ 1..0 = {}
  OBVIOUS
<1>2. Scan(having)[{}] = "operator"
  BY <1>1, ScanIsThere, Zenon DEF IsScan
<1> QED
  BY <1>1, <1>2 DEF After

LEMMA ScanTurns ==
  ASSUME NEW having, NEW k \in Nat, k < Len(Listing)
  PROVE  After(having, k + 1) = Turn(having, After(having, k), Listing[k + 1])
<1> DEFINE P == 1..(k + 1)
<1>1. P \in SUBSET (1..Len(Listing)) /\ P # {}
  <2>1. Len(Listing) \in Nat
    OBVIOUS
  <2>2. k + 1 \in P /\ \A i \in P : i \in 1..Len(Listing)
    BY <2>1
  <2> QED
    BY <2>2
<1>2. Max(P) = k + 1
  <2>1. Max(P) \in P /\ \A y \in P : y <= Max(P)
    <3>1. P \in SUBSET P /\ k + 1 \in Nat
      OBVIOUS
    <3> QED
      BY <1>1, <3>1, MaxOfInterval
  <2>2. k + 1 \in P
    OBVIOUS
  <2> QED
    BY <2>1, <2>2
<1>3. P \ {k + 1} = 1..k
  OBVIOUS
<1> HIDE DEF P
<1>4. Scan(having)[P] = Turn(having, Scan(having)[P \ {Max(P)}], Listing[Max(P)])
  <2>1. Scan(having)[P] = IF P = {} THEN "operator"
                          ELSE Turn(having, Scan(having)[P \ {Max(P)}], Listing[Max(P)])
    <3>1. PICK f : f = Scan(having) /\ IsScan(having, Len(Listing), f)
      BY ScanIsThere
    <3>2. f[P] = IF P = {} THEN "operator"
                 ELSE Turn(having, f[P \ {Max(P)}], Listing[Max(P)])
      BY <1>1, <3>1, Zenon DEF IsScan
    <3> QED
      BY <3>1, <3>2
  <2> QED
    BY <1>1, <2>1
<1> QED
  BY <1>2, <1>3, <1>4 DEF After, P

\* Of the folders the loop has been through that have the page, none is
\* earlier than the one it has kept.
NoneEarlier(having, k) ==
  LET met == {Listing[i] : i \in 1..k} \cap having
      first == After(having, k)
  IN /\ met = {} => first = "operator"
     /\ met # {} => first \in met
     /\ \A s \in met : Day[s] > 0 =>
          /\ Day[first] > 0
          /\ Day[first] < Day[s] \/ (Day[first] = Day[s] /\ Number[first] <= Number[s])

LEMMA ScanKeepsEarliest ==
  ASSUME NEW having, NEW k \in Nat, k < Len(Listing), NoneEarlier(having, k)
  PROVE  NoneEarlier(having, k + 1)
<1> DEFINE met == {Listing[i] : i \in 1..k} \cap having
           wider == {Listing[i] : i \in 1..(k + 1)} \cap having
           first == After(having, k)
           s == Listing[k + 1]
           then == After(having, k + 1)
<1>1. /\ then = IF s \in having /\ (first = "operator" \/ Earlier(s, first)) THEN s ELSE first
  BY ScanTurns DEF Turn
<1>2. wider = met \cup ({s} \cap having)
  <2>1. 1..(k + 1) = (1..k) \cup {k + 1}
    OBVIOUS
  <2> QED
    BY <2>1
<1>3. /\ met = {} => first = "operator"
      /\ met # {} => first \in met
      /\ \A t \in met : Day[t] > 0 =>
           /\ Day[first] > 0
           /\ Day[first] < Day[t] \/ (Day[first] = Day[t] /\ Number[first] <= Number[t])
  BY DEF NoneEarlier
<1>4. s \in Sessions /\ met \subseteq Sessions
  <2>1. Listing \in Seq(Sessions) /\ Len(Listing) \in Nat
    OBVIOUS
  <2>2. \A i \in 1..(k + 1) : Listing[i] \in Sessions
    BY <2>1
  <2> QED
    BY <2>2
<1>5. \A t \in Sessions : Day[t] \in Nat /\ Number[t] \in Nat /\ t # "operator"
  BY SessionAssumption
<1>0. (/\ wider = {} => then = "operator"
       /\ wider # {} => then \in wider
       /\ \A t \in wider : Day[t] > 0 =>
            /\ Day[then] > 0
            /\ Day[then] < Day[t] \/ (Day[then] = Day[t] /\ Number[then] <= Number[t]))
      => NoneEarlier(having, k + 1)
  BY Zenon DEF NoneEarlier
<1> HIDE DEF met, wider, first, s, then
<1>6. CASE s \notin having
  <2>1. wider = met /\ then = first
    BY <1>1, <1>2, <1>6
  <2> QED
    BY <1>0, <1>3, <2>1
<1>7. CASE s \in having /\ met = {}
  <2>1. then = s /\ wider = {s}
    BY <1>1, <1>2, <1>3, <1>7
  <2> QED
    BY <1>0, <1>4, <1>5, <2>1
<1>8. CASE s \in having /\ met # {} /\ Earlier(s, first)
  <2>1. then = s /\ wider = met \cup {s} /\ first \in met
    BY <1>1, <1>2, <1>3, <1>8
  <2>2. /\ Day[s] > 0 /\ Day[s] \in Nat /\ Number[s] \in Nat
        /\ Day[first] \in Nat /\ Number[first] \in Nat
        /\ \/ Day[first] = 0 \/ Day[s] < Day[first]
           \/ Day[s] = Day[first] /\ Number[s] < Number[first]
    BY <1>4, <1>5, <1>8, <2>1 DEF Earlier
  <2>3. ASSUME NEW t \in met, Day[t] > 0
        PROVE  Day[s] < Day[t] \/ (Day[s] = Day[t] /\ Number[s] <= Number[t])
    <3>1. /\ Day[first] > 0 /\ Day[t] \in Nat /\ Number[t] \in Nat
          /\ Day[first] < Day[t] \/ (Day[first] = Day[t] /\ Number[first] <= Number[t])
      BY <1>3, <1>4, <1>5, <2>3
    <3> QED
      BY <2>2, <3>1
  <2> QED
    BY <1>0, <2>1, <2>2, <2>3
<1>9. CASE s \in having /\ met # {} /\ ~Earlier(s, first)
  <2>1. first \in met /\ first # "operator"
    BY <1>3, <1>4, <1>5, <1>9
  <2>2. then = first /\ wider = met \cup {s}
    BY <1>1, <1>2, <1>9, <2>1
  <2>3. /\ Day[s] \in Nat /\ Number[s] \in Nat /\ Day[first] \in Nat /\ Number[first] \in Nat
        /\ ~(Day[s] # 0 /\ (\/ Day[first] = 0 \/ Day[s] < Day[first]
                            \/ Day[s] = Day[first] /\ Number[s] < Number[first]))
    BY <1>4, <1>5, <1>9, <2>1 DEF Earlier
  <2>4. Day[s] > 0 =>
          /\ Day[first] > 0
          /\ Day[first] < Day[s] \/ (Day[first] = Day[s] /\ Number[first] <= Number[s])
    BY <2>3
  <2> QED
    BY <1>0, <1>3, <2>1, <2>2, <2>4
<1> QED
  BY <1>6, <1>7, <1>8, <1>9

\* The loop over the session folders keeps the earliest dated one that has the
\* page, wherever in the folder's order it comes.
LEMMA DiscoveryIsEarliest ==
  ASSUME NEW having \in SUBSET Sessions, NEW d \in having, Day[d] > 0
  PROVE  /\ Discovery(having) \in having /\ Day[Discovery(having)] > 0
         /\ \A s \in having : Day[s] > 0 =>
              \/ Day[Discovery(having)] < Day[s]
              \/ /\ Day[Discovery(having)] = Day[s]
                 /\ Number[Discovery(having)] <= Number[s]
<1> DEFINE n == Len(Listing)
           I == {k \in Nat : k <= n => NoneEarlier(having, k)}
<1>1. 0 \in I
  <2>1. {Listing[i] : i \in 1..0} = {}
    OBVIOUS
  <2>2. NoneEarlier(having, 0)
    BY <2>1, ScanStarts DEF NoneEarlier
  <2> QED
    BY <2>2
<1>2. ASSUME NEW k \in Nat, k \in I PROVE k + 1 \in I
  <2>1. n \in Nat
    OBVIOUS
  <2> SUFFICES ASSUME k + 1 <= n PROVE NoneEarlier(having, k + 1)
    BY <1>2
  <2>2. NoneEarlier(having, k) /\ k < n
    BY <1>2, <2>1
  <2> QED
    BY <2>2, ScanKeepsEarliest
<1>3. n \in Nat /\ n <= n
  OBVIOUS
<1>4. n \in I
  <2> HIDE DEF I
  <2> QED
    BY <1>1, <1>2, <1>3, SetInduction
<1>5. NoneEarlier(having, n)
  BY <1>3, <1>4
<1>6. Discovery(having) = After(having, n)
  BY DiscoveryScans DEF After
<1>7. {Listing[i] : i \in 1..n} \cap having = having
  <2>1. {Listing[i] : i \in 1..n} = Sessions
    BY DEF Sessions, ToSet
  <2> QED
    BY <2>1
<1> HIDE DEF n, I
<1> QED
  BY <1>5, <1>6, <1>7 DEF NoneEarlier


-----------------------------------------------------------------------------
(* What a step of the master keeps of an entry.                            *)

\* The sessions that found a page blocked.
BlockedIn(u) == {s \in Sessions : final[s] # NoMaster /\ u \in final[s]}

\* A compilation takes from the old entry when it came in and its country, and
\* dates a page some session blocked by those sessions.
LEMMA CompiledRemembers ==
  ASSUME TypeInv, NEW mine, NEW black, NEW u \in Names(Compiled(Sessions, mine, black, json))
  PROVE  /\ u \in Names(json) => Compiled(Sessions, mine, black, json)[u].stamp = json[u].stamp
         /\ u \in Names(json) /\ json[u].country =>
              Compiled(Sessions, mine, black, json)[u].country
         /\ BlockedIn(u) # {} =>
              Compiled(Sessions, mine, black, json)[u].found = Discovery(BlockedIn(u))
<1> DEFINE blocked == [w \in Pages |-> {s \in Sessions : final[s] # NoMaster /\ w \in final[s]}]
           matched == [w \in Pages |-> {s \in Sessions : w \in MatchesOf(s)}]
           confirmed == [w \in Pages |-> {s \in Sessions : w \in VpnMatchesOf(s)}]
           has == [w \in Pages |-> blocked[w] \cup matched[w] \cup confirmed[w]]
           found(w) == CASE blocked[w] # {} -> Discovery(blocked[w])
                         [] blocked[w] = {} /\ matched[w] # {} -> FirstListed(matched[w])
                         [] blocked[w] \cup matched[w] = {} /\ confirmed[w] # {} ->
                              FirstListed(confirmed[w])
                         [] has[w] = {} /\ w \in Names(json) -> json[w].found
                         [] OTHER -> "operator"
           stamp(w) == IF w \in Names(json) THEN json[w].stamp ELSE used.ops
           country(w) == Preserved(json, w).country \/ matched[w] # {} \/ confirmed[w] # {}
           entry(w) == [found |-> found(w), manual |-> w \in mine,
                        matched |-> matched[w] # {}, vpnMatched |-> confirmed[w] # {},
                        stamp |-> stamp(w), country |-> country(w),
                        free |-> Preserved(json, w).free, pending |-> Preserved(json, w).pending,
                        at |-> Preserved(json, w).at]
           list == Listed(black, mine, has)
<1>1. Compiled(Sessions, mine, black, json) = [w \in list |-> entry(w)]
  BY DEF Compiled
<1>2. u \in Pages
  <2>1. Sessions \in SUBSET Sessions /\ IsMaster(json)
    BY DEF TypeInv
  <2> QED
    BY <2>1, CompiledKeeps
<1>3. Compiled(Sessions, mine, black, json) # NoMaster
  BY DEF Names
<1>4. u \in list
  <2>1. u \in DOMAIN Compiled(Sessions, mine, black, json)
    BY <1>3 DEF Names
  <2> HIDE DEF list, entry
  <2> QED
    BY <1>1, <2>1
<1>5. Compiled(Sessions, mine, black, json)[u] = entry(u)
  <2> HIDE DEF list, entry
  <2> QED
    BY <1>1, <1>4
<1>6. entry(u).stamp = stamp(u) /\ entry(u).country = country(u) /\ entry(u).found = found(u)
  <2>1. entry(u).stamp = stamp(u) /\ entry(u).found = found(u)
    <3> HIDE DEF stamp, country, found, blocked, matched, confirmed, has
    <3> QED
      OBVIOUS
  <2>2. entry(u).country = country(u)
    <3> HIDE DEF stamp, country, found, blocked, matched, confirmed, has
    <3> QED
      BY Zenon
  <2> QED
    BY <2>1, <2>2
<1>7. u \in Names(json) => stamp(u) = json[u].stamp
  OBVIOUS
<1>8. u \in Names(json) /\ json[u].country => country(u)
  BY DEF Preserved
<1>9. blocked[u] = BlockedIn(u)
  BY <1>2 DEF BlockedIn
<1>10. blocked[u] # {} => found(u) = Discovery(blocked[u])
  <2>1. has[u] = blocked[u] \cup matched[u] \cup confirmed[u]
    BY <1>2
  <2> HIDE DEF blocked, matched, confirmed, has
  <2> QED
    BY <2>1
<1> HIDE DEF stamp, country, found, entry, blocked
<1> QED
  BY <1>5, <1>6, <1>7, <1>8, <1>9, <1>10

\* A verdict changes nothing about where an entry comes from.
LEMMA JudgedRemembers ==
  ASSUME NEW e \in Entry, NEW v, NEW n
  PROVE  LET j == Judged(e, v, n)
         IN j.stamp = e.stamp /\ j.country = e.country /\ j.found = e.found
  BY DEF Judged, Entry

LEMMA CountryRemembers ==
  ASSUME NEW j, IsMaster(j), NEW u \in Names(j), NEW w \in Names(j)
  PROVE  LET e == [j EXCEPT ![u].country = TRUE][w]
         IN e.stamp = j[w].stamp /\ (j[w].country => e.country)
<1>1. PICK list \in SUBSET Pages : j \in [list -> Entry]
  BY DEF IsMaster, Names
<1>2. Names(j) = list
  BY <1>1, MastersAreThere
<1>3. j[u] \in Entry
  BY <1>1, <1>2
<1>4. /\ [j[u] EXCEPT !.country = TRUE].stamp = j[u].stamp
      /\ [j[u] EXCEPT !.country = TRUE].country = TRUE
  BY <1>3, FieldIsSet
<1>5. CASE w = u
  <2>1. [j EXCEPT ![u].country = TRUE][w] = [j[u] EXCEPT !.country = TRUE]
    BY <1>1, <1>2, <1>5
  <2> QED
    BY <1>4, <1>5, <2>1
<1>6. CASE w # u
  <2>1. [j EXCEPT ![u].country = TRUE][w] = j[w]
    BY <1>1, <1>2, <1>6
  <2> QED
    BY <2>1
<1> QED
  BY <1>5, <1>6

\* What an entry that stays keeps, and which session it then dates from.
Kept ==
  \A u \in Names(json) \cap Names(json') :
    /\ json'[u].stamp = json[u].stamp
    /\ json[u].country => json'[u].country
    /\ op # "verify" => /\ json'[u].free = json[u].free
                        /\ json'[u].pending = json[u].pending
                        /\ json'[u].at = json[u].at
Dated ==
  (pc = "publish" /\ pc' = "text" /\ op \in {"compile", "conclude", "add"}) =>
     \A u \in Names(json') : DatedByEarliest(u)

LEMMA CompilingKeeps ==
  ASSUME TypingInv, PublishCompiled, blind' = blind
  PROVE  Kept /\ Dated
<1>1. json' = Compiled(Sessions, manual, banned, json)
  <2>1. blind # blind + 1
    BY DEF TypingInv, TypeInv, CountersTyped
  <2> QED
    BY <2>1 DEF PublishCompiled, Publish
<1>2. Sessions \in SUBSET Sessions /\ IsMaster(json) /\ TypeInv
  BY DEF TypingInv, TypeInv
<1>3. ASSUME NEW u \in Names(json')
      PROVE  /\ u \in Names(json) => /\ json'[u].stamp = json[u].stamp
                                     /\ json[u].country => json'[u].country
                                     /\ json'[u].free = json[u].free
                                     /\ json'[u].pending = json[u].pending
                                     /\ json'[u].at = json[u].at
             /\ DatedByEarliest(u)
  <2> DEFINE having == BlockedIn(u)
             dated == {s \in Sessions : final[s] # NoMaster /\ u \in final[s] /\ Day[s] > 0}
  <2>1. u \in Names(Compiled(Sessions, manual, banned, json))
    BY <1>1, <1>3
  <2>2. /\ u \in Names(json) => /\ json'[u].stamp = json[u].stamp
                                /\ json[u].country => json'[u].country
        /\ having # {} => json'[u].found = Discovery(having)
    <3>1. u \in Names(json) => json'[u].stamp = json[u].stamp
      BY <1>1, <1>2, <2>1, CompiledRemembers
    <3>2. u \in Names(json) /\ json[u].country => json'[u].country
      BY <1>1, <1>2, <2>1, CompiledRemembers
    <3>3. having # {} => json'[u].found = Discovery(having)
      BY <1>1, <1>2, <2>1, CompiledRemembers
    <3> QED
      BY <3>1, <3>2, <3>3
  <2>3. /\ json'[u].free = Preserved(json, u).free
        /\ json'[u].pending = Preserved(json, u).pending
        /\ json'[u].at = Preserved(json, u).at
    BY <1>1, <1>2, <2>1, CompiledKeeps
  <2>4. u \in Names(json) => /\ json'[u].free = json[u].free
                             /\ json'[u].pending = json[u].pending
                             /\ json'[u].at = json[u].at
    BY <2>3 DEF Preserved
  <2>5. ASSUME dated # {}
        PROVE  /\ json'[u].found \in dated
               /\ \A s \in dated :
                    \/ Day[json'[u].found] < Day[s]
                    \/ Day[json'[u].found] = Day[s] /\ Number[json'[u].found] <= Number[s]
    <3>1. PICK d \in dated : TRUE
      BY <2>5
    <3>2. having \in SUBSET Sessions /\ d \in having /\ Day[d] > 0
      BY <3>1 DEF BlockedIn
    <3>3. json'[u].found = Discovery(having)
      BY <2>2, <3>2
    <3>4. \A s \in Sessions : s \in dated <=> s \in having /\ Day[s] > 0
      BY DEF BlockedIn
    <3>5. /\ Discovery(having) \in having /\ Day[Discovery(having)] > 0
          /\ \A s \in having : Day[s] > 0 =>
               \/ Day[Discovery(having)] < Day[s]
               \/ /\ Day[Discovery(having)] = Day[s]
                  /\ Number[Discovery(having)] <= Number[s]
      <4> HIDE DEF having
      <4> QED
        BY <3>2, DiscoveryIsEarliest
    <3>6. dated \subseteq Sessions
      OBVIOUS
    <3> HIDE DEF having, dated
    <3> QED
      BY <3>2, <3>3, <3>4, <3>5, <3>6
  <2>6. DatedByEarliest(u)
    BY <2>5 DEF DatedByEarliest
  <2> QED
    BY <2>2, <2>4, <2>6
<1> QED
  BY <1>3 DEF Kept, Dated

LEMMA EditingKeeps ==
  ASSUME TypingInv, PublishEdit
  PROVE  Kept /\ Dated
<1>1. op \in {"remove", "block", "country"} /\ target \in Names(json) /\ IsMaster(json)
  BY DEF PublishEdit, TypingInv, TypeInv, ControlInv
<1>2. ASSUME NEW u \in Names(json')
      PROVE  json'[u].stamp = json[u].stamp /\ (json[u].country => json'[u].country)
  <2>1. u \in Names(json)
    BY NamesShrink
  <2>2. CASE op = "country"
    <3>1. json' = [json EXCEPT ![target].country = TRUE]
      BY <2>2 DEF PublishEdit, Publish
    <3> QED
      BY <1>1, <2>1, <3>1, CountryRemembers
  <2>3. CASE op # "country"
    <3>1. json' = Without(json, {target})
      BY <2>3 DEF PublishEdit, Publish
    <3>2. json # NoMaster
      BY <1>1 DEF Names
    <3>3. u \in Names(json) \ {target}
      BY <1>1, <1>2, <3>1, <3>2, WithoutMaster
    <3>4. json'[u] = json[u]
      BY <1>1, <3>1, <3>2, <3>3, WithoutMaster
    <3> QED
      BY <3>4
  <2> QED
    BY <2>2, <2>3
<1>3. Kept
  BY <1>2, EditKeeps DEF Kept
<1>4. Dated
  BY <1>1 DEF Dated
<1> QED
  BY <1>3, <1>4

LEMMA VerifyingKeeps ==
  ASSUME TypingInv, PublishVerified
  PROVE  Kept /\ Dated
<1>1. op = "verify"
  BY DEF PublishVerified
<1>2. ASSUME NEW u \in Names(json')
      PROVE  json'[u].stamp = json[u].stamp /\ json'[u].country = json[u].country
  <2>1. u \in Names(json) /\ json'[u] = AllJudged[u]
    BY <1>2, AllJudgedNames, WithoutMaster DEF PublishVerified, Publish, TypingInv
  <2>2. json[u] \in Entry
    BY <2>1, MasterEntries DEF TypingInv, TypeInv
  <2>3. CASE u \in Seen
    <3> DEFINE n == used.ops * Cardinality(Pages) + LookAt(u)
    <3>1. AllJudged[u] = Judged(json[u], records[LookAt(u)].verdict, n)
      BY <2>1, <2>3, AllJudgedIsMaster DEF TypingInv
    <3> HIDE DEF n
    <3> QED
      BY <2>1, <2>2, <3>1, JudgedRemembers
  <2>4. CASE u \notin Seen
    BY <2>1, <2>4, AllJudgedIsMaster DEF TypingInv
  <2> QED
    BY <2>3, <2>4
<1> QED
  BY <1>1, <1>2 DEF Kept, Dated

\* Only publishing replaces the JSON.
LEMMA NothingKept ==
  ASSUME UNCHANGED json, pc # "publish" \/ pc' # "text"
  PROVE  Kept /\ Dated
  BY DEF Kept, Dated

LEMMA KnowledgeSteps ==
  ASSUME TypingInv, [Next]_vars, blind' = blind
  PROVE  Kept /\ Dated
<1>1. ASSUME NEW s \in Sessions, Conclude(s) PROVE Kept /\ Dated
  BY <1>1, NothingKept DEF Conclude, Begin, files
<1>2. CASE Compile
  BY <1>2, NothingKept DEF Compile, Begin, files
<1>3. CASE Verify
  BY <1>3, NothingKept DEF Verify, Begin, files
<1>4. ASSUME NEW u \in Pages, AddManual(u) PROVE Kept /\ Dated
  BY <1>4, NothingKept DEF AddManual, Begin, files
<1>5. ASSUME NEW u \in Pages, RemoveModel(u) PROVE Kept /\ Dated
  BY <1>5, NothingKept DEF RemoveModel, Begin, files
<1>6. ASSUME NEW u \in Pages, BlockModel(u) PROVE Kept /\ Dated
  BY <1>6, NothingKept DEF BlockModel, Begin, files
<1>7. ASSUME NEW u \in Pages, SetCountry(u) PROVE Kept /\ Dated
  BY <1>7, NothingKept DEF SetCountry, Begin, files
<1>8. CASE Repair
  BY <1>8, NothingKept DEF Repair, files
<1>9. CASE Look
  BY <1>9, NothingKept DEF Look, files
<1>10. CASE EndLooking
  BY <1>10, NothingKept DEF EndLooking, files
<1>11. CASE WriteManual
  BY <1>11, NothingKept DEF WriteManual, files
<1>12. CASE WriteBan
  BY <1>12, NothingKept DEF WriteBan, files
<1>13. CASE PublishCompiled
  BY <1>13, CompilingKeeps
<1>14. CASE PublishEdit
  BY <1>14, EditingKeeps
<1>15. CASE PublishVerified
  BY <1>15, VerifyingKeeps
<1>16. CASE WriteText
  BY <1>16, NothingKept DEF WriteText, files
<1>17. CASE Bury
  BY <1>17, NothingKept DEF Bury, files
<1>18. CASE Crash
  BY <1>18, NothingKept DEF Crash, Return, files
<1>19. CASE ChangePolicy
  BY <1>19, NothingKept DEF ChangePolicy, files
<1>20. CASE UNCHANGED vars
  BY <1>20, NothingKept DEF vars, files
<1> QED
  BY <1>1, <1>2, <1>3, <1>4, <1>5, <1>6, <1>7, <1>8, <1>9, <1>10, <1>11, <1>12,
     <1>13, <1>14, <1>15, <1>16, <1>17, <1>18, <1>19, <1>20
  DEF Next

\* Whatever operations follow each other, an entry that stays keeps the time it
\* came in, its country and how far its verification is, and a compilation dates
\* every page by the earliest dated session that blocked it (compile_master_list,
\* update_master_model_country, apply_verification_records).
THEOREM Knowledge == Spec => KnowledgeIsKept
<1>1. TypingInv /\ [Next]_vars =>
        (blind' = blind => Kept /\ Dated)
  BY KnowledgeSteps
<1>2. TypingInv /\ [Next]_vars =>
        (blind' = blind =>
           /\ \A u \in Names(json) \cap Names(json') :
                /\ json'[u].stamp = json[u].stamp
                /\ json[u].country => json'[u].country
                /\ op # "verify" => /\ json'[u].free = json[u].free
                                    /\ json'[u].pending = json[u].pending
                                    /\ json'[u].at = json[u].at
           /\ (pc = "publish" /\ pc' = "text"
                 /\ op \in {"compile", "conclude", "add"}) =>
                \A u \in Names(json') : DatedByEarliest(u))
  BY <1>1 DEF Kept, Dated
<1>3. TypingInv /\ [Next]_vars => TypingInv'
  BY TypingSteps
<1> QED
  BY <1>2, <1>3, InitTyping, PTL DEF Spec, KnowledgeIsKept
=============================================================================
