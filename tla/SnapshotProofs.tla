---------------------------- MODULE SnapshotProofs ----------------------------
(***************************************************************************)
(* Theorems about Snapshot, for any models, feeds, clients, page sizes and *)
(* budgets, and any number of changes of the feed and of faults.           *)
(***************************************************************************)
EXTENDS Snapshot, FiniteSetTheorems, TLAPS

USE SnapshotAssumption

-----------------------------------------------------------------------------
(* Types.                                                                  *)

Counters == [rolls : Nat, faults : Nat]

ServiceTyped ==
  /\ feed \in Feeds /\ stuck \in BOOLEAN
  /\ used \in Counters /\ gen = used.rolls /\ used.rolls <= MaxRolls
ClientTyped ==
  /\ client \in Clients \cup {"browser"} /\ pass \in 1..MaxPasses[client]
  /\ pc \in {"page", "judge", "await", "done"}
PageTyped ==
  /\ offset \in Nat /\ attempt \in 0..Retries /\ pages \in 0..MaxPages
  /\ found \subseteq Models /\ raw \in Nat /\ Cardinality(found) <= raw
  /\ \A s \in shown : s.at \in 0..offset /\ s.models \subseteq Models
  /\ union \subseteq Models
\* Until the collection is done the pass that runs has left nothing yet.
AgreedTyped ==
  /\ recent \in Seq(SUBSET Models) /\ Len(recent) <= pass
  /\ good \in 0..pass /\ hits \in [Models -> 0..good] /\ stable \in 0..good
  /\ pc # "done" => Len(recent) < pass /\ good < pass
ResultTyped ==
  /\ status \in {"none", "succeeded", "incomplete", "cancelled"}
  /\ accepted \cup quarantined \subseteq Models
  /\ accepted \cap quarantined = {}

TypeInv == ServiceTyped /\ ClientTyped /\ PageTyped /\ AgreedTyped /\ ResultTyped

-----------------------------------------------------------------------------
(* What the actions are made of.                                           *)

LEMMA FeedIsSeq ==
  ASSUME ServiceTyped
  PROVE  feed \in Seq(Models) /\ IsInjective(feed) /\ Len(feed) \in Nat
  BY DEF ServiceTyped

LEMMA CountersMove ==
  ASSUME NEW c \in Counters
  PROVE  /\ [c EXCEPT !.rolls = @ + 1] \in Counters
         /\ [c EXCEPT !.rolls = @ + 1].rolls = c.rolls + 1
         /\ [c EXCEPT !.faults = @ + 1] \in Counters
         /\ [c EXCEPT !.faults = @ + 1].rolls = c.rolls
<1> DEFINE p == c.rolls + 1
           q == c.faults + 1
<1>1. c.rolls \in Nat /\ c.faults \in Nat
  BY DEF Counters
<1>2. p \in Nat /\ q \in Nat
  BY <1>1
<1>3. /\ [c EXCEPT !.rolls = p] \in Counters /\ [c EXCEPT !.rolls = p].rolls = p
      /\ [c EXCEPT !.faults = q] \in Counters /\ [c EXCEPT !.faults = q].rolls = c.rolls
  <2> HIDE DEF p, q
  <2> QED
    BY <1>2 DEF Counters
<1> QED
  BY <1>3

\* The models of a sequence are no more than its records.
LEMMA FewerModels ==
  ASSUME NEW s \in Seq(Models)
  PROVE  /\ ToSet(s) \subseteq Models /\ IsFiniteSet(ToSet(s))
         /\ Cardinality(ToSet(s)) \in Nat /\ Len(s) \in Nat
         /\ Cardinality(ToSet(s)) <= Len(s)
<1>1. Len(s) \in Nat /\ ToSet(s) \subseteq Models
  BY DEF ToSet
<1>2. IsFiniteSet(ToSet(s)) /\ Cardinality(ToSet(s)) \in Nat
  BY <1>1, FS_Subset, FS_CardinalityType
<1>3. s \in Surjection(1..Len(s), ToSet(s))
  BY DEF Surjection, ToSet
<1>4. ExistsSurjection(1..Len(s), ToSet(s))
  BY <1>3 DEF ExistsSurjection
<1> QED
  BY <1>1, <1>2, <1>4, FS_SurjCardinalityBound

LEMMA AnswerTyped ==
  ASSUME ServiceTyped, NEW o \in Nat
  PROVE  Answer(o) \in Seq(Models)
<1> DEFINE from == IF stuck THEN 0 ELSE o
           to == IF from + PageSize < Len(feed) THEN from + PageSize ELSE Len(feed)
<1>1. from \in Nat /\ Len(feed) \in Nat /\ feed \in Seq(Models)
  BY FeedIsSeq
<1>2. to \in Nat /\ to <= Len(feed)
  BY <1>1
<1>3. Answer(o) = SubSeq(feed, from + 1, to)
  BY DEF Answer
<1> HIDE DEF from, to
<1> QED
  BY <1>1, <1>2, <1>3

LEMMA Conquered ==
  ASSUME NEW S \in SUBSET Models, NEW s \in Seq(Models), NEW n \in Nat, Cardinality(S) <= n
  PROVE  Cardinality(S \cup ToSet(s)) <= n + Len(s) /\ n + Len(s) \in Nat
<1>1. IsFiniteSet(S) /\ Cardinality(S) \in Nat
  BY FS_Subset, FS_CardinalityType
<1>2. /\ IsFiniteSet(ToSet(s)) /\ Cardinality(ToSet(s)) \in Nat /\ Len(s) \in Nat
      /\ Cardinality(ToSet(s)) <= Len(s)
  BY FewerModels
<1>3. IsFiniteSet(S \cap ToSet(s)) /\ Cardinality(S \cap ToSet(s)) \in Nat
  BY <1>1, FS_Subset, FS_CardinalityType
<1>4. Cardinality(S \cup ToSet(s))
        = Cardinality(S) + Cardinality(ToSet(s)) - Cardinality(S \cap ToSet(s))
  BY <1>1, <1>2, FS_Union
<1> QED
  BY <1>1, <1>2, <1>3, <1>4

\* A collection that is judged either goes on with a further pass or is over.
Goes == /\ pass' = pass + 1 /\ pass # MaxPasses[client] /\ FreshPage
        /\ pc' \in {"page", "await"} /\ UNCHANGED result
Ends == \E a, q \in SUBSET Models :
          /\ a \cap q = {}
          /\ \E s \in {"succeeded", "incomplete", "cancelled"} : Finish(s, a, q)

LEMMA StripchatGoesOrEnds == ASSUME TypeInv, JudgeStripchat PROVE Goes \/ Ends
<1> DEFINE n == Len(recent')
           w == SubSeq(recent', n - MinPasses[client] + 1, n)
           ready == /\ n >= MinPasses[client] /\ MinPasses[client] > StablePairs
                    /\ \A i \in 1..(MinPasses[client] - 1) : Agree(w[i], w[i + 1])
           twice == {m \in Models : InWindow(w, m) >= 2}
           once == {m \in Models : InWindow(w, m) = 1}
           clear == AtMost(Cardinality(once), Cardinality(once \cup twice), Doubtful)
           last == pass = MaxPasses[client]
<1>1. \/ ready /\ clear /\ Finish("succeeded", twice, once)
      \/ ready /\ ~clear /\ (confirm \/ last) /\ Finish("incomplete", {}, once)
      \/ ready /\ ~clear /\ ~confirm /\ ~last /\ NextPass
      \/ ~ready /\ ~last /\ NextPass
      \/ ~ready /\ last /\ Finish("incomplete", {}, {})
  BY DEF JudgeStripchat
<1>2. twice \cap once = {} /\ twice \in SUBSET Models /\ once \in SUBSET Models
  <2>1. twice \in SUBSET Models /\ once \in SUBSET Models
    OBVIOUS
  <2>2. ASSUME NEW m \in twice \cap once PROVE FALSE
    <3>1. InWindow(w, m) = 1 /\ InWindow(w, m) >= 2
      BY <2>2
    <3> QED
      BY <3>1
  <2> QED
    BY <2>1, <2>2
<1>3. NextPass /\ ~last => Goes
  BY DEF NextPass, Following, Goes
<1> HIDE DEF n, w, ready, clear, last, twice, once
<1> QED
  BY <1>1, <1>2, <1>3 DEF Ends

LEMMA ChaturbateGoesOrEnds == ASSUME TypeInv, JudgeChaturbate PROVE Goes \/ Ends
<1> DEFINE enough == /\ Counted /\ stable' >= 1
                     /\ MinPasses[client] <= IF client = "browser" THEN pass ELSE good'
           once == {m \in Models : hits'[m] = 1}
           twice == {m \in Models : hits'[m] >= 2}
           last == pass = MaxPasses[client]
           again == client = "chaturbate" /\ once # {} /\ ~last /\ ~confirm
           over == last \/ (enough /\ ~again)
<1>1. \/ ~over /\ NextPass
      \/ /\ over /\ client = "browser"
         /\ Finish(IF union = {} THEN "incomplete" ELSE "succeeded", union, {})
      \/ /\ over /\ client = "chaturbate"
         /\ IF stable' >= 1 /\ twice # {} THEN Finish("succeeded", twice, once)
            ELSE Finish("incomplete", {}, {})
  BY DEF JudgeChaturbate
<1>2. twice \cap once = {} /\ twice \in SUBSET Models /\ once \in SUBSET Models
  <2>1. twice \in SUBSET Models /\ once \in SUBSET Models
    OBVIOUS
  <2>2. ASSUME NEW m \in twice \cap once PROVE FALSE
    <3>1. hits'[m] = 1 /\ hits'[m] >= 2
      BY <2>2
    <3> QED
      BY <3>1
  <2> QED
    BY <2>1, <2>2
<1>3. NextPass /\ ~over => Goes
  BY DEF NextPass, Following, Goes
<1>4. union \in SUBSET Models
  BY DEF TypeInv, PageTyped
<1> HIDE DEF over, twice, once
<1> QED
  BY <1>1, <1>2, <1>3, <1>4 DEF Ends

LEMMA ServiceSteps == ASSUME TypeInv, [Next]_vars PROVE ServiceTyped'
<1> USE DEF TypeInv
<1>1. CASE Roll
  <2>1. used' \in Counters /\ used'.rolls = used.rolls + 1
    BY <1>1, CountersMove DEF Roll, ServiceTyped
  <2>2. used.rolls < MaxRolls /\ used.rolls \in Nat
    BY <1>1 DEF Roll, ServiceTyped, Counters
  <2> QED
    BY <1>1, <2>1, <2>2 DEF Roll, ServiceTyped
<1>2. CASE RequestStop
  BY <1>2 DEF RequestStop, service, ServiceTyped
<1>3. CASE Fault
  <2>1. used' \in Counters /\ used'.rolls = used.rolls
    BY <1>3, CountersMove DEF Fault, ServiceTyped
  <2> QED
    BY <1>3, <2>1 DEF Fault, service, ServiceTyped
<1>4. CASE BrowserDies
  <2>1. used' \in Counters /\ used'.rolls = used.rolls
    BY <1>4, CountersMove DEF BrowserDies, ServiceTyped
  <2> QED
    BY <1>4, <2>1 DEF BrowserDies, service, ServiceTyped
<1>5. CASE Cancel
  BY <1>5 DEF Cancel, service, ServiceTyped
<1>6. CASE Page
  <2>1. used' \in {used, [used EXCEPT !.faults = @ + 1]}
    BY <1>6 DEF Page
  <2>2. used' \in Counters /\ used'.rolls = used.rolls
    BY <2>1, CountersMove DEF ServiceTyped
  <2> QED
    BY <1>6, <2>2 DEF Page, service, ServiceTyped
<1>7. CASE CapPages
  BY <1>7 DEF CapPages, service, ServiceTyped
<1>8. CASE Await
  BY <1>8 DEF Await, service, ServiceTyped
<1>9. CASE JudgeStripchat
  BY <1>9 DEF JudgeStripchat, service, ServiceTyped
<1>10. CASE JudgeChaturbate
  BY <1>10 DEF JudgeChaturbate, service, ServiceTyped
<1>11. CASE Fallback
  BY <1>11 DEF Fallback, service, ServiceTyped
<1>12. CASE UNCHANGED vars
  BY <1>12 DEF vars, service, ServiceTyped
<1> QED
  BY <1>1, <1>2, <1>3, <1>4, <1>5, <1>6, <1>7, <1>8, <1>9, <1>10, <1>11, <1>12
  DEF Next, Step

LEMMA ClientSteps == ASSUME TypeInv, [Next]_vars PROVE ClientTyped'
<1> USE DEF TypeInv
<1>1. CASE Roll
  BY <1>1 DEF Roll, page, ClientTyped
<1>2. CASE RequestStop
  BY <1>2 DEF RequestStop, page, ClientTyped
<1>3. CASE Fault
  BY <1>3 DEF Fault, EndPass, page, ClientTyped
<1>4. CASE BrowserDies
  BY <1>4 DEF BrowserDies, Finish, page, ClientTyped
<1>5. CASE Cancel
  BY <1>5 DEF Cancel, Finish, page, ClientTyped
<1>6. CASE Page
  <2>1. UNCHANGED <<client, pass>> /\ pc' \in {"page", "judge"}
    BY <1>6 DEF Page, EndPass
  <2> QED
    BY <2>1 DEF ClientTyped
<1>7. CASE CapPages
  BY <1>7 DEF CapPages, EndPass, page, ClientTyped
<1>8. CASE Await
  BY <1>8 DEF Await, page, ClientTyped
<1>9. CASE JudgeStripchat
  <2>1. UNCHANGED client
    BY <1>9 DEF JudgeStripchat
  <2>2. CASE Goes
    BY <2>1, <2>2 DEF Goes, ClientTyped
  <2>3. CASE Ends
    BY <2>1, <2>3 DEF Ends, Finish, ClientTyped
  <2> QED
    BY <1>9, <2>2, <2>3, StripchatGoesOrEnds
<1>10. CASE JudgeChaturbate
  <2>1. UNCHANGED client
    BY <1>10 DEF JudgeChaturbate
  <2>2. CASE Goes
    BY <2>1, <2>2 DEF Goes, ClientTyped
  <2>3. CASE Ends
    BY <2>1, <2>3 DEF Ends, Finish, ClientTyped
  <2> QED
    BY <1>10, <2>2, <2>3, ChaturbateGoesOrEnds
<1>11. CASE Fallback
  BY <1>11 DEF Fallback, FreshPage, page, ClientTyped
<1>12. CASE UNCHANGED vars
  BY <1>12 DEF vars, ClientTyped
<1> QED
  BY <1>1, <1>2, <1>3, <1>4, <1>5, <1>6, <1>7, <1>8, <1>9, <1>10, <1>11, <1>12
  DEF Next, Step

LEMMA FreshIsTyped == ASSUME FreshPage, union' \subseteq Models PROVE PageTyped'
  BY FS_EmptySet DEF FreshPage, PageTyped

LEMMA PageSteps == ASSUME TypeInv, [Next]_vars PROVE PageTyped'
<1> USE DEF TypeInv
<1>1. CASE Roll
  BY <1>1 DEF Roll, page, PageTyped
<1>2. CASE RequestStop
  BY <1>2 DEF RequestStop, page, PageTyped
<1>3. CASE Fault
  BY <1>3 DEF Fault, EndPass, page, PageTyped
<1>4. CASE BrowserDies
  BY <1>4 DEF BrowserDies, Finish, page, PageTyped
<1>5. CASE Cancel
  BY <1>5 DEF Cancel, Finish, page, PageTyped
<1>6. CASE Page
  <2>1. PICK got \in {Answer(offset)} \cup {<<>>} : Take(got)
    BY <1>6 DEF Page
  <2>2. got \in Seq(Models)
    <3>1. Answer(offset) \in Seq(Models)
      BY AnswerTyped DEF PageTyped
    <3>2. <<>> \in Seq(Models)
      OBVIOUS
    <3> QED
      BY <2>1, <3>1, <3>2
  <2>3. ToSet(got) \subseteq Models /\ Len(got) \in Nat
    BY <2>2, FewerModels
  <2>4. found' \subseteq Models /\ raw' \in Nat /\ Cardinality(found') <= raw'
    <3>1. found' = found \cup ToSet(got) /\ raw' = raw + Len(got)
      BY <2>1 DEF Take
    <3> QED
      BY <2>2, <2>3, <3>1, Conquered DEF PageTyped
  <2>5. attempt' = 0 /\ pages' \in 0..MaxPages
    BY <1>6, <2>1 DEF Take, Page, PageTyped
  <2>6. offset' \in Nat /\ offset <= offset'
    BY <2>1, <2>3 DEF Take, PageTyped
  <2>7. shown' \subseteq shown \cup {[at |-> offset, models |-> ToSet(got)]}
    BY <2>1 DEF Take
  <2>8. \A s \in shown' : s.at \in 0..offset' /\ s.models \subseteq Models
    <3>1. offset \in Nat /\ \A s \in shown : s.at \in 0..offset /\ s.models \subseteq Models
      BY DEF PageTyped
    <3>2. \A i \in 0..offset : i \in 0..offset'
      BY <2>6, <3>1
    <3>3. offset \in 0..offset
      BY <3>1
    <3> QED
      BY <2>3, <2>7, <3>1, <3>2, <3>3
  <2>9. union' \subseteq Models
    BY <2>1, <2>3 DEF Take, PageTyped
  <2> QED
    BY <2>4, <2>5, <2>6, <2>8, <2>9 DEF PageTyped
<1>7. CASE CapPages
  BY <1>7 DEF CapPages, EndPass, page, PageTyped
<1>8. CASE Await
  BY <1>8 DEF Await, page, PageTyped
<1>9. CASE JudgeStripchat
  <2>1. CASE Goes
    BY <1>9, <2>1, FreshIsTyped DEF Goes, JudgeStripchat, PageTyped
  <2>2. CASE Ends
    BY <1>9, <2>2 DEF Ends, Finish, JudgeStripchat, page, PageTyped
  <2> QED
    BY <1>9, <2>1, <2>2, StripchatGoesOrEnds
<1>10. CASE JudgeChaturbate
  <2>1. CASE Goes
    BY <1>10, <2>1, FreshIsTyped DEF Goes, JudgeChaturbate, PageTyped
  <2>2. CASE Ends
    BY <1>10, <2>2 DEF Ends, Finish, JudgeChaturbate, page, PageTyped
  <2> QED
    BY <1>10, <2>1, <2>2, ChaturbateGoesOrEnds
<1>11. CASE Fallback
  BY <1>11, FreshIsTyped DEF Fallback
<1>12. CASE UNCHANGED vars
  BY <1>12 DEF vars, page, PageTyped
<1> QED
  BY <1>1, <1>2, <1>3, <1>4, <1>5, <1>6, <1>7, <1>8, <1>9, <1>10, <1>11, <1>12
  DEF Next, Step

LEMMA AgreedSteps == ASSUME TypeInv, [Next]_vars PROVE AgreedTyped'
<1> USE DEF TypeInv
<1>1. CASE Roll
  BY <1>1 DEF Roll, agreed, AgreedTyped
<1>2. CASE RequestStop
  BY <1>2 DEF RequestStop, agreed, AgreedTyped
<1>3. CASE Fault
  BY <1>3 DEF Fault, EndPass, agreed, AgreedTyped
<1>4. CASE BrowserDies
  BY <1>4 DEF BrowserDies, Finish, agreed, AgreedTyped
<1>5. CASE Cancel
  BY <1>5 DEF Cancel, Finish, agreed, AgreedTyped
<1>6. CASE Page
  <2>1. UNCHANGED <<agreed, pass>> /\ pc # "done"
    BY <1>6 DEF Page
  <2> QED
    BY <2>1 DEF agreed, AgreedTyped
<1>7. CASE CapPages
  BY <1>7 DEF CapPages, EndPass, agreed, AgreedTyped
<1>8. CASE Await
  BY <1>8 DEF Await, agreed, AgreedTyped
<1>9. CASE JudgeStripchat
  <2>1. /\ pass' \in Nat /\ pass <= pass' /\ pc # "done" /\ pass \in Nat
        /\ pc' # "done" => pass' = pass + 1
    <3>1. CASE Goes
      BY <1>9, <3>1 DEF Goes, ClientTyped, JudgeStripchat
    <3>2. CASE Ends
      BY <1>9, <3>2 DEF Ends, Finish, ClientTyped, JudgeStripchat
    <3> QED
      BY <1>9, <3>1, <3>2, StripchatGoesOrEnds
  <2>2. UNCHANGED <<good, hits, stable>>
    BY <1>9 DEF JudgeStripchat
  <2>3. recent' \in Seq(SUBSET Models) /\ Len(recent') <= Len(recent) + 1
    BY <1>9 DEF JudgeStripchat, AgreedTyped, PageTyped
  <2>4. Len(recent) \in Nat /\ Len(recent') \in Nat /\ Len(recent) < pass /\ good < pass
    BY <2>1, <2>3 DEF AgreedTyped
  <2> QED
    BY <2>1, <2>2, <2>3, <2>4 DEF AgreedTyped
<1>10. CASE JudgeChaturbate
  <2>1. /\ pass' \in Nat /\ pass <= pass' /\ pc # "done" /\ pass \in Nat
        /\ pc' # "done" => pass' = pass + 1
    <3>1. CASE Goes
      BY <1>10, <3>1 DEF Goes, ClientTyped, JudgeChaturbate
    <3>2. CASE Ends
      BY <1>10, <3>2 DEF Ends, Finish, ClientTyped, JudgeChaturbate
    <3> QED
      BY <1>10, <3>1, <3>2, ChaturbateGoesOrEnds
  <2>2. recent' \in {<<found>>, <<{}>>, <<>>}
    BY <1>10 DEF JudgeChaturbate
  <2>3. recent' \in Seq(SUBSET Models) /\ Len(recent') \in 0..1
    <3>1. CASE recent' = <<found>>
      BY <3>1 DEF PageTyped
    <3>2. CASE recent' = <<{}>>
      BY <3>2
    <3>3. CASE recent' = <<>>
      BY <3>3
    <3> QED
      BY <2>2, <3>1, <3>2, <3>3
  <2>a. passed => good' = good + 1
    BY <1>10 DEF JudgeChaturbate
  <2>b. good' = good + 1 \/ good' = good
    BY <1>10 DEF JudgeChaturbate
  <2>4. good \in Nat /\ good < pass /\ good' \in {good, good + 1}
    BY <2>1, <2>b DEF AgreedTyped
  <2>5. stable' \in {stable + 1, 0} /\ (~passed => stable' = 0)
    BY <1>10 DEF JudgeChaturbate, Counted
  <2>6. stable' \in 0..good'
    BY <2>a, <2>4, <2>5 DEF AgreedTyped
  <2>7. hits' \in [Models -> 0..good']
    <3>1. CASE Counted
      <4>1. hits' = [m \in Models |-> hits[m] + IF m \in found THEN 1 ELSE 0]
        BY <1>10, <3>1 DEF JudgeChaturbate
      <4>2. good' = good + 1
        BY <2>a, <3>1 DEF Counted
      <4>3. \A m \in Models : hits[m] \in 0..good
        BY DEF AgreedTyped
      <4>4. ASSUME NEW m \in Models PROVE hits[m] + (IF m \in found THEN 1 ELSE 0) \in 0..good'
        <5>1. hits[m] \in 0..good
          BY <4>3
        <5>2. CASE m \in found
          BY <2>4, <4>2, <5>1, <5>2
        <5>3. CASE m \notin found
          BY <2>4, <4>2, <5>1, <5>3
        <5> QED
          BY <5>2, <5>3
      <4> QED
        BY <4>1, <4>4
    <3>2. CASE ~Counted
      <4>1. hits' = hits
        BY <1>10, <3>2 DEF JudgeChaturbate
      <4>2. \A i \in 0..good : i \in 0..good'
        BY <2>4
      <4> QED
        BY <4>1, <4>2 DEF AgreedTyped
    <3> QED
      BY <3>1, <3>2
  <2>8. good' \in 0..pass' /\ Len(recent') <= pass'
    <3>1. pass >= 1
      BY DEF ClientTyped
    <3>2. good' <= pass /\ good' \in Nat
      BY <2>1, <2>4
    <3> DEFINE l == Len(recent')
    <3>3. l \in 0..1
      BY <2>3
    <3> HIDE DEF l
    <3>4. good' \in 0..pass' /\ l <= pass'
      BY <2>1, <3>1, <3>2, <3>3
    <3> QED
      BY <3>4 DEF l
  <2>9. pc' # "done" => Len(recent') < pass' /\ good' < pass'
    <3>1. pass >= 1
      BY DEF ClientTyped
    <3>2. good' <= pass /\ good' \in Nat
      BY <2>1, <2>4
    <3> DEFINE l == Len(recent')
    <3>3. l \in 0..1
      BY <2>3
    <3> HIDE DEF l
    <3>4. ASSUME pc' # "done" PROVE l < pass' /\ good' < pass'
      BY <2>1, <3>1, <3>2, <3>3, <3>4
    <3> QED
      BY <3>4 DEF l
  <2> QED
    BY <2>3, <2>6, <2>7, <2>8, <2>9 DEF AgreedTyped
<1>11. CASE Fallback
  <2>1. /\ pass' = 1 /\ recent' = <<>> /\ stable' = 0 /\ good' = 0
        /\ hits' = [m \in Models |-> 0]
    BY <1>11 DEF Fallback
  <2> QED
    BY <2>1 DEF AgreedTyped
<1>12. CASE UNCHANGED vars
  BY <1>12 DEF vars, agreed, AgreedTyped
<1> QED
  BY <1>1, <1>2, <1>3, <1>4, <1>5, <1>6, <1>7, <1>8, <1>9, <1>10, <1>11, <1>12
  DEF Next, Step

LEMMA ResultSteps == ASSUME TypeInv, [Next]_vars PROVE ResultTyped'
<1> USE DEF TypeInv
<1>1. CASE Roll
  BY <1>1 DEF Roll, result, ResultTyped
<1>2. CASE RequestStop
  BY <1>2 DEF RequestStop, result, ResultTyped
<1>3. CASE Fault
  BY <1>3 DEF Fault, EndPass, result, ResultTyped
<1>4. CASE BrowserDies
  BY <1>4 DEF BrowserDies, Finish, PageTyped, ResultTyped
<1>5. CASE Cancel
  BY <1>5 DEF Cancel, Finish, PageTyped, ResultTyped
<1>6. CASE Page
  <2>1. UNCHANGED result
    BY <1>6 DEF Page
  <2> QED
    BY <2>1 DEF result, ResultTyped
<1>7. CASE CapPages
  BY <1>7 DEF CapPages, EndPass, result, ResultTyped
<1>8. CASE Await
  BY <1>8 DEF Await, result, ResultTyped
<1>9. CASE JudgeStripchat
  <2>1. CASE Goes
    BY <2>1 DEF Goes, result, ResultTyped
  <2>2. CASE Ends
    BY <2>2 DEF Ends, Finish, ResultTyped
  <2> QED
    BY <1>9, <2>1, <2>2, StripchatGoesOrEnds
<1>10. CASE JudgeChaturbate
  <2>1. CASE Goes
    BY <2>1 DEF Goes, result, ResultTyped
  <2>2. CASE Ends
    BY <2>2 DEF Ends, Finish, ResultTyped
  <2> QED
    BY <1>10, <2>1, <2>2, ChaturbateGoesOrEnds
<1>11. CASE Fallback
  BY <1>11 DEF Fallback, FreshPage, result, ResultTyped
<1>12. CASE UNCHANGED vars
  BY <1>12 DEF vars, result, ResultTyped
<1> QED
  BY <1>1, <1>2, <1>3, <1>4, <1>5, <1>6, <1>7, <1>8, <1>9, <1>10, <1>11, <1>12
  DEF Next, Step

LEMMA InitTypes == Init => TypeInv
<1> SUFFICES ASSUME Init PROVE TypeInv
  OBVIOUS
<1>1. ServiceTyped
  BY DEF Init, ServiceTyped, Counters
<1>2. ClientTyped
  BY DEF Init, ClientTyped
<1>3. PageTyped
  BY FS_EmptySet DEF Init, PageTyped
<1>4. AgreedTyped
  <2>1. pass = 1 /\ recent = <<>> /\ stable = 0 /\ good = 0 /\ hits = [m \in Models |-> 0]
    BY DEF Init
  <2> QED
    BY <2>1 DEF AgreedTyped
<1>5. ResultTyped
  BY DEF Init, ResultTyped
<1> QED
  BY <1>1, <1>2, <1>3, <1>4, <1>5 DEF TypeInv

LEMMA TypeSteps == ASSUME TypeInv, [Next]_vars PROVE TypeInv'
  BY ServiceSteps, ClientSteps, PageSteps, AgreedSteps, ResultSteps DEF TypeInv

\* The variables keep their form, and the counters their budgets (max_pages,
\* page_retries, the passes of collect_snapshot and collect_adaptive).
THEOREM Typing == Spec => []TypeOK
<1>1. TypeInv => TypeOK
  <2> SUFFICES ASSUME TypeInv PROVE TypeOK
    OBVIOUS
  <2>1. gen \in 0..MaxRolls
    BY DEF TypeInv, ServiceTyped, Counters
  <2> QED
    BY <2>1 DEF TypeInv, ServiceTyped, ClientTyped, PageTyped, AgreedTyped, ResultTyped, TypeOK
<1> QED
  BY <1>1, InitTypes, TypeSteps, PTL DEF Spec

-----------------------------------------------------------------------------
(* Passes.                                                                 *)

\* The models at the first o places of the listing.
Reach(o) == {feed[i] : i \in 1..(IF o < Len(feed) THEN o ELSE Len(feed))}

\* A pass that nothing disturbed has met what is at the places it has read, or
\* the first page again and again.
Reading ==
  /\ now = ToSet(feed) /\ total \in {0, Len(feed)}
  /\ pages = 0 => offset = 0 /\ found = {} /\ total = 0
  /\ ~stuck => found = Reach(offset)
  /\ stuck /\ pages > 0 => found = Reach(PageSize)
PassInv ==
  still /\ ~hollow =>
    /\ pc \in {"page", "await"} => Reading
    /\ pc = "await" => pages = 0
    /\ pc = "judge" /\ passed => found = now

LEMMA ReachProperties ==
  ASSUME ServiceTyped, NEW o \in Nat
  PROVE  /\ Reach(o) \subseteq ToSet(feed) /\ Reach(0) = {}
         /\ o >= Len(feed) => Reach(o) = ToSet(feed)
         /\ Cardinality(Reach(o)) >= Len(feed) => Reach(o) = ToSet(feed)
<1>1. feed \in Seq(Models) /\ Len(feed) \in Nat /\ DOMAIN feed = 1..Len(feed)
  BY FeedIsSeq
<1>2. Reach(o) \subseteq ToSet(feed)
  BY <1>1 DEF Reach, ToSet
<1>3. Reach(0) = {}
  BY <1>1 DEF Reach
<1>4. o >= Len(feed) => Reach(o) = ToSet(feed)
  BY <1>1 DEF Reach, ToSet
<1>5. Cardinality(Reach(o)) >= Len(feed) => Reach(o) = ToSet(feed)
  <2>1. IsFiniteSet(ToSet(feed)) /\ Cardinality(ToSet(feed)) <= Len(feed)
        /\ Cardinality(ToSet(feed)) \in Nat
    BY <1>1, FewerModels
  <2>2. /\ IsFiniteSet(Reach(o)) /\ Cardinality(Reach(o)) <= Cardinality(ToSet(feed))
        /\ Cardinality(ToSet(feed)) = Cardinality(Reach(o)) => ToSet(feed) = Reach(o)
    BY <1>2, <2>1, FS_Subset
  <2>3. Cardinality(Reach(o)) \in Nat
    BY <2>2, FS_CardinalityType
  <2> QED
    BY <1>1, <2>1, <2>2, <2>3
<1> QED
  BY <1>2, <1>3, <1>4, <1>5

LEMMA AnswerShape ==
  ASSUME ServiceTyped, NEW o \in Nat
  PROVE  LET from == IF stuck THEN 0 ELSE o
             to == IF from + PageSize < Len(feed) THEN from + PageSize ELSE Len(feed)
         IN /\ from \in Nat /\ to \in Nat /\ to <= Len(feed)
            /\ ToSet(Answer(o)) = {feed[i] : i \in (from + 1)..to}
            /\ Len(Answer(o)) = IF from < to THEN to - from ELSE 0
<1> DEFINE from == IF stuck THEN 0 ELSE o
           to == IF from + PageSize < Len(feed) THEN from + PageSize ELSE Len(feed)
<1>1. from \in Nat /\ Len(feed) \in Nat /\ feed \in Seq(Models)
  BY FeedIsSeq
<1>2. to \in Nat /\ to <= Len(feed)
  BY <1>1
<1>3. Answer(o) = SubSeq(feed, from + 1, to)
  BY DEF Answer
<1> HIDE DEF from, to
<1>4. Len(Answer(o)) = IF from < to THEN to - from ELSE 0
  BY <1>1, <1>2, <1>3
<1>5. \A i \in 1..Len(Answer(o)) : Answer(o)[i] = feed[from + i]
  BY <1>1, <1>2, <1>3
<1>6. Answer(o) \in Seq(Models)
  BY AnswerTyped
<1>7. ToSet(Answer(o)) = {Answer(o)[i] : i \in 1..Len(Answer(o))}
  BY <1>6 DEF ToSet
<1>8. ToSet(Answer(o)) \subseteq {feed[i] : i \in (from + 1)..to}
  <2>1. ASSUME NEW i \in 1..Len(Answer(o)) PROVE from + i \in (from + 1)..to
    BY <1>1, <1>2, <1>4, <2>1
  <2> QED
    BY <1>5, <1>7, <2>1
<1>9. {feed[i] : i \in (from + 1)..to} \subseteq ToSet(Answer(o))
  <2>1. ASSUME NEW i \in (from + 1)..to
        PROVE  i - from \in 1..Len(Answer(o)) /\ from + (i - from) = i
    BY <1>1, <1>2, <1>4, <2>1
  <2>2. ASSUME NEW i \in (from + 1)..to PROVE feed[i] = Answer(o)[i - from]
    <3>1. Answer(o)[i - from] = feed[from + (i - from)]
      BY <1>5, <2>1
    <3> QED
      BY <2>1, <3>1
  <2> QED
    BY <1>7, <2>1, <2>2
<1> QED
  BY <1>1, <1>2, <1>4, <1>8, <1>9 DEF from, to

\* Where the service advances, a page goes on where the last one ended.
LEMMA AnswerExtends ==
  ASSUME ServiceTyped, NEW o \in Nat, ~stuck
  PROVE  /\ Reach(o) \cup ToSet(Answer(o)) = Reach(o + PageSize)
         /\ Reach(o + Len(Answer(o))) = Reach(o + PageSize)
         /\ Len(Answer(o)) < PageSize => Reach(o + PageSize) = ToSet(feed)
         /\ Len(Answer(o)) = 0 => Reach(o) = ToSet(feed)
<1> DEFINE to == IF o + PageSize < Len(feed) THEN o + PageSize ELSE Len(feed)
<1>1. /\ to \in Nat /\ to <= Len(feed) /\ Len(feed) \in Nat
      /\ ToSet(Answer(o)) = {feed[i] : i \in (o + 1)..to}
      /\ Len(Answer(o)) = IF o < to THEN to - o ELSE 0
  BY AnswerShape, FeedIsSeq
<1>2. Reach(o + PageSize) = {feed[i] : i \in 1..to}
  BY DEF Reach
<1>3. Len(Answer(o)) < PageSize => o + PageSize >= Len(feed)
  BY <1>1
<1>4. Len(Answer(o)) = 0 => o >= Len(feed)
  BY <1>1
<1>5. Reach(o) \cup ToSet(Answer(o)) = Reach(o + PageSize)
  <2>1. 1..to = (1..(IF o < Len(feed) THEN o ELSE Len(feed))) \cup ((o + 1)..to)
    BY <1>1
  <2> HIDE DEF to
  <2> QED
    BY <1>1, <1>2, <2>1 DEF Reach
<1>6. Reach(o + Len(Answer(o))) = Reach(o + PageSize)
  <2> DEFINE p == o + Len(Answer(o))
  <2>1. (IF p < Len(feed) THEN p ELSE Len(feed)) = to
    BY <1>1
  <2> HIDE DEF to, p
  <2>2. Reach(p) = {feed[i] : i \in 1..to}
    BY <2>1 DEF Reach
  <2> QED
    BY <1>2, <2>2 DEF p
<1>7. o + PageSize \in Nat
  OBVIOUS
<1> QED
  BY <1>3, <1>4, <1>5, <1>6, <1>7, ReachProperties

\* Where it does not, every page is the first.
LEMMA AnswerRepeats ==
  ASSUME ServiceTyped, NEW o \in Nat, stuck
  PROVE  /\ ToSet(Answer(o)) = Reach(PageSize)
         /\ Len(Answer(o)) < PageSize => Reach(PageSize) = ToSet(feed)
<1> DEFINE to == IF PageSize < Len(feed) THEN PageSize ELSE Len(feed)
<1>1. /\ to \in Nat /\ to <= Len(feed) /\ Len(feed) \in Nat
      /\ ToSet(Answer(o)) = {feed[i] : i \in 1..to}
      /\ Len(Answer(o)) = IF 0 < to THEN to ELSE 0
  BY AnswerShape, FeedIsSeq
<1>2. Len(Answer(o)) < PageSize => PageSize >= Len(feed)
  BY <1>1
<1>3. ToSet(Answer(o)) = Reach(PageSize)
  BY <1>1 DEF Reach
<1> QED
  BY <1>2, <1>3, ReachProperties

\* A page that came as the service lists it.
LEMMA PageReads ==
  ASSUME TypeInv, PassInv, Page, still', ~hollow', NEW got, Take(got), got = Answer(offset)
  PROVE  /\ Reading'
         /\ LastPage(got, found \cup ToSet(got)) /\ (client = "stripchat" => found # {})
              => found' = now'
<1>1. /\ pc = "page" /\ still /\ ~hollow /\ UNCHANGED <<service, now>>
  BY DEF Page
<1>2. Reading
  BY <1>1 DEF PassInv
<1>3. ServiceTyped /\ offset \in Nat /\ pages \in Nat
  BY DEF TypeInv, PageTyped
<1>4. Len(got) \in Nat /\ Len(feed) \in Nat
  <2>1. got \in Seq(Models)
    BY <1>3, AnswerTyped
  <2> QED
    BY <1>3, <2>1, FeedIsSeq
<1>5. /\ found' = found \cup ToSet(got) /\ pages' = pages + 1
      /\ offset' = offset + IF client = "stripchat" THEN Len(got) ELSE PageSize
      /\ total' = IF total < Len(feed) THEN Len(feed) ELSE total
  BY DEF Take
<1>6. ~stuck => found' = Reach(offset')
  <2> SUFFICES ASSUME ~stuck PROVE found' = Reach(offset')
    OBVIOUS
  <2>1. found' = Reach(offset + PageSize)
    BY <1>2, <1>3, <1>5, AnswerExtends DEF Reading
  <2>2. Reach(offset + Len(got)) = Reach(offset + PageSize)
    BY <1>3, AnswerExtends
  <2> QED
    BY <1>5, <2>1, <2>2
<1>7. stuck => found' = Reach(PageSize)
  <2> SUFFICES ASSUME stuck PROVE found' = Reach(PageSize)
    OBVIOUS
  <2>1. ToSet(got) = Reach(PageSize)
    BY <1>3, AnswerRepeats
  <2>2. found = {} \/ found = Reach(PageSize)
    BY <1>2, <1>3 DEF Reading
  <2> QED
    BY <1>5, <2>1, <2>2
<1>8. Reading'
  <2>1. Reach(offset)' = Reach(offset') /\ Reach(PageSize)' = Reach(PageSize)
    BY <1>1 DEF Reach, service
  <2>2. now' = ToSet(feed') /\ total' \in {0, Len(feed')}
    BY <1>1, <1>2, <1>4, <1>5 DEF Reading, service
  <2>3. pages' # 0
    BY <1>3, <1>5
  <2>4. stuck' = stuck
    BY <1>1 DEF service
  <2> QED
    BY <1>6, <1>7, <2>1, <2>2, <2>3, <2>4 DEF Reading
<1>9. ASSUME LastPage(got, found'), client = "stripchat" => found # {} PROVE found' = ToSet(feed)
  <2>1. client \in {"stripchat", "chaturbate", "browser"}
    BY DEF TypeInv, ClientTyped
  <2>2. CASE client = "stripchat"
    <3>1. Len(got) = 0 /\ ToSet(got) = {}
      BY <1>9, <2>2 DEF LastPage, ToSet
    <3>2. CASE ~stuck
      BY <1>2, <1>3, <1>5, <3>1, <3>2, AnswerExtends DEF Reading
    <3>3. CASE stuck
      <4>1. Reach(PageSize) = {} /\ Reach(PageSize) = ToSet(feed)
        BY <1>3, <3>1, <3>3, AnswerRepeats
      <4> QED
        BY <1>7, <3>3, <4>1
    <3> QED
      BY <3>2, <3>3
  <2>3. CASE Len(got) < PageSize
    <3>1. CASE ~stuck
      BY <1>2, <1>3, <1>5, <2>3, <3>1, AnswerExtends DEF Reading
    <3>2. CASE stuck
      BY <1>3, <1>7, <2>3, <3>2, AnswerRepeats
    <3> QED
      BY <3>1, <3>2
  <2>4. CASE client = "chaturbate" /\ Len(got) >= PageSize
    <3>1. total \in {0, Len(feed)}
      BY <1>2 DEF Reading
    <3>2. Cardinality(found') >= Len(feed)
      BY <1>4, <1>9, <2>4, <3>1 DEF LastPage
    <3>3. \E o \in Nat : found' = Reach(o)
      <4>1. offset' \in Nat
        BY <1>3, <1>4, <1>5
      <4>2. PageSize \in Nat
        OBVIOUS
      <4> QED
        BY <1>6, <1>7, <4>1, <4>2
    <3> QED
      BY <1>3, <3>2, <3>3, ReachProperties
  <2> QED
    BY <1>4, <1>9, <2>1, <2>2, <2>3, <2>4 DEF LastPage
<1>10. now' = ToSet(feed)
  BY <1>1, <1>2 DEF Reading
<1> QED
  BY <1>5, <1>8, <1>9, <1>10

LEMMA ReachAtStart == ServiceTyped' => Reach(0)' = {}
<1> SUFFICES ASSUME ServiceTyped' PROVE Reach(0)' = {}
  OBVIOUS
<1>1. Len(feed') \in Nat
  BY DEF ServiceTyped
<1> QED
  BY <1>1 DEF Reach

\* A pass that has not begun.
LEMMA FreshIsReading ==
  ASSUME TypeInv', FreshPage, UNCHANGED service
  PROVE  Reading' /\ pages' = 0
<1>1. Reach(0)' = {}
  BY ReachAtStart DEF TypeInv
<1> QED
  BY <1>1 DEF FreshPage, Reading, service

LEMMA PassSteps == ASSUME TypeInv, PassInv, [Next]_vars PROVE PassInv'
<1>1. CASE Roll
  <2> SUFFICES ASSUME still', ~hollow'
               PROVE  /\ pc' \in {"page", "await"} => Reading'
                      /\ pc' = "await" => pages' = 0
                      /\ pc' = "judge" /\ passed' => found' = now'
    BY DEF PassInv
  <2>1. /\ still /\ ~hollow /\ ~(pc = "page" /\ pages > 0)
        /\ UNCHANGED <<stuck, pc, page, passed>>
        /\ pc = "judge" => now' = now
        /\ pc # "judge" => now' = ToSet(feed')
    BY <1>1 DEF Roll
  <2>2. pc \in {"page", "await"} => pages = 0
    BY <2>1 DEF PassInv, TypeInv, PageTyped
  <2>3. pc \in {"page", "await"} => Reading'
    <3> SUFFICES ASSUME pc \in {"page", "await"} PROVE Reading'
      OBVIOUS
    <3>1. Reading
      BY <2>1 DEF PassInv
    <3>2. offset' = 0 /\ found' = {} /\ total' = 0 /\ pages' = 0
      BY <2>1, <2>2, <3>1 DEF page, Reading
    <3>3. ServiceTyped'
      BY <1>1, ServiceSteps DEF Next
    <3>4. Reach(0)' = {}
      BY <3>3, ReachAtStart
    <3> QED
      BY <2>1, <3>2, <3>4 DEF Reading
  <2> QED
    BY <2>1, <2>2, <2>3 DEF PassInv, page
<1>2. CASE RequestStop
  <2>1. /\ UNCHANGED <<service, pages, offset, found, total, passed, still, hollow, now>>
        /\ pc' = pc \/ (pc = "await" /\ pc' = "page")
    BY <1>2 DEF RequestStop, page, seen
  <2> QED
    BY <2>1 DEF PassInv, Reading, Reach, service
<1>3. CASE Fault
  <2>1. /\ UNCHANGED <<service, pages, offset, found, total, still, hollow, now>>
        /\ UNCHANGED <<pc, passed>> \/ (pc' = "judge" /\ ~passed')
    BY <1>3 DEF Fault, EndPass, page, seen
  <2> QED
    BY <2>1 DEF PassInv, Reading, Reach, service
<1>4. CASE BrowserDies
  BY <1>4 DEF BrowserDies, Finish, PassInv
<1>5. CASE Cancel
  BY <1>5 DEF Cancel, Finish, PassInv
<1>6. CASE Page
  <2> SUFFICES ASSUME still', ~hollow'
               PROVE  /\ pc' \in {"page", "await"} => Reading'
                      /\ pc' = "await" => pages' = 0
                      /\ pc' = "judge" /\ passed' => found' = now'
    BY DEF PassInv
  <2>1. PICK got \in {Answer(offset)} \cup (IF used.faults < MaxFaults THEN {<<>>} ELSE {}) :
          /\ hollow' = (hollow \/ got # Answer(offset))
          /\ Take(got)
          /\ IF Loops(got) THEN EndPass(FALSE)
             ELSE IF LastPage(got, found \cup ToSet(got))
               THEN EndPass(Whole /\ ~(client = "stripchat"
                                       /\ offset + PageSize < Len(feed)))
             ELSE UNCHANGED <<pc, passed>>
    BY <1>6 DEF Page
  <2>2. got = Answer(offset) /\ pc = "page"
    BY <1>6, <2>1 DEF Page
  <2>3. /\ Reading'
        /\ LastPage(got, found \cup ToSet(got)) /\ (client = "stripchat" => found # {})
             => found' = now'
    BY <1>6, <2>1, <2>2, PageReads DEF TypeInv
  <2>4. CASE Loops(got)
    BY <2>1, <2>3, <2>4 DEF EndPass
  <2>5. CASE ~Loops(got) /\ LastPage(got, found \cup ToSet(got))
    <3>1. /\ pc' = "judge"
          /\ passed' = (Whole /\ ~(client = "stripchat" /\ offset + PageSize < Len(feed)))
      BY <2>1, <2>5 DEF EndPass
    <3>2. passed' => Whole
      BY <3>1
    <3>3. passed' => (client = "stripchat" => found # {})
      BY <3>2 DEF Whole
    <3> QED
      BY <2>3, <2>5, <3>1, <3>3
  <2>6. CASE ~Loops(got) /\ ~LastPage(got, found \cup ToSet(got))
    BY <2>1, <2>2, <2>3, <2>6
  <2> QED
    BY <2>4, <2>5, <2>6
<1>7. CASE CapPages
  BY <1>7 DEF CapPages, EndPass, PassInv
<1>8. CASE Await
  <2>1. /\ UNCHANGED <<service, pages, offset, found, total, passed, still, hollow, now>>
        /\ pc' = pc \/ (pc = "await" /\ pc' = "page")
    BY <1>8 DEF Await, page, seen
  <2> QED
    BY <2>1 DEF PassInv, Reading, Reach, service
<1>9. CASE JudgeStripchat
  <2>a. UNCHANGED service
    BY <1>9 DEF JudgeStripchat
  <2>1. CASE Goes
    <3>1. TypeInv'
      BY <1>9, TypeSteps DEF Next, Step
    <3>2. Reading' /\ pages' = 0 /\ pc' \in {"page", "await"}
      BY <2>a, <2>1, <3>1, FreshIsReading DEF Goes
    <3> QED
      BY <3>2 DEF PassInv
  <2>2. CASE Ends
    BY <2>2 DEF Ends, Finish, PassInv
  <2> QED
    BY <1>9, <2>1, <2>2, StripchatGoesOrEnds
<1>10. CASE JudgeChaturbate
  <2>a. UNCHANGED service
    BY <1>10 DEF JudgeChaturbate
  <2>1. CASE Goes
    <3>1. TypeInv'
      BY <1>10, TypeSteps DEF Next, Step
    <3>2. Reading' /\ pages' = 0 /\ pc' \in {"page", "await"}
      BY <2>a, <2>1, <3>1, FreshIsReading DEF Goes
    <3> QED
      BY <3>2 DEF PassInv
  <2>2. CASE Ends
    BY <2>2 DEF Ends, Finish, PassInv
  <2> QED
    BY <1>10, <2>1, <2>2, ChaturbateGoesOrEnds
<1>11. CASE Fallback
  <2>1. TypeInv'
    BY <1>11, TypeSteps DEF Next, Step
  <2>2. Reading' /\ pages' = 0 /\ pc' = "page"
    BY <1>11, <2>1, FreshIsReading DEF Fallback
  <2> QED
    BY <2>2 DEF PassInv
<1>12. CASE UNCHANGED vars
  BY <1>12 DEF vars, service, page, seen, Reading, Reach, PassInv
<1> QED
  BY <1>1, <1>2, <1>3, <1>4, <1>5, <1>6, <1>7, <1>8, <1>9, <1>10, <1>11, <1>12
  DEF Next, Step

LEMMA InitPass == Init => PassInv
<1> SUFFICES ASSUME Init PROVE PassInv
  OBVIOUS
<1>1. TypeInv
  BY InitTypes
<1>2. Reach(0) = {}
  BY <1>1, ReachProperties DEF TypeInv
<1> QED
  BY <1>2 DEF Init, PassInv, Reading

\* A pass over a listing that did not move, and whose pages all came, has met
\* exactly who is on it, or it has not succeeded (the ways fetch_pass ends).
THEOREM Passes == Spec => []PassIsExact
<1>1. PassInv => PassIsExact
  BY DEF PassInv, PassIsExact
<1> QED
  BY <1>1, InitPass, PassSteps, InitTypes, TypeSteps, PTL DEF Spec

-----------------------------------------------------------------------------
(* Who is accepted.                                                        *)

\* What a pass has met was on the listing while it ran; nothing left the
\* listing that is counted as having been there all along.
MetInv ==
  /\ found \subseteq now /\ steady \subseteq ToSet(feed) /\ steady \subseteq now
  /\ pc \in {"page", "await"} => ToSet(feed) \subseteq now
  /\ pages = 0 => found = {} /\ offset = 0
  /\ pc = "await" => pages = 0
  /\ calm => still

\* The passes in which a model was in the feed.
Times(m) == {i \in DOMAIN online : m \in online[i]}

\* Nothing is decided before the collection is over.
OpenInv ==
  /\ pc # "done" => status = "none"
  /\ online \in Seq(SUBSET Models) /\ sampled \in Seq(Nat)
  /\ now \subseteq Models /\ begun \in Nat /\ begun <= gen

\* The passes that succeeded in a row, with who was online in each: what the
\* Stripchat client counts in.
WindowInv ==
  client = "stripchat" =>
    /\ Len(online) = Len(recent) /\ Len(sampled) = Len(recent)
    /\ \A i \in 1..Len(recent) : recent[i] \subseteq online[i]
    /\ calm /\ ~hollow => \A i \in 1..Len(recent) : steady \subseteq recent[i]

\* The counters of the Chaturbate client: never more than the passes in which a
\* model was online; one for whoever was there all along once a pass has
\* counted, two once two passes in a row agreed.
HitsInv ==
  client = "chaturbate" =>
    /\ \A m \in Models : hits[m] <= Cardinality(Times(m))
    /\ calm /\ ~hollow =>
         /\ recent # <<>> /\ Last(recent) # {} => \A m \in steady : hits[m] >= 1
         /\ stable >= 1 => \A m \in steady : hits[m] >= 2

\* The generations of the cache the passes have read: each in a later one than
\* those before it, or the client has warned.  Where the last one is still the
\* cache's own, the first page is the one the client remembers.
Before(g) == \A i \in 1..Len(sampled) : sampled[i] < g
Increasing == \A i, j \in 1..Len(sampled) : i < j => sampled[i] < sampled[j]
GenInv ==
  client = "stripchat" /\ ~late /\ used.faults = 0 =>
    /\ Increasing
    /\ pc = "await" => Before(gen) \/ (Before(gen + 1) /\ first = Answer(0))
    /\ pc = "page" /\ pages = 0 => Before(gen)
    /\ pc \in {"page", "judge"} /\ pages > 0 =>
         Before(begun) /\ (begun = gen /\ found # {} => first = Answer(0))
    /\ pc = "page" /\ pages > 0 => offset > 0 /\ found # {}
    /\ pc = "judge" /\ passed => pages > 0 /\ found # {}

\* Two things are counted where there are two.
LEMMA TwoOf ==
  ASSUME NEW S, IsFiniteSet(S)
  PROVE  /\ Cardinality(S) \in Nat
         /\ Cardinality(S) >= 2 <=> \E a, b \in S : a # b
<1>1. Cardinality(S) \in Nat
  BY FS_CardinalityType
<1>2. ASSUME Cardinality(S) >= 2 PROVE \E a, b \in S : a # b
  <2>1. S # {}
    BY <1>2, FS_EmptySet
  <2>2. PICK a \in S : TRUE
    BY <2>1
  <2>3. S # {a}
    BY <1>2, FS_Singleton
  <2> QED
    BY <2>2, <2>3
<1>3. ASSUME NEW a \in S, NEW b \in S, a # b PROVE Cardinality(S) >= 2
  <2>1. IsFiniteSet({a}) /\ Cardinality({a}) = 1
    BY FS_Singleton
  <2>2. b \notin {a}
    BY <1>3
  <2>5. Cardinality({a} \cup {b}) = Cardinality({a}) + 1
    BY <2>1, <2>2, FS_AddElement
  <2>6. Cardinality({a} \cup {b}) = 2
    <3> DEFINE n == Cardinality({a} \cup {b})
               k == Cardinality({a})
    <3>1. n = k + 1 /\ k = 1
      BY <2>1, <2>5
    <3> HIDE DEF n, k
    <3>2. n = 2
      BY <3>1
    <3> QED
      BY <3>2 DEF n
  <2>3. ({a} \cup {b}) \subseteq S
    OBVIOUS
  <2>4. Cardinality({a} \cup {b}) <= Cardinality(S)
    BY <2>3, FS_Subset
  <2> QED
    BY <1>1, <2>6, <2>4
<1> QED
  BY <1>1, <1>2, <1>3

LEMMA DomainIsFinite ==
  ASSUME NEW T, NEW s \in Seq(T), NEW P \in SUBSET DOMAIN s
  PROVE  IsFiniteSet(P) /\ Cardinality(P) \in Nat
<1>1. Len(s) \in Nat /\ DOMAIN s = 1..Len(s)
  OBVIOUS
<1>2. IsFiniteSet(DOMAIN s)
  BY <1>1, FS_Interval
<1> QED
  BY <1>2, FS_Subset, FS_CardinalityType

\* Whatever a page holds is on the listing, or it is empty.
LEMMA AnswerIsListed ==
  ASSUME ServiceTyped, NEW o \in Nat
  PROVE  ToSet(Answer(o)) \subseteq ToSet(feed) /\ ToSet(<<>>) = {}
<1> DEFINE from == IF stuck THEN 0 ELSE o
           to == IF from + PageSize < Len(feed) THEN from + PageSize ELSE Len(feed)
<1>1. /\ from \in Nat /\ to \in Nat /\ to <= Len(feed)
      /\ ToSet(Answer(o)) = {feed[i] : i \in (from + 1)..to}
  BY AnswerShape
<1>2. feed \in Seq(Models) /\ Len(feed) \in Nat
  BY FeedIsSeq
<1>3. ToSet(<<>>) = {}
  BY DEF ToSet
<1> HIDE DEF from, to
<1>4. (from + 1)..to \subseteq 1..Len(feed)
  BY <1>1, <1>2
<1> QED
  BY <1>1, <1>2, <1>3, <1>4 DEF ToSet

\* What a page does to the pass.
LEMMA PageTakes ==
  ASSUME TypeInv, Page
  PROVE  \E got \in {Answer(offset), <<>>} :
           /\ Take(got) /\ got \in Seq(Models) /\ Len(got) \in Nat
           /\ ToSet(got) \subseteq ToSet(feed) /\ ToSet(got) \subseteq Models
           /\ used'.faults = 0 => got = Answer(offset)
           /\ pc' \in {"page", "judge"}
           /\ client = "stripchat" /\ pc' = "page" => got # <<>>
           /\ client = "stripchat" /\ pc' = "judge" /\ passed' => found # {}
<1>1. PICK got \in {Answer(offset)} \cup (IF used.faults < MaxFaults THEN {<<>>} ELSE {}) :
        /\ used' = IF got # Answer(offset) THEN [used EXCEPT !.faults = @ + 1] ELSE used
        /\ Take(got)
        /\ IF Loops(got) THEN EndPass(FALSE)
           ELSE IF LastPage(got, found \cup ToSet(got))
             THEN EndPass(Whole /\ ~(client = "stripchat"
                                     /\ offset + PageSize < Len(feed)))
           ELSE UNCHANGED <<pc, passed>>
  BY DEF Page
<1>2. got \in {Answer(offset), <<>>}
  BY <1>1
<1>3. ServiceTyped /\ offset \in Nat
  BY DEF TypeInv, PageTyped
<1>4. got \in Seq(Models) /\ Len(got) \in Nat
  <2>1. Answer(offset) \in Seq(Models)
    BY <1>3, AnswerTyped
  <2>2. <<>> \in Seq(Models)
    OBVIOUS
  <2>3. got \in Seq(Models)
    BY <1>2, <2>1, <2>2
  <2> QED
    BY <2>3, FewerModels
<1>5. ToSet(got) \subseteq ToSet(feed) /\ ToSet(got) \subseteq Models
  BY <1>2, <1>3, <1>4, AnswerIsListed, FewerModels
<1>6. used'.faults = 0 => got = Answer(offset)
  <2>1. used \in Counters
    BY <1>3 DEF ServiceTyped
  <2>2. [used EXCEPT !.faults = @ + 1].faults = used.faults + 1 /\ used.faults \in Nat
    BY <2>1 DEF Counters
  <2> QED
    BY <1>1, <2>2
<1>7. pc = "page"
  BY DEF Page
<1>8. /\ pc' \in {"page", "judge"}
      /\ client = "stripchat" /\ pc' = "page" => got # <<>>
  BY <1>1, <1>7 DEF EndPass, LastPage
<1>9. client = "stripchat" /\ pc' = "judge" /\ passed' => found # {}
  <2>1. pc' = "judge" => pc' # pc
    BY <1>7
  <2>2. pc' = "judge" /\ passed' => Whole
    BY <1>1, <2>1 DEF EndPass
  <2> QED
    BY <2>2 DEF Whole
<1> QED
  BY <1>1, <1>2, <1>4, <1>5, <1>6, <1>8, <1>9

\* A collection that is over starts again with the browser, or not at all.
LEMMA DoneIsDone ==
  ASSUME pc = "done", [Next]_vars
  PROVE  Fallback \/ UNCHANGED vars
  BY DEF Next, Step, Roll, RequestStop, Fault, BrowserDies, Cancel, Page, CapPages,
         Await, JudgeStripchat, JudgeChaturbate

LEMMA FreshMet ==
  ASSUME TypeInv, MetInv, FreshPage, UNCHANGED <<feed, steady, calm>>
  PROVE  MetInv'
<1>1. /\ found' = {} /\ now' = ToSet(feed) /\ pages' = 0 /\ offset' = 0 /\ still'
  BY DEF FreshPage
<1>2. ToSet(feed') = ToSet(feed)
  OBVIOUS
<1> QED
  BY <1>1, <1>2 DEF MetInv

LEMMA MetSteps == ASSUME TypeInv, MetInv, [Next]_vars PROVE MetInv'
<1>1. CASE Roll
  <2>1. UNCHANGED <<pc, found, pages, offset>> /\ steady' = steady \cap ToSet(feed')
    BY <1>1 DEF Roll, page
  <2>2. CASE pc = "page" /\ pages > 0
    <3>1. now' = now \cup ToSet(feed') /\ ~calm'
      BY <1>1, <2>2 DEF Roll
    <3> QED
      BY <2>1, <2>2, <3>1 DEF MetInv
  <2>3. CASE pc = "judge"
    <3>1. now' = now /\ (calm' => calm) /\ (still => still')
      BY <1>1, <2>3 DEF Roll
    <3> QED
      BY <2>1, <2>3, <3>1 DEF MetInv
  <2>4. CASE pc # "judge" /\ ~(pc = "page" /\ pages > 0)
    <3>1. now' = ToSet(feed') /\ (calm' => calm) /\ (still => still')
      BY <1>1, <2>4 DEF Roll
    <3>2. pages = 0
      BY <1>1, <2>4 DEF Roll, MetInv, TypeInv, ClientTyped, PageTyped
    <3> QED
      BY <2>1, <3>1, <3>2 DEF MetInv
  <2> QED
    BY <2>2, <2>3, <2>4
<1>2. CASE RequestStop
  BY <1>2 DEF RequestStop, service, page, seen, MetInv
<1>3. CASE Fault
  BY <1>3 DEF Fault, EndPass, service, seen, MetInv
<1>4. CASE BrowserDies
  BY <1>4 DEF BrowserDies, Finish, service, page, MetInv
<1>5. CASE Cancel
  BY <1>5 DEF Cancel, Finish, service, page, MetInv
<1>6. CASE Page
  <2>1. PICK got \in {Answer(offset), <<>>} :
          /\ Take(got) /\ ToSet(got) \subseteq ToSet(feed)
          /\ pc' \in {"page", "judge"}
    BY <1>6, PageTakes
  <2>2. found' = found \cup ToSet(got) /\ pages' = pages + 1 /\ pages \in Nat
    BY <2>1 DEF Take, TypeInv, PageTyped
  <2>3. UNCHANGED <<feed, steady, calm, still, now>> /\ pc = "page"
    BY <1>6 DEF Page, service
  <2>4. ToSet(feed') = ToSet(feed)
    BY <2>3
  <2> QED
    BY <2>1, <2>2, <2>3, <2>4 DEF MetInv
<1>7. CASE CapPages
  BY <1>7 DEF CapPages, EndPass, service, page, seen, MetInv
<1>8. CASE Await
  BY <1>8 DEF Await, service, page, seen, MetInv
<1>9. CASE JudgeStripchat
  <2>a. UNCHANGED <<feed, steady, calm>>
    BY <1>9 DEF JudgeStripchat, service
  <2>1. CASE Goes
    BY <2>a, <2>1, FreshMet DEF Goes
  <2>2. CASE Ends
    BY <2>a, <2>2 DEF Ends, Finish, page, MetInv
  <2> QED
    BY <1>9, <2>1, <2>2, StripchatGoesOrEnds
<1>10. CASE JudgeChaturbate
  <2>a. UNCHANGED <<feed, steady, calm>>
    BY <1>10 DEF JudgeChaturbate, service
  <2>1. CASE Goes
    BY <2>a, <2>1, FreshMet DEF Goes
  <2>2. CASE Ends
    BY <2>a, <2>2 DEF Ends, Finish, page, MetInv
  <2> QED
    BY <1>10, <2>1, <2>2, ChaturbateGoesOrEnds
<1>11. CASE Fallback
  <2>a. UNCHANGED <<feed, steady, calm>> /\ FreshPage
    BY <1>11 DEF Fallback, service
  <2> QED
    BY <2>a, FreshMet
<1>12. CASE UNCHANGED vars
  BY <1>12 DEF vars, service, page, seen, MetInv
<1> QED
  BY <1>1, <1>2, <1>3, <1>4, <1>5, <1>6, <1>7, <1>8, <1>9, <1>10, <1>11, <1>12
  DEF Next, Step

LEMMA OpenSteps == ASSUME TypeInv, OpenInv, [Next]_vars PROVE OpenInv'
<1>0. TypeInv' /\ ToSet(feed) \subseteq Models /\ ToSet(feed') \subseteq Models
  <2>1. TypeInv'
    BY TypeSteps
  <2>2. feed \in Seq(Models) /\ feed' \in Seq(Models)
    BY <2>1 DEF TypeInv, ServiceTyped
  <2> QED
    BY <2>1, <2>2, FewerModels
<1>a. gen \in Nat /\ pages \in Nat
  BY DEF TypeInv, PageTyped, ServiceTyped, Counters
<1>1. CASE Roll
  <2>1. now' \in {now, now \cup ToSet(feed'), ToSet(feed')}
    BY <1>1 DEF Roll
  <2>2. begun' \in Nat /\ begun' <= gen'
    BY <1>a, <1>1 DEF Roll, OpenInv
  <2> QED
    BY <1>0, <1>1, <2>1, <2>2 DEF Roll, agreed, result, OpenInv
<1>2. CASE RequestStop
  BY <1>2 DEF RequestStop, service, agreed, result, seen, OpenInv
<1>3. CASE Fault
  BY <1>3 DEF Fault, EndPass, service, agreed, result, seen, OpenInv
<1>4. CASE BrowserDies
  BY <1>4 DEF BrowserDies, Finish, service, agreed, OpenInv
<1>5. CASE Cancel
  BY <1>5 DEF Cancel, Finish, service, agreed, OpenInv
<1>6. CASE Page
  <2>1. pc = "page" /\ UNCHANGED <<agreed, result, now, gen>>
    BY <1>6 DEF Page, service
  <2>2. begun' \in {begun, gen}
    BY <1>6, PageTakes DEF Take
  <2>3. begun' \in Nat /\ begun' <= gen'
    BY <1>a, <2>1, <2>2 DEF OpenInv
  <2> QED
    BY <2>1, <2>3 DEF agreed, result, OpenInv
<1>7. CASE CapPages
  BY <1>7 DEF CapPages, EndPass, service, agreed, result, seen, OpenInv
<1>8. CASE Await
  BY <1>8 DEF Await, service, agreed, result, seen, OpenInv
<1>9. CASE JudgeStripchat
  <2>1. online' \in Seq(SUBSET Models) /\ sampled' \in Seq(Nat)
    BY <1>9 DEF JudgeStripchat, OpenInv
  <2>2. CASE Goes
    BY <1>0, <1>9, <2>1, <2>2 DEF Goes, FreshPage, JudgeStripchat, service, result, OpenInv
  <2>3. CASE Ends
    BY <1>9, <2>1, <2>3 DEF Ends, Finish, JudgeStripchat, service, OpenInv
  <2> QED
    BY <1>9, <2>2, <2>3, StripchatGoesOrEnds
<1>10. CASE JudgeChaturbate
  <2>1. online' \in Seq(SUBSET Models) /\ sampled' \in Seq(Nat)
    BY <1>10 DEF JudgeChaturbate, OpenInv
  <2>2. CASE Goes
    BY <1>0, <1>10, <2>1, <2>2 DEF Goes, FreshPage, JudgeChaturbate, service, result, OpenInv
  <2>3. CASE Ends
    BY <1>10, <2>1, <2>3 DEF Ends, Finish, JudgeChaturbate, service, OpenInv
  <2> QED
    BY <1>10, <2>2, <2>3, ChaturbateGoesOrEnds
<1>11. CASE Fallback
  BY <1>0, <1>11 DEF Fallback, FreshPage, service, OpenInv
<1>12. CASE UNCHANGED vars
  BY <1>12 DEF vars, service, agreed, result, seen, OpenInv
<1> QED
  BY <1>1, <1>2, <1>3, <1>4, <1>5, <1>6, <1>7, <1>8, <1>9, <1>10, <1>11, <1>12
  DEF Next, Step

\* A row of passes does not change before the pass that runs is judged, but
\* who was on the listing all along can only become fewer.
Keeps == UNCHANGED <<client, agreed>> /\ steady' \subseteq steady
         /\ (calm' /\ ~hollow' => calm /\ ~hollow)

LEMMA OthersKeep ==
  ASSUME [Next]_vars, ~JudgeStripchat, ~JudgeChaturbate
  PROVE  Keeps \/ Fallback
<1>1. CASE Roll
  BY <1>1 DEF Roll, Keeps
<1>2. CASE RequestStop
  BY <1>2 DEF RequestStop, seen, Keeps
<1>3. CASE Fault
  BY <1>3 DEF Fault, seen, Keeps
<1>4. CASE BrowserDies
  BY <1>4 DEF BrowserDies, Keeps
<1>5. CASE Cancel
  BY <1>5 DEF Cancel, Keeps
<1>6. CASE Page
  <2>1. /\ UNCHANGED <<client, agreed, calm, steady>>
        /\ \E empty \in BOOLEAN : hollow' = (hollow \/ empty)
    BY <1>6 DEF Page
  <2> QED
    BY <2>1 DEF Keeps
<1>7. CASE CapPages
  BY <1>7 DEF CapPages, seen, Keeps
<1>8. CASE Await
  BY <1>8 DEF Await, seen, Keeps
<1>9. CASE UNCHANGED vars
  BY <1>9 DEF vars, seen, Keeps
<1> QED
  BY <1>1, <1>2, <1>3, <1>4, <1>5, <1>6, <1>7, <1>8, <1>9 DEF Next, Step

\* A pass that succeeds while nothing moved has met whoever was there all along.
LEMMA SteadyIsMet ==
  ASSUME PassInv, MetInv, pc = "judge", passed, calm, ~hollow
  PROVE  steady \subseteq found
  BY DEF PassInv, MetInv

LEMMA WindowSteps ==
  ASSUME TypeInv, PassInv, MetInv, OpenInv, WindowInv, [Next]_vars
  PROVE  WindowInv'
<1>1. CASE JudgeStripchat
  <2>1. /\ pc = "judge" /\ UNCHANGED <<client, calm, hollow, steady>>
        /\ client = "stripchat"
        /\ recent' = IF passed THEN Append(recent, found) ELSE <<>>
        /\ online' = IF passed THEN Append(online, now) ELSE <<>>
        /\ sampled' = IF passed THEN Append(sampled, begun) ELSE <<>>
    BY <1>1 DEF JudgeStripchat
  <2>2. CASE ~passed
    BY <2>1, <2>2 DEF WindowInv
  <2>3. CASE passed
    <3>1. /\ recent \in Seq(SUBSET Models) /\ online \in Seq(SUBSET Models)
          /\ sampled \in Seq(Nat)
          /\ found \in SUBSET Models /\ now \in SUBSET Models /\ begun \in Nat
      BY DEF TypeInv, AgreedTyped, PageTyped, OpenInv
    <3>2. Len(online) = Len(recent) /\ Len(sampled) = Len(recent) /\ Len(recent) \in Nat
      BY <2>1, <3>1 DEF WindowInv
    <3>3. /\ Len(recent') = Len(recent) + 1 /\ Len(online') = Len(recent) + 1
          /\ Len(sampled') = Len(recent) + 1
      BY <2>1, <2>3, <3>1, <3>2
    <3>4. /\ \A i \in 1..Len(recent) : recent'[i] = recent[i] /\ online'[i] = online[i]
          /\ recent'[Len(recent) + 1] = found /\ online'[Len(recent) + 1] = now
      BY <2>1, <2>3, <3>1, <3>2
    <3>5. \A i \in 1..(Len(recent) + 1) : i \in 1..Len(recent) \/ i = Len(recent) + 1
      BY <3>2
    <3>6. \A i \in 1..Len(recent') : recent'[i] \subseteq online'[i]
      BY <2>1, <3>3, <3>4, <3>5 DEF WindowInv, MetInv
    <3>7. calm' /\ ~hollow' => \A i \in 1..Len(recent') : steady' \subseteq recent'[i]
      BY <2>1, <2>3, <3>3, <3>4, <3>5, SteadyIsMet DEF WindowInv
    <3> QED
      BY <3>3, <3>6, <3>7 DEF WindowInv
  <2> QED
    BY <2>2, <2>3
<1>2. CASE JudgeChaturbate
  BY <1>2 DEF JudgeChaturbate, WindowInv
<1>3. CASE Fallback
  BY <1>3 DEF Fallback, WindowInv
<1>4. CASE Keeps
  BY <1>4 DEF WindowInv, Keeps, agreed
<1> QED
  BY <1>1, <1>2, <1>3, <1>4, OthersKeep

LEMMA HitsSteps ==
  ASSUME TypeInv, PassInv, MetInv, OpenInv, HitsInv, [Next]_vars
  PROVE  HitsInv'
<1>1. CASE JudgeChaturbate /\ client = "chaturbate"
  <2>1. /\ pc = "judge" /\ UNCHANGED <<client, calm, hollow, steady>>
        /\ recent' = IF Counted THEN <<found>> ELSE IF passed THEN <<{}>> ELSE <<>>
        /\ hits' = IF Counted THEN [m \in Models |-> hits[m] + IF m \in found THEN 1 ELSE 0]
                   ELSE hits
        /\ online' = IF passed THEN Append(online, now) ELSE online
        /\ stable' = IF Counted /\ recent # <<>> /\ Agree(Last(recent), found)
                     THEN stable + 1 ELSE 0
    BY <1>1 DEF JudgeChaturbate
  <2>2. /\ online \in Seq(SUBSET Models) /\ Len(online) \in Nat
        /\ found \in SUBSET Models /\ now \in SUBSET Models /\ found \subseteq now
        /\ steady \subseteq now
    BY DEF TypeInv, PageTyped, OpenInv, MetInv
  <2>3. \A m \in Models : hits[m] \in Nat /\ hits[m] <= Cardinality(Times(m))
    BY <1>1 DEF TypeInv, AgreedTyped, HitsInv
  <2>4. ASSUME NEW m \in Models PROVE hits'[m] <= Cardinality(Times(m)')
    <3>1. IsFiniteSet(Times(m)) /\ Cardinality(Times(m)) \in Nat
      BY <2>2, DomainIsFinite DEF Times
    <3>2. CASE ~passed
      BY <2>1, <2>3, <2>4, <3>2 DEF Times, Counted
    <3>3. CASE passed
      <4>1. /\ DOMAIN online' = 1..(Len(online) + 1) /\ DOMAIN online = 1..Len(online)
            /\ \A i \in 1..Len(online) : online'[i] = online[i]
            /\ online'[Len(online) + 1] = now
        BY <2>1, <2>2, <3>3
      <4>2. \A i \in 1..(Len(online) + 1) : i \in 1..Len(online) \/ i = Len(online) + 1
        BY <2>2
      <4>3. Len(online) + 1 \notin Times(m) /\ Len(online) + 1 \in 1..(Len(online) + 1)
            /\ 1..Len(online) \subseteq 1..(Len(online) + 1)
        BY <2>2, <4>1 DEF Times
      <4>4. CASE m \in now
        <5>1. Times(m)' = Times(m) \cup {Len(online) + 1}
          BY <4>1, <4>2, <4>3, <4>4 DEF Times
        <5>2. Cardinality(Times(m)') = Cardinality(Times(m)) + 1
          BY <3>1, <4>3, <5>1, FS_AddElement
        <5>3. hits'[m] <= hits[m] + 1
          BY <2>1, <2>3, <2>4
        <5>4. hits'[m] \in Nat
          BY <2>1, <2>3, <2>4
        <5> QED
          BY <2>3, <2>4, <3>1, <5>2, <5>3, <5>4
      <4>5. CASE m \notin now
        <5>1. Times(m)' = Times(m)
          BY <4>1, <4>2, <4>3, <4>5 DEF Times
        <5>2. m \notin found
          BY <2>2, <4>5
        <5>3. hits'[m] = hits[m]
          BY <2>1, <2>3, <2>4, <5>2
        <5> QED
          BY <2>3, <2>4, <5>1, <5>3
      <4> QED
        BY <4>4, <4>5
    <3> QED
      BY <3>2, <3>3
  <2>5. ASSUME calm', ~hollow'
        PROVE  /\ recent' # <<>> /\ Last(recent') # {} => \A m \in steady' : hits'[m] >= 1
               /\ stable' >= 1 => \A m \in steady' : hits'[m] >= 2
    <3>1. calm /\ ~hollow
      BY <2>1, <2>5
    <3>2. CASE ~Counted
      <4>1. ~(stable' >= 1)
        BY <2>1, <3>2
      <4>2. recent' # <<>> => Last(recent') = {}
        BY <2>1, <3>2 DEF Last
      <4> QED
        BY <4>1, <4>2
    <3>3. CASE Counted
      <4>1. steady \subseteq found
        BY <2>1, <3>1, <3>3, SteadyIsMet DEF Counted
      <4>2. \A m \in steady : m \in Models /\ m \in found
        BY <2>2, <4>1
      <4>3. \A m \in steady : hits'[m] = hits[m] + 1
        BY <2>1, <3>3, <4>2
      <4>4. \A m \in steady' : hits'[m] >= 1
        BY <2>1, <2>3, <4>2, <4>3
      <4>5. stable' >= 1 => recent # <<>> /\ Last(recent) # {}
        BY <2>1 DEF Agree
      <4>6. stable' >= 1 => \A m \in steady : hits[m] >= 1
        BY <1>1, <3>1, <4>5 DEF HitsInv
      <4>7. stable' >= 1 => \A m \in steady' : hits'[m] >= 2
        BY <2>1, <2>3, <4>2, <4>3, <4>6
      <4> QED
        BY <4>4, <4>7
    <3> QED
      BY <3>2, <3>3
  <2> QED
    BY <2>4, <2>5 DEF HitsInv
<1>2. CASE JudgeChaturbate /\ client # "chaturbate"
  BY <1>2 DEF JudgeChaturbate, HitsInv
<1>3. CASE JudgeStripchat
  BY <1>3 DEF JudgeStripchat, HitsInv
<1>4. CASE Fallback
  BY <1>4 DEF Fallback, HitsInv
<1>5. CASE Keeps
  <2>1. \A m : Times(m)' = Times(m)
    BY <1>5 DEF Times, Keeps, agreed
  <2> QED
    BY <1>5, <2>1 DEF HitsInv, Keeps, agreed
<1> QED
  BY <1>1, <1>2, <1>3, <1>4, <1>5, OthersKeep

\* The generation a pass reads, page by page.
LEMMA GenPage ==
  ASSUME TypeInv, MetInv, OpenInv, GenInv, Page, client = "stripchat", ~late, used'.faults = 0
  PROVE  GenInv'
<1>1. PICK got \in {Answer(offset), <<>>} :
        /\ Take(got) /\ got \in Seq(Models) /\ Len(got) \in Nat
        /\ got = Answer(offset) /\ pc' \in {"page", "judge"}
        /\ pc' = "page" => got # <<>>
        /\ pc' = "judge" /\ passed' => found # {}
  BY PageTakes
<1>2. /\ pc = "page" /\ UNCHANGED <<client, gen, feed, stuck, sampled, late>>
  BY DEF Page, service, agreed
<1>3. used.faults = 0
  <2>1. used' = used \/ used' = [used EXCEPT !.faults = @ + 1]
    BY DEF Page
  <2>2. used \in Counters
    BY DEF TypeInv, ServiceTyped
  <2>3. [used EXCEPT !.faults = @ + 1].faults = used.faults + 1 /\ used.faults \in Nat
    BY <2>2 DEF Counters
  <2>4. used'.faults = used.faults \/ used'.faults = used.faults + 1
    <3>1. CASE used' = used
      BY <3>1
    <3>2. CASE used' = [used EXCEPT !.faults = @ + 1]
      <4>1. used'.faults = [used EXCEPT !.faults = @ + 1].faults
        BY <3>2, Zenon
      <4> QED
        BY <2>3, <4>1, Zenon
    <3> QED
      BY <2>1, <3>1, <3>2
  <2> QED
    BY <2>3, <2>4
<1>4. /\ Increasing
      /\ pages = 0 => Before(gen)
      /\ pages > 0 => /\ Before(begun) /\ (begun = gen /\ found # {} => first = Answer(0))
                      /\ offset > 0 /\ found # {}
  BY <1>2, <1>3 DEF GenInv
<1>5. pages \in Nat /\ offset \in Nat
  BY DEF TypeInv, PageTyped
<1>6. /\ found' = found \cup ToSet(got) /\ pages' = pages + 1 /\ offset' = offset + Len(got)
      /\ first' = IF offset = 0 /\ got # <<>> THEN got ELSE first
      /\ begun' = IF pages = 0 THEN gen ELSE begun
  BY <1>1 DEF Take
<1>7. Answer(0)' = Answer(0) /\ Increasing' = Increasing
  BY <1>2 DEF Answer, Increasing
<1>8. Before(begun)'
  BY <1>2, <1>4, <1>5, <1>6 DEF Before
<1>9. begun' = gen /\ found' # {} => first' = Answer(0)
  <2>1. CASE pages = 0
    <3>1. offset = 0 /\ found = {}
      BY <2>1 DEF MetInv
    <3>2. got = <<>> => found' = {}
      BY <1>6, <3>1 DEF ToSet
    <3> QED
      BY <1>1, <1>6, <3>1, <3>2
  <2>2. CASE pages > 0
    <3>1. first' = first /\ begun' = begun /\ found # {}
      BY <1>4, <1>6, <2>2
    <3> QED
      BY <1>4, <2>2, <3>1
  <2> QED
    BY <1>5, <2>1, <2>2
<1>10. pages' > 0 /\ ~(pages' = 0)
  BY <1>5, <1>6
<1>11. pc' = "page" => offset' > 0 /\ found' # {}
  <2> SUFFICES ASSUME pc' = "page" PROVE offset' > 0 /\ found' # {}
    OBVIOUS
  <2>1. Len(got) > 0
    BY <1>1
  <2>2. got[1] \in ToSet(got)
    BY <1>1, <2>1 DEF ToSet
  <2> QED
    BY <1>1, <1>5, <1>6, <2>1, <2>2
<1>12. pc' = "judge" /\ passed' => found' # {}
  BY <1>1, <1>6
<1> QED
  BY <1>1, <1>2, <1>4, <1>7, <1>8, <1>9, <1>10, <1>11, <1>12 DEF GenInv, Before

LEMMA GenJudge ==
  ASSUME TypeInv, WindowInv, OpenInv, GenInv, JudgeStripchat
  PROVE  GenInv'
<1> SUFFICES ASSUME ~late, used.faults = 0 PROVE GenInv'
  BY DEF JudgeStripchat, GenInv
<1>1. /\ pc = "judge" /\ client = "stripchat"
      /\ UNCHANGED <<client, gen, feed, stuck, late, used, first>>
      /\ sampled' = IF passed THEN Append(sampled, begun) ELSE <<>>
      /\ pc' \in {"await", "done"}
  BY DEF JudgeStripchat, service, NextPass, Finish
<1>2. /\ Increasing
      /\ passed => Before(begun) /\ (begun = gen => first = Answer(0))
  BY <1>1 DEF GenInv
<1>3. sampled \in Seq(Nat) /\ begun \in Nat /\ begun <= gen /\ gen \in Nat
  BY DEF OpenInv, TypeInv, ServiceTyped, Counters
<1>4. Answer(0)' = Answer(0)
  BY <1>1 DEF Answer
<1>5. CASE ~passed
  <2>1. sampled' = <<>>
    BY <1>1, <1>5
  <2>2. Increasing' /\ Before(gen)'
    BY <2>1 DEF Increasing, Before
  <2> QED
    BY <1>1, <2>2 DEF GenInv
<1>6. CASE passed
  <2>1. /\ Len(sampled) \in Nat /\ Len(sampled') = Len(sampled) + 1
        /\ \A i \in 1..Len(sampled) : sampled'[i] = sampled[i] /\ sampled[i] \in Nat
        /\ sampled'[Len(sampled) + 1] = begun
    BY <1>1, <1>3, <1>6
  <2>2. \A i \in 1..(Len(sampled) + 1) : i \in 1..Len(sampled) \/ i = Len(sampled) + 1
    BY <2>1
  <2>3. Increasing'
    <3> SUFFICES ASSUME NEW i \in 1..(Len(sampled) + 1), NEW j \in 1..(Len(sampled) + 1), i < j
                 PROVE  sampled'[i] < sampled'[j]
      BY <2>1 DEF Increasing
    <3>1. i \in 1..Len(sampled)
      BY <2>1
    <3>2. CASE j \in 1..Len(sampled)
      BY <1>2, <2>1, <3>1, <3>2 DEF Increasing
    <3>3. CASE j = Len(sampled) + 1
      BY <1>2, <1>6, <2>1, <3>1, <3>3 DEF Before
    <3> QED
      BY <2>2, <3>2, <3>3
  <2>4. \A i \in 1..(Len(sampled) + 1) : sampled'[i] <= begun
    <3> SUFFICES ASSUME NEW i \in 1..(Len(sampled) + 1) PROVE sampled'[i] <= begun
      OBVIOUS
    <3>1. CASE i \in 1..Len(sampled)
      BY <1>2, <1>3, <1>6, <2>1, <3>1 DEF Before
    <3>2. CASE i = Len(sampled) + 1
      BY <1>3, <2>1, <3>2
    <3> QED
      BY <2>2, <3>1, <3>2
  <2>5. \A i \in 1..(Len(sampled) + 1) : sampled'[i] \in Nat
    BY <1>3, <2>1, <2>2
  <2>6. Before(gen)' \/ (Before(gen + 1)' /\ first' = Answer(0)')
    <3>1. CASE begun = gen
      <4>1. Before(gen + 1)'
        BY <1>1, <1>3, <2>1, <2>4, <2>5 DEF Before
      <4> QED
        BY <1>1, <1>2, <1>4, <1>6, <3>1, <4>1
    <3>2. CASE begun < gen
      BY <1>1, <1>3, <2>1, <2>4, <2>5, <3>2 DEF Before
    <3> QED
      BY <1>3, <3>1, <3>2
  <2> QED
    BY <1>1, <2>3, <2>6 DEF GenInv
<1> QED
  BY <1>5, <1>6

LEMMA GenSteps ==
  ASSUME TypeInv, MetInv, WindowInv, OpenInv, GenInv, [Next]_vars
  PROVE  GenInv'
<1> SUFFICES ASSUME client' = "stripchat", ~late', used'.faults = 0 PROVE GenInv'
  BY DEF GenInv
<1>0. /\ gen \in Nat /\ begun \in Nat /\ begun <= gen /\ sampled \in Seq(Nat)
      /\ pages \in Nat
      /\ \A i \in 1..Len(sampled) : sampled[i] \in Nat
  BY DEF TypeInv, ServiceTyped, PageTyped, OpenInv, Counters
<1>a. used \in Counters
  BY DEF TypeInv, ServiceTyped
<1>b. /\ [used EXCEPT !.faults = @ + 1].faults # 0
      /\ [used EXCEPT !.rolls = @ + 1].faults = used.faults
  BY <1>a DEF Counters
<1>1. CASE Roll
  <2>1. /\ used.faults = 0 /\ pc' = pc /\ UNCHANGED <<client, late, page, passed, begun, sampled>>
        /\ gen' = gen + 1
    BY <1>1, <1>b DEF Roll, agreed
  <2>2. GenInv /\ client = "stripchat" /\ ~late
    BY <2>1
  <2>3. Increasing' = Increasing
    BY <2>1 DEF Increasing
  <2>4. Before(gen) => Before(gen)'
    BY <1>0, <2>1 DEF Before
  <2>5. Before(gen + 1) => Before(gen)'
    BY <2>1 DEF Before
  <2>6. Before(begun) => Before(begun)'
    BY <2>1 DEF Before
  <2>7. begun' # gen'
    BY <1>0, <2>1
  <2> QED
    BY <2>1, <2>2, <2>3, <2>4, <2>5, <2>6, <2>7 DEF GenInv, page, Before
<1>2. CASE RequestStop
  BY <1>2 DEF RequestStop, service, page, agreed, seen, GenInv, Increasing, Before, Answer
<1>3. CASE Fault
  BY <1>3, <1>b DEF Fault
<1>4. CASE BrowserDies
  BY <1>4, <1>b DEF BrowserDies
<1>5. CASE Cancel
  BY <1>5 DEF Cancel, Finish, service, page, agreed, GenInv, Increasing, Before, Answer
<1>6. CASE Page
  BY <1>6, GenPage DEF Page
<1>7. CASE CapPages
  BY <1>7
  DEF CapPages, EndPass, service, page, agreed, seen, GenInv, Increasing, Before, Answer
<1>8. CASE Await
  <2>1. /\ pc = "await" /\ pc' = "page" /\ ~late /\ Answer(0) # first
        /\ UNCHANGED <<service, client, page, sampled, used, begun, passed>>
    BY <1>8 DEF Await, agreed, seen
  <2>2. pages = 0
    BY <2>1 DEF MetInv
  <2>3. Before(gen) /\ Increasing
    BY <2>1 DEF GenInv
  <2>4. Before(gen)' = Before(gen) /\ Increasing' = Increasing
    BY <2>1 DEF service, Before, Increasing
  <2> QED
    BY <2>1, <2>2, <2>3, <2>4 DEF page, GenInv
<1>9. CASE JudgeStripchat
  BY <1>9, GenJudge
<1>10. CASE JudgeChaturbate
  BY <1>10 DEF JudgeChaturbate
<1>11. CASE Fallback
  BY <1>11 DEF Fallback
<1>12. CASE UNCHANGED vars
  BY <1>12 DEF vars, service, page, agreed, seen, GenInv, Increasing, Before, Answer
<1> QED
  BY <1>1, <1>2, <1>3, <1>4, <1>5, <1>6, <1>7, <1>8, <1>9, <1>10, <1>11, <1>12
  DEF Next, Step

\* What the Stripchat client accepts: whoever two passes of its window have met.
LEMMA StripchatAccepts ==
  ASSUME TypeInv, PassInv, MetInv, OpenInv, WindowInv, GenInv, JudgeStripchat,
         status' = "succeeded", TypeInv', OpenInv', WindowInv', GenInv'
  PROVE  AcceptsWhoIsOnline'
<1> DEFINE k == MinPasses[client]
           n == Len(recent')
           w == SubSeq(recent', n - k + 1, n)
<1>1. /\ client' = "stripchat" /\ client' = client
      /\ n >= k /\ k > StablePairs /\ accepted' = {m \in Models : InWindow(w, m) >= 2}
  <2>1. pc # "done" /\ status = "none"
    BY DEF JudgeStripchat, OpenInv
  <2>2. ~NextPass
    BY <2>1 DEF NextPass, result
  <2> QED
    BY <2>2 DEF JudgeStripchat, Finish
<1>2. k \in Nat /\ k >= 2 /\ n \in Nat
  <2>1. recent' \in Seq(SUBSET Models)
    BY DEF TypeInv, AgreedTyped
  <2>2. client \in Clients \cup {"browser"}
    BY DEF TypeInv, ClientTyped
  <2> QED
    BY <1>1, <2>1, <2>2
<1>3. /\ w \in Seq(SUBSET Models) /\ DOMAIN w = 1..k
      /\ \A i \in 1..k : n - k + i \in 1..n /\ w[i] = recent'[n - k + i]
  <2>1. recent' \in Seq(SUBSET Models)
    BY DEF TypeInv, AgreedTyped
  <2>2. n - k + 1 \in 1..(n + 1)
    BY <1>1, <1>2
  <2>3. w \in Seq(SUBSET Models) /\ Len(w) = k
    BY <1>1, <1>2, <2>1
  <2>4. \A i \in 1..k : n - k + i \in 1..n /\ w[i] = recent'[n - k + i]
    BY <1>1, <1>2, <2>1
  <2> QED
    BY <2>3, <2>4
<1> HIDE DEF w
<1>4. Len(online') = n /\ Len(sampled') = n /\ DOMAIN online' = 1..n
  BY <1>1 DEF WindowInv, OpenInv
<1>5. ASSUME NEW m \in accepted'
      PROVE  Cardinality({i \in DOMAIN online' : m \in online'[i]}) >= 2
  <2> DEFINE P == {i \in DOMAIN w : m \in w[i]}
             Q == {i \in DOMAIN online' : m \in online'[i]}
  <2>1. IsFiniteSet(P) /\ Cardinality(P) >= 2
    BY <1>1, <1>3, <1>5, DomainIsFinite DEF InWindow
  <2>2. PICK a \in P, b \in P : a # b
    BY <2>1, TwoOf
  <2>3. \A i \in P : n - k + i \in Q
    BY <1>1, <1>3, <1>4 DEF WindowInv
  <2>4. a \in Nat /\ b \in Nat
    BY <1>3
  <2>5. n - k + a # n - k + b
    BY <1>2, <2>2, <2>4
  <2>6. online' \in Seq(SUBSET Models)
    BY DEF OpenInv
  <2>7. IsFiniteSet(Q)
    BY <2>6, DomainIsFinite
  <2> QED
    BY <2>3, <2>5, <2>7, TwoOf
<1>6. ASSUME calm', ~hollow', NEW m \in steady' PROVE m \in accepted'
  <2> DEFINE P == {i \in DOMAIN w : m \in w[i]}
  <2>1. 1 \in P /\ 2 \in P
    <3>1. 1 \in 1..k /\ 2 \in 1..k
      BY <1>2
    <3> QED
      BY <1>1, <1>3, <1>6, <3>1 DEF WindowInv
  <2>2. IsFiniteSet(P)
    BY <1>3, DomainIsFinite
  <2>3. Cardinality(P) >= 2
    <3> HIDE DEF P
    <3>1. \E a, b \in P : a # b
      <4>1. 1 # 2
        OBVIOUS
      <4> QED
        BY <2>1, <4>1
    <3> QED
      BY <2>2, <3>1, TwoOf
  <2>4. m \in Models
    <3>1. w[1] \subseteq Models
      BY <1>2, <1>3
    <3> QED
      BY <2>1, <3>1
  <2> QED
    BY <1>1, <2>3, <2>4 DEF InWindow
<1>7. ASSUME ~late', used'.faults = 0,
             NEW i \in (n - k + 1)..n, NEW j \in (n - k + 1)..n, i # j
      PROVE  sampled'[i] # sampled'[j]
  <2>1. Increasing'
    BY <1>1, <1>7 DEF GenInv
  <2>2. i \in 1..n /\ j \in 1..n /\ (i < j \/ j < i)
    BY <1>1, <1>2, <1>7
  <2>3. sampled'[i] \in Nat /\ sampled'[j] \in Nat
    BY <1>4, <2>2 DEF OpenInv
  <2> QED
    BY <1>4, <2>1, <2>2, <2>3 DEF Increasing
<1> QED
  BY <1>1, <1>4, <1>5, <1>6, <1>7 DEF AcceptsWhoIsOnline

\* What the Chaturbate client accepts: whoever was met twice.
LEMMA ChaturbateAccepts ==
  ASSUME OpenInv, JudgeChaturbate, client = "chaturbate", status' = "succeeded",
         TypeInv', MetInv', OpenInv', HitsInv'
  PROVE  AcceptsWhoIsOnline'
<1>1. client' = "chaturbate" /\ stable' >= 1 /\ accepted' = {m \in Models : hits'[m] >= 2}
  <2>1. pc # "done" /\ status = "none"
    BY DEF JudgeChaturbate, OpenInv
  <2>2. ~NextPass
    BY <2>1 DEF NextPass, result
  <2> QED
    BY <2>2 DEF JudgeChaturbate, Finish
<1>2. ASSUME NEW m \in accepted'
      PROVE  Cardinality({i \in DOMAIN online' : m \in online'[i]}) >= 2
  <2>1. hits'[m] >= 2 /\ hits'[m] <= Cardinality(Times(m)') /\ hits'[m] \in Nat
    BY <1>1, <1>2 DEF HitsInv, TypeInv, AgreedTyped
  <2>2. online' \in Seq(SUBSET Models)
    BY DEF OpenInv
  <2>3. Cardinality(Times(m)') \in Nat
    BY <2>2, DomainIsFinite DEF Times
  <2>4. Cardinality(Times(m)') >= 2
    BY <2>1, <2>3
  <2> QED
    BY <2>4 DEF Times
<1>3. ASSUME calm', ~hollow' PROVE steady' \subseteq accepted'
  <2>1. steady' \subseteq Models
    BY DEF MetInv, OpenInv
  <2> QED
    BY <1>1, <1>3, <2>1 DEF HitsInv
<1> QED
  BY <1>1, <1>2, <1>3 DEF AcceptsWhoIsOnline

AcceptInv == MetInv /\ OpenInv /\ WindowInv /\ HitsInv /\ GenInv /\ AcceptsWhoIsOnline

LEMMA AcceptSteps ==
  ASSUME TypeInv, PassInv, AcceptInv, [Next]_vars
  PROVE  AcceptInv'
<1>1. TypeInv' /\ MetInv' /\ OpenInv' /\ WindowInv' /\ HitsInv' /\ GenInv'
  BY TypeSteps, MetSteps, OpenSteps, WindowSteps, HitsSteps, GenSteps DEF AcceptInv
<1>2. AcceptsWhoIsOnline'
  <2> SUFFICES ASSUME status' = "succeeded", client' # "browser" PROVE AcceptsWhoIsOnline'
    BY DEF AcceptsWhoIsOnline
  <2>1. pc' = "done"
    BY <1>1 DEF OpenInv
  <2>2. CASE pc = "done"
    <3>1. UNCHANGED vars
      BY <2>2, DoneIsDone DEF Fallback
    <3> QED
      BY <3>1 DEF AcceptInv, AcceptsWhoIsOnline, vars, agreed, result, seen
  <2>3. CASE pc # "done"
    <3>1. JudgeStripchat \/ (JudgeChaturbate /\ client = "chaturbate")
      <4>1. status # "succeeded"
        BY <2>3 DEF AcceptInv, OpenInv
      <4>2. ~Roll /\ ~RequestStop /\ ~Fault /\ ~Cancel /\ ~Page /\ ~CapPages /\ ~Await
            /\ ~Fallback /\ ~UNCHANGED vars
        BY <2>3, <4>1 DEF Roll, RequestStop, Fault, Cancel, Finish, Page, CapPages, Await,
                          Fallback, vars, result
      <4>3. ~BrowserDies
        BY DEF BrowserDies
      <4>4. JudgeChaturbate => client' = client
        BY DEF JudgeChaturbate
      <4>5. client \in {"stripchat", "chaturbate", "browser"}
        BY DEF TypeInv, ClientTyped
      <4>6. JudgeChaturbate => client # "stripchat"
        BY DEF JudgeChaturbate
      <4> QED
        BY <4>2, <4>3, <4>4, <4>5, <4>6 DEF Next, Step
    <3> QED
      BY <1>1, <3>1, StripchatAccepts, ChaturbateAccepts DEF AcceptInv
  <2> QED
    BY <2>2, <2>3
<1> QED
  BY <1>1, <1>2 DEF AcceptInv

LEMMA InitAccept == ASSUME Init, TypeInv PROVE AcceptInv
<1>1. feed \in Seq(Models) /\ ToSet(feed) \subseteq Models
  BY FeedIsSeq, FewerModels DEF TypeInv
<1>2. MetInv /\ OpenInv
  BY <1>1 DEF Init, MetInv, OpenInv
<1>3. WindowInv
  BY DEF Init, WindowInv
<1>4. HitsInv
  <2>1. \A m : Times(m) = {}
    BY DEF Init, Times
  <2>2. Cardinality({}) = 0
    BY FS_EmptySet
  <2>3. \A m \in Models : Cardinality(Times(m)) = 0 /\ hits[m] = 0
    BY <2>1, <2>2 DEF Init
  <2>4. \A m \in Models : hits[m] <= Cardinality(Times(m))
    BY <2>3
  <2> QED
    BY <2>4 DEF Init, HitsInv
<1>5. GenInv
  BY DEF Init, GenInv, Increasing, Before
<1> QED
  BY <1>2, <1>3, <1>4, <1>5 DEF Init, AcceptInv, AcceptsWhoIsOnline

\* An API client that succeeds accepts nobody who was not online in two passes
\* that did, and everybody who was online all along, unless the listing moved
\* under a pass; the Stripchat one compares different generations of the cache,
\* unless it warns that the feed did not refresh, or a request failed
\* (collect_snapshot, _await_new_generation, collect_adaptive).
THEOREM Acceptance == Spec => []AcceptsWhoIsOnline
<1>1. Init => TypeInv /\ PassInv /\ AcceptInv
  BY InitTypes, InitPass, InitAccept
<1>2. TypeInv /\ PassInv /\ AcceptInv /\ [Next]_vars => TypeInv' /\ PassInv' /\ AcceptInv'
  BY TypeSteps, PassSteps, AcceptSteps
<1>3. AcceptInv => AcceptsWhoIsOnline
  BY DEF AcceptInv
<1> QED
  BY <1>1, <1>2, <1>3, PTL DEF Spec

-----------------------------------------------------------------------------
(* How a collection gets on.                                               *)

\* Within a pass: wait, read, judge; the collection may then be done.
Stage(place) == CASE place = "await" -> 3 [] place = "page" -> 2
                  [] place = "judge" -> 1 [] OTHER -> 0

\* The lexicographic order on client, pass, stage, page and attempt.
GetsOn ==
  \/ client = "chaturbate" /\ client' = "browser"
  \/ client' = client /\ pass' > pass
  \/ client' = client /\ pass' = pass /\ Stage(pc') < Stage(pc)
  \/ client' = client /\ pass' = pass /\ pc' = pc /\ pages' > pages
  \/ /\ client' = client /\ pass' = pass /\ pc' = pc /\ pages' = pages
     /\ attempt' > attempt

Place == <<client, pass, pc, pages, attempt>>

\* The feed and the stop button hold nobody up; any other step uses up one of
\* the budgets TypeOK bounds.
Onward == IF gen' # gen \/ stop' # stop THEN UNCHANGED Place ELSE GetsOn
NoStepIsInVain == [][Onward]_vars

LEMMA StepGetsOn ==
  ASSUME TypeInv, [Next]_vars PROVE [Onward]_vars
<1> SUFFICES ASSUME Next PROVE Onward
  OBVIOUS
<1> USE DEF Place, Onward
<1>1. CASE Roll
  <2>1. gen' # gen
    BY <1>1 DEF Roll, TypeInv, ServiceTyped, Counters
  <2> QED
    BY <1>1, <2>1 DEF Roll, page
<1>2. CASE RequestStop
  BY <1>2 DEF RequestStop, page
<1>3. CASE Cancel
  BY <1>3 DEF Cancel, Finish, page, service, GetsOn, Stage
<1>4. CASE Page
  <2>1. UNCHANGED <<gen, stop, client, pass>> /\ pc = "page"
    BY <1>4 DEF Page, service
  <2>2. pages' = pages + 1 /\ pages \in Nat
    BY <1>4 DEF Page, Take, TypeInv, PageTyped
  <2>3. pc' = pc \/ pc' = "judge"
    BY <1>4 DEF Page, EndPass
  <2> QED
    BY <2>1, <2>2, <2>3 DEF GetsOn, Stage
<1>5. CASE CapPages
  BY <1>5 DEF CapPages, EndPass, page, service, GetsOn, Stage
<1>6. CASE Fault
  BY <1>6 DEF Fault, EndPass, service, GetsOn, Stage, TypeInv, PageTyped
<1>7. CASE BrowserDies
  BY <1>7 DEF BrowserDies, Finish, page, service, GetsOn, Stage
<1>8. CASE Await
  BY <1>8 DEF Await, page, service, GetsOn, Stage
<1>9. CASE JudgeStripchat \/ JudgeChaturbate
  <2>1. Goes \/ Ends
    BY <1>9, StripchatGoesOrEnds, ChaturbateGoesOrEnds
  <2>2. UNCHANGED <<gen, stop, client>> /\ pc = "judge"
    BY <1>9 DEF JudgeStripchat, JudgeChaturbate, service
  <2>3. pass' > pass \/ (pass' = pass /\ pc' = "done")
    BY <2>1 DEF Goes, Ends, Finish, TypeInv, ClientTyped
  <2> QED
    BY <2>2, <2>3 DEF GetsOn, Stage
<1>10. CASE Fallback
  BY <1>10 DEF Fallback, service, GetsOn
<1> QED
  BY <1>1, <1>2, <1>3, <1>4, <1>5, <1>6, <1>7, <1>8, <1>9, <1>10 DEF Next, Step

\* However the service behaves, every request, wait and judgement brings the
\* collection nearer to its end: a further page or attempt of a pass, a further
\* pass, the browser instead of the API, all of them bounded (fetch_pass,
\* collect_snapshot, collect_adaptive, fetch_models_via_api).
THEOREM Progress == Spec => NoStepIsInVain
<1>1. TypeInv /\ [Next]_vars => [Onward]_vars
  BY StepGetsOn
<1> QED
  BY <1>1, InitTypes, TypeSteps, PTL DEF Spec, NoStepIsInVain

=============================================================================
