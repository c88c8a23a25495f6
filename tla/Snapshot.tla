------------------------------- MODULE Snapshot -------------------------------
(***************************************************************************)
(* Listing who is online: passes over a paged, cached feed that moves while *)
(* it is read, repeated until they agree.  Three clients do it by their own *)
(* rules: the Stripchat API client (stripchat_api.StripchatApiClient), the  *)
(* Chaturbate one (ctb_api.ChaturbateApiClient), and the Chaturbate browser *)
(* that takes over when that one fails (ctb_core.CTBRunner).                *)
(* One action per request.                                                  *)
(***************************************************************************)
EXTENDS Naturals, FiniteSets, SequencesExt

CONSTANTS
  Models,      \* identities
  Feeds,       \* what the service may list, in its order
  Clients,     \* those of the clients that are looked at
  PageSize,    \* page_size, limit
  MaxPages,    \* max_pages
  Retries,     \* page_retries
  MinPasses, MaxPasses,  \* of each client
  StablePairs, \* required_stable_pairs, of the Stripchat client
  Jaccard, Delta,        \* how far two passes must and may differ
  Doubtful,    \* maximum_quarantine_ratio
  Repeated,    \* duplicate_ratio_threshold
  Unset,       \* a first page that was not seen
  MaxRolls,    \* bound on changes of the feed
  MaxFaults    \* bound on requests that go wrong

Ratio == Nat \X (Nat \ {0})

ASSUME SnapshotAssumption ==
  /\ Clients \subseteq {"stripchat", "chaturbate", "browser"}
  /\ IsFiniteSet(Models) /\ Feeds \subseteq {s \in Seq(Models) : IsInjective(s)}
  /\ PageSize \in Nat \ {0} /\ MaxPages \in Nat \ {0} /\ Retries \in Nat
  /\ StablePairs \in Nat \ {0}
  /\ \A c \in Clients \cup {"browser"} :
       MinPasses[c] \in Nat \ {0} /\ MaxPasses[c] \in Nat \ {0}
  /\ {Jaccard, Delta, Doubtful, Repeated} \subseteq Ratio
  /\ MaxRolls \in Nat /\ MaxFaults \in Nat

VARIABLES
  \* --- the service
  feed,        \* what it lists now
  gen,         \* which generation of its cache that is
  stuck,       \* it ignores the offset it is asked for
  \* --- a pass
  client, pc, pass,
  offset, attempt, pages,
  found,       \* the models the pass has met
  raw,         \* and how many records that were
  shown,       \* pages it has met, with their offset
  total,       \* the largest total it was told
  passed,      \* the pass came to its end
  \* --- the collection
  recent,      \* the passes that succeeded in a row
  stable,      \* stable_pairs
  good,        \* passes that succeeded
  hits,        \* how many of them met a model
  union,       \* whatever was met (browser)
  confirm,     \* the extra pass was asked for
  first,       \* the first page of the last pass
  late,        \* the warning that the feed did not refresh in time
  status, accepted, quarantined,
  stop,
  \* --- auxiliary
  online,      \* who was in the feed during a pass that succeeded
  now,         \* who was in it during this pass
  still,       \* the feed did not move in this pass,
  calm,        \* nor in any other
  steady,      \* who was in it all along
  hollow,      \* the service answered with an empty page
  begun,       \* the generation this pass began in
  sampled,     \* and those of the passes in recent
  used         \* [rolls, faults] so far

service == <<feed, gen, stuck>>
page == <<offset, attempt, pages, found, raw, shown, total>>
agreed == <<recent, stable, good, hits, confirm, sampled, online>>
result == <<status, accepted, quarantined>>
seen == <<now, still, calm, steady, hollow, begun>>
vars == <<service, client, pc, pass, page, passed, agreed, union, first, late,
          result, stop, seen, used>>

-----------------------------------------------------------------------------
AtMost(n, d, ratio) == n * ratio[2] <= ratio[1] * d

\* _window_is_stable of one pair, passes_are_stable.
Agree(a, b) ==
  LET larger == IF Cardinality(a) < Cardinality(b) THEN Cardinality(b) ELSE Cardinality(a)
      smaller == IF Cardinality(a) < Cardinality(b) THEN Cardinality(a) ELSE Cardinality(b)
  IN /\ a # {} /\ b # {}
     /\ Jaccard[1] * Cardinality(a \cup b) <= Jaccard[2] * Cardinality(a \cap b)
     /\ AtMost(larger - smaller, larger, Delta)

\* What the service answers for an offset.
Answer(o) ==
  LET from == IF stuck THEN 0 ELSE o
  IN SubSeq(feed, from + 1,
            IF from + PageSize < Len(feed) THEN from + PageSize ELSE Len(feed))

InWindow(w, m) == Cardinality({i \in DOMAIN w : m \in w[i]})

-----------------------------------------------------------------------------
\* How a pass starts.
FreshPage ==
  /\ offset' = 0 /\ attempt' = 0 /\ pages' = 0 /\ found' = {} /\ raw' = 0
  /\ shown' = {} /\ total' = 0
  /\ now' = ToSet(feed) /\ still' = TRUE

Init ==
  /\ feed \in Feeds /\ gen = 0 /\ stuck \in BOOLEAN
  /\ client \in Clients /\ pc = "page" /\ pass = 1
  /\ offset = 0 /\ attempt = 0 /\ pages = 0 /\ found = {} /\ raw = 0
  /\ shown = {} /\ total = 0 /\ passed = FALSE
  /\ recent = <<>> /\ stable = 0 /\ good = 0 /\ hits = [m \in Models |-> 0]
  /\ union = {} /\ confirm = FALSE /\ first = Unset /\ late = FALSE
  /\ status = "none" /\ accepted = {} /\ quarantined = {} /\ stop = FALSE
  /\ online = <<>> /\ now = ToSet(feed) /\ still = TRUE /\ calm = TRUE
  /\ steady = ToSet(feed) /\ hollow = FALSE
  /\ begun = 0 /\ sampled = <<>>
  /\ used = [rolls |-> 0, faults |-> 0]

\* The cache of the service is renewed, perhaps while a pass reads it.
Roll ==
  /\ pc # "done" /\ used.rolls < MaxRolls
  /\ feed' \in Feeds /\ gen' = gen + 1
  /\ steady' = steady \cap ToSet(feed')
  /\ LET reading == pc = "page" /\ pages > 0
     IN /\ still' = (still /\ ~reading) /\ calm' = (calm /\ ~reading)
        /\ now' = CASE pc = "judge" -> now
                    [] reading -> now \cup ToSet(feed')
                    [] OTHER -> ToSet(feed')
  /\ used' = [used EXCEPT !.rolls = @ + 1]
  /\ UNCHANGED <<stuck, client, pc, pass, page, passed, agreed, union, first,
                 late, result, stop, hollow, begun>>

RequestStop ==
  /\ pc # "done" /\ ~stop /\ stop' = TRUE
  /\ UNCHANGED <<service, client, pc, pass, page, passed, agreed, union, first,
                 late, result, seen, used>>

Finish(s, a, q) ==
  /\ status' = s /\ accepted' = a /\ quarantined' = q /\ pc' = "done"
  /\ UNCHANGED <<pass, page, now, still>>

\* A stop ends the collection wherever it looks at the flag; the browser hands
\* over what it has.
Cancel ==
  /\ stop /\ (pc \in {"page", "await"} \/ (pc = "judge" /\ client = "browser"))
  /\ Finish("cancelled", IF client = "browser" THEN union ELSE {}, {})
  /\ UNCHANGED <<service, client, passed, agreed, union, first, late, stop,
                 calm, steady, hollow, begun, used>>

EndPass(ok) == pc' = "judge" /\ passed' = ok

-----------------------------------------------------------------------------
(* Requests.                                                               *)

\* Mutant: a full page is taken for the last one.
LastPageFull(got, known) ==
  IF client = "stripchat" THEN got = <<>> ELSE Len(got) <= PageSize
\* Where each client takes the listing to be over.
LastPage(got, known) ==
  CASE client = "stripchat" -> got = <<>>
    [] client = "browser" -> Len(got) < PageSize
    [] OTHER -> \/ Len(got) < PageSize
                \/ Cardinality(known) >= IF total < Len(feed) THEN Len(feed) ELSE total

\* max_pages.  The browser has no such cap: where it would read on for ever
\* MaxPages is a bound of the model, and it stays there.
CapReached == client # "browser" /\ pages >= MaxPages

\* A page that shows that the service does not advance.
Loops(got) ==
  CASE client = "stripchat" ->
         /\ Len(got) = PageSize
         /\ \E s \in shown : s.at # offset /\ s.models = ToSet(got)
    [] client = "chaturbate" ->
         got # <<>> /\ \E s \in shown : s.models = ToSet(got)
    [] OTHER -> FALSE

\* The page is taken up.
Take(got) ==
  /\ found' = found \cup ToSet(got) /\ raw' = raw + Len(got)
  /\ union' = union \cup ToSet(got)
  /\ total' = IF total < Len(feed) THEN Len(feed) ELSE total
  /\ pages' = pages + 1 /\ attempt' = 0
  /\ shown' = IF client = "stripchat" /\ Len(got) < PageSize THEN shown
              ELSE shown \cup {[at |-> offset, models |-> ToSet(got)]}
  /\ offset' = offset + IF client = "stripchat" THEN Len(got) ELSE PageSize
  /\ first' = IF client = "stripchat" /\ offset = 0 /\ got # <<>> THEN got ELSE first
  /\ begun' = IF pages = 0 THEN gen ELSE begun

\* What fetch_pass makes of the listing when it has met its end.
Whole == client = "stripchat" =>
           found # {} /\ AtMost(raw - Cardinality(found), raw, Repeated)

\* A page arrives: as the service lists it, or empty although there is more.
Page ==
  /\ pc = "page" /\ ~stop /\ pages < MaxPages
  /\ \E got \in {Answer(offset)} \cup (IF used.faults < MaxFaults THEN {<<>>} ELSE {}) :
       LET empty == got # Answer(offset)
       IN /\ used' = IF empty THEN [used EXCEPT !.faults = @ + 1] ELSE used
          /\ hollow' = (hollow \/ empty)
          /\ Take(got)
          /\ IF Loops(got) THEN EndPass(FALSE)
             ELSE IF LastPage(got, found \cup ToSet(got))
               THEN EndPass(Whole /\ ~(client = "stripchat"
                                       /\ offset + PageSize < Len(feed)))
             ELSE UNCHANGED <<pc, passed>>
  /\ UNCHANGED <<service, client, pass, agreed, late, result, stop, now, still,
                 calm, steady>>

CapPages ==
  /\ pc = "page" /\ ~stop /\ CapReached
  /\ EndPass(FALSE)
  /\ UNCHANGED <<service, client, pass, page, agreed, union, first, late, result,
                 stop, seen, used>>

\* A request fails: it is retried, or ends the pass, as do a redirect, a page
\* of another form and the time budget at once.
Fault ==
  /\ pc = "page" /\ ~stop /\ used.faults < MaxFaults
  /\ used' = [used EXCEPT !.faults = @ + 1]
  /\ \/ /\ client # "browser" /\ attempt < Retries
        /\ attempt' = attempt + 1 /\ UNCHANGED <<pc, passed>>
     \/ /\ EndPass(FALSE) /\ UNCHANGED attempt
  /\ UNCHANGED <<service, client, pass, offset, pages, found, raw, shown, total,
                 agreed, union, first, late, result, stop, seen>>

\* The browser itself dies: what it has is handed over.
BrowserDies ==
  /\ pc = "page" /\ client = "browser" /\ used.faults < MaxFaults
  /\ used' = [used EXCEPT !.faults = @ + 1]
  /\ Finish(IF stop THEN "cancelled" ELSE IF union = {} THEN "incomplete"
            ELSE "succeeded", union, {})
  /\ UNCHANGED <<service, client, passed, agreed, union, first, late, stop,
                 calm, steady, hollow, begun>>

-----------------------------------------------------------------------------
(* Between passes.                                                         *)

\* Mutant: a pass that failed does not use up the budget.
FollowingGood(n) == IF passed THEN n + 1 ELSE n
Following(n) == n + 1

NextPass ==
  /\ pass' = Following(pass) /\ FreshPage
  /\ pc' = IF client = "stripchat" THEN "await" ELSE "page"
  /\ UNCHANGED result

\* _await_new_generation: a pass starts when the first page is another one,
\* cannot be read, or has not changed for the whole wait.
Await ==
  /\ pc = "await" /\ ~stop
  /\ pc' = "page" /\ late' = (late \/ Answer(0) = first)
  /\ UNCHANGED <<service, client, pass, page, passed, agreed, union, first,
                 result, stop, seen, used>>

\* collect_snapshot.
JudgeStripchat ==
  /\ pc = "judge" /\ client = "stripchat"
  /\ recent' = IF passed THEN Append(recent, found) ELSE <<>>
  /\ online' = IF passed THEN Append(online, now) ELSE <<>>
  /\ sampled' = IF passed THEN Append(sampled, begun) ELSE <<>>
  /\ LET n == Len(recent')
         w == SubSeq(recent', n - MinPasses[client] + 1, n)
         ready == /\ n >= MinPasses[client] /\ MinPasses[client] > StablePairs
                  /\ \A i \in 1..(MinPasses[client] - 1) : Agree(w[i], w[i + 1])
         twice == {m \in Models : InWindow(w, m) >= 2}
         once == {m \in Models : InWindow(w, m) = 1}
         clear == AtMost(Cardinality(once), Cardinality(once \cup twice), Doubtful)
         last == pass = MaxPasses[client]
     IN \/ ready /\ clear /\ Finish("succeeded", twice, once) /\ UNCHANGED confirm
        \/ /\ ready /\ ~clear /\ (confirm \/ last)
           /\ Finish("incomplete", {}, once) /\ UNCHANGED confirm
        \/ ready /\ ~clear /\ ~confirm /\ ~last /\ NextPass /\ confirm' = TRUE
        \/ ~ready /\ ~last /\ NextPass /\ UNCHANGED confirm
        \/ ~ready /\ last /\ Finish("incomplete", {}, {}) /\ UNCHANGED confirm
  /\ UNCHANGED <<service, client, passed, stable, good, hits, union, first, late,
                 stop, calm, steady, hollow, begun, used>>

\* Mutant: a pass that failed counts like any other.
CountedAlways == TRUE
\* The passes whose models count, and are compared with the one before.
Counted == passed /\ found # {}

\* collect_adaptive, and the passes of _fetch_models_via_browser_api.
JudgeChaturbate ==
  /\ pc = "judge" /\ client # "stripchat" /\ (client = "browser" => ~stop)
  /\ LET agree == recent # <<>> /\ Agree(Last(recent), found)
     IN stable' = IF Counted /\ agree THEN stable + 1 ELSE 0
  /\ recent' = IF Counted THEN <<found>>
               ELSE IF passed /\ client = "chaturbate" THEN <<{}>> ELSE <<>>
  /\ good' = IF passed THEN good + 1 ELSE good
  /\ hits' = IF Counted THEN [m \in Models |-> hits[m] + IF m \in found THEN 1 ELSE 0]
             ELSE hits
  /\ online' = IF passed THEN Append(online, now) ELSE online
  /\ LET enough == /\ Counted /\ stable' >= 1
                   /\ MinPasses[client] <= IF client = "browser" THEN pass ELSE good'
         once == {m \in Models : hits'[m] = 1}
         twice == {m \in Models : hits'[m] >= 2}
         last == pass = MaxPasses[client]
         again == client = "chaturbate" /\ once # {} /\ ~last /\ ~confirm
         over == last \/ (enough /\ ~again)
     IN /\ confirm' = (confirm \/ (enough /\ again))
        /\ \/ ~over /\ NextPass
           \/ /\ over /\ client = "browser"
              /\ Finish(IF union = {} THEN "incomplete" ELSE "succeeded", union, {})
           \/ /\ over /\ client = "chaturbate"
              /\ IF stable' >= 1 /\ twice # {} THEN Finish("succeeded", twice, once)
                 ELSE Finish("incomplete", {}, {})
  /\ UNCHANGED <<service, client, passed, union, first, late, sampled, stop,
                 calm, steady, hollow, begun, used>>

\* fetch_models_via_api restarts with the browser when the listing failed.
Fallback ==
  /\ pc = "done" /\ client = "chaturbate" /\ status # "succeeded"
  /\ client' = "browser" /\ pc' = "page" /\ pass' = 1
  /\ FreshPage /\ passed' = FALSE
  /\ recent' = <<>> /\ stable' = 0 /\ good' = 0 /\ hits' = [m \in Models |-> 0]
  /\ confirm' = FALSE /\ sampled' = <<>> /\ online' = <<>> /\ union' = {}
  /\ status' = "none" /\ accepted' = {} /\ quarantined' = {}
  /\ UNCHANGED <<service, first, late, stop, calm, steady, hollow, begun, used>>

Step == \/ Cancel \/ Page \/ CapPages \/ Await \/ JudgeStripchat
        \/ JudgeChaturbate \/ Fallback
Next == Roll \/ RequestStop \/ Fault \/ BrowserDies \/ Step

Spec == Init /\ [][Next]_vars
\* Requests and waits have timeouts, so a collection goes on.
FairSpec == Spec /\ WF_vars(Step)

-----------------------------------------------------------------------------
(* Properties.                                                             *)

\* The variables keep their form, and the counters their budgets.
TypeOK ==
  /\ feed \in Feeds /\ gen \in 0..MaxRolls /\ stuck \in BOOLEAN
  /\ client \in Clients \cup {"browser"} /\ pass \in 1..MaxPasses[client]
  /\ pc \in {"page", "judge", "await", "done"}
  /\ offset \in Nat /\ attempt \in 0..Retries /\ pages \in 0..MaxPages
  /\ found \subseteq Models /\ raw \in Nat /\ Cardinality(found) <= raw
  /\ \A s \in shown : s.at \in 0..offset /\ s.models \subseteq Models
  /\ recent \in Seq(SUBSET Models) /\ Len(recent) <= pass
  /\ hits \in [Models -> 0..good] /\ good \in 0..pass /\ stable \in 0..good
  /\ status \in {"none", "succeeded", "incomplete", "cancelled"}
  /\ accepted \cup quarantined \cup union \subseteq Models
  /\ accepted \cap quarantined = {}

\* A pass over a listing that did not move, and whose pages all came, has met
\* exactly who is on it, or it has not succeeded (the ways fetch_pass ends).
PassIsExact == (pc = "judge" /\ passed /\ still /\ ~hollow) => found = now

\* An API client that succeeds accepts nobody who was not online in two passes
\* that did, and everybody who was online all along, unless the listing moved
\* under a pass; the Stripchat one compares different generations of the cache,
\* unless it warns that the feed did not refresh, or a request failed
\* (collect_snapshot, _await_new_generation, collect_adaptive).
AcceptsWhoIsOnline ==
  (status = "succeeded" /\ client # "browser") =>
    /\ \A m \in accepted :
         Cardinality({i \in DOMAIN online : m \in online[i]}) >= 2
    /\ (calm /\ ~hollow) => steady \subseteq accepted
    /\ (client = "stripchat" /\ ~late /\ used.faults = 0) =>
         LET window == (Len(sampled) - MinPasses[client] + 1)..Len(sampled)
         IN \A i, j \in window : i # j => sampled[i] # sampled[j]

\* A collection ends, whatever the service does; only the browser goes on for
\* ever where the service ignores the offset (the budgets of fetch_pass,
\* collect_snapshot and collect_adaptive).
CollectionEnds == pc # "done" ~> (pc = "done" \/ (client = "browser" /\ stuck))
=============================================================================
