--------------------------- MODULE ChaturbateMaster ---------------------------
(***************************************************************************)
(* The Chaturbate master list: compiled from what the sessions found and   *)
(* what the operator added, pruned by verification runs, edited by hand    *)
(* (ctb_core.CTBRunner over master_repository.GenericMasterRepository).    *)
(* One action per durable write; an operation holds the workspace lease    *)
(* and may die between two writes.  The backup and the revision metadata   *)
(* that publish also writes are read by nobody here.  Entries of an older  *)
(* version that are dated "Manual" are taken not to exist.                 *)
(***************************************************************************)
EXTENDS Naturals, FiniteSets, SequencesExt

CONSTANTS
  Pages,       \* model URLs
  Listing,     \* the sessions, in the order the folder lists them
  Day,         \* the date in a session's name, 0 when it has none
  Number,      \* its number
  Finds,       \* what a session may leave: blocked, matching and VPN matching
  Policies,    \* location preferences
  NoMaster,    \* a file, an entry or a binding that is not there
  MaxBatch,    \* max_batch
  MaxRuns,     \* bound on session and verification runs
  MaxEdits,    \* bound on the other operations
  MaxMishaps   \* bound on deaths, files that cannot be read, new preferences

Sessions == ToSet(Listing)

Ops == {"compile", "conclude", "add", "remove", "block", "country", "verify"}
Verdicts == {"blocked", "accessible", "unknown"}

\* is_earlier of compile_master_list: a dated session beats an undated one.
Earlier(s, t) ==
  Day[s] # 0 /\ (\/ Day[t] = 0 \/ Day[s] < Day[t]
                 \/ Day[s] = Day[t] /\ Number[s] < Number[t])

\* The session an entry dates from, of those that have it, as they are listed.
Discovery(having) ==
  FoldLeft(LAMBDA first, s : IF s \in having /\ (first = "operator" \/ Earlier(s, first))
                               THEN s ELSE first,
           "operator", Listing)

\* setdefault over the sessions as they are listed.
FirstListed(having) ==
  Listing[CHOOSE i \in DOMAIN Listing :
            /\ Listing[i] \in having
            /\ \A j \in 1..(i - 1) : Listing[j] \notin having]

\* Where an entry may date from.
Origins == {"operator"} \cup {Discovery(having) : having \in SUBSET Sessions}
             \cup {FirstListed(having) : having \in (SUBSET Sessions) \ {{}}}

\* A master entry.  found: the session it dates from, or the operator;
\* matched, vpnMatched: location profile flags; free: accessible_run_ids;
\* at: last_verified_at.  Times and run ids are counts of operations.
Entry == [found : Origins, stamp : Nat, manual : BOOLEAN,
          matched : BOOLEAN, vpnMatched : BOOLEAN, country : BOOLEAN,
          free : SUBSET Nat, pending : BOOLEAN, at : Nat]

ASSUME MasterAssumption ==
  /\ IsFiniteSet(Pages) /\ \A list \in SUBSET Pages : NoMaster \notin [list -> Entry]
  /\ Finds \subseteq [blocked : SUBSET Pages, local : SUBSET Pages, vpn : SUBSET Pages]
  /\ Listing \in Seq(Sessions) /\ IsInjective(Listing)
  /\ Day \in [Sessions -> Nat] /\ Number \in [Sessions -> Nat]
  /\ MaxBatch \in Nat \ {0} /\ MaxRuns \in Nat /\ MaxEdits \in Nat /\ MaxMishaps \in Nat

\* The mark of an operator's entry is no session: a session's folder has a name
\* that begins with "session " (_list_session_dirs).
ASSUME SessionAssumption == "operator" \notin Sessions

VARIABLES
  \* --- the session folders
  final,    \* FINAL_BLOCKED.txt
  local,    \* cb_local_profile_matches.json
  vpn,      \* cb_vpn_profile_matches.json
  bound,    \* the preferences a session is bound to
  policy,   \* the preferences now
  \* --- the master folder
  json,     \* MASTER_BLOCKED_DATA.json: its entries by page
  text,     \* MASTER_BLOCKED.txt
  manual,   \* MANUAL_MODELS.txt
  banned,   \* GLOBAL_BLACKLIST.txt
  \* --- the operation that runs
  pc, op, target, queue, records,
  \* --- auxiliary
  runsFree, \* runs in a row that found a page accessible
  buried,   \* pages a block or a verification took out of the master
  slipped,  \* of those, the ones whose removal ended before their ban
  since,    \* pages looked at since a pending page was
  blind,    \* compilations that could not read everything
  used      \* [ops, runs, edits, mishaps] so far

folders == <<final, local, vpn, bound>>
files == <<json, text, manual, banned>>
work == <<op, target, queue, records>>
aux == <<runsFree, buried, slipped, since, blind>>
vars == <<folders, policy, files, pc, work, aux, used>>

-----------------------------------------------------------------------------
(* What the code computes.                                                 *)

Names(j) == IF j = NoMaster THEN {} ELSE DOMAIN j

\* The matches of a session count under the preferences it was bound to; those
\* seen through the VPN once Step 4 of that session found the page blocked.
MatchesOf(s) == IF bound[s] = policy THEN local[s] ELSE {}
VpnMatchesOf(s) ==
  IF bound[s] = policy /\ final[s] # NoMaster THEN vpn[s] \cap final[s] ELSE {}

\* Mutant: verification starts over with every compilation.
Forgetful(old, u) == [free |-> {}, pending |-> FALSE, at |-> 0, country |-> FALSE]
\* preserved_optional_fields, and the country, of the entry there was.
Preserved(old, u) ==
  IF u \in Names(old)
    THEN [free |-> old[u].free, pending |-> old[u].pending,
          at |-> old[u].at, country |-> old[u].country]
    ELSE [free |-> {}, pending |-> FALSE, at |-> 0, country |-> FALSE]

\* Mutant: only what the operator added is held against the blacklist.
ListedAnyway(black, mine, has) ==
  {u \in Pages : has[u] # {}} \cup (mine \ black)
\* Which pages a compilation lists.
Listed(black, mine, has) ==
  {u \in Pages : has[u] # {} \/ u \in mine} \ black

\* compile_master_list, from the final lists, manual pages, blacklist and old
\* entries it could read.  An entry that exists keeps its insertion time, one that only
\* the operator still wants its date.
Compiled(read, mine, black, old) ==
  LET blocked == [u \in Pages |-> {s \in read : final[s] # NoMaster /\ u \in final[s]}]
      matched == [u \in Pages |-> {s \in Sessions : u \in MatchesOf(s)}]
      confirmed == [u \in Pages |-> {s \in Sessions : u \in VpnMatchesOf(s)}]
      has == [u \in Pages |-> blocked[u] \cup matched[u] \cup confirmed[u]]
      found(u) == CASE blocked[u] # {} -> Discovery(blocked[u])
                    [] blocked[u] = {} /\ matched[u] # {} -> FirstListed(matched[u])
                    [] blocked[u] \cup matched[u] = {} /\ confirmed[u] # {} ->
                         FirstListed(confirmed[u])
                    [] has[u] = {} /\ u \in Names(old) -> old[u].found
                    [] OTHER -> "operator"
  IN [u \in Listed(black, mine, has) |->
        LET p == Preserved(old, u)
        IN [found |-> found(u), manual |-> u \in mine,
            matched |-> matched[u] # {}, vpnMatched |-> confirmed[u] # {},
            stamp |-> IF u \in Names(old) THEN old[u].stamp ELSE used.ops,
            country |-> p.country \/ matched[u] # {} \/ confirmed[u] # {},
            free |-> p.free, pending |-> p.pending, at |-> p.at]]

\* Who a verification run may look at, and the order it does so: pending pages
\* first, those unseen longest first.
Candidates(j) == {u \in Names(j) : ~j[u].manual /\ ~j[u].matched}
Before(j, u, v) ==
  \/ j[u].pending /\ ~j[v].pending
  \/ j[u].pending = j[v].pending /\ j[u].at < j[v].at
InTurn(j) ==
  {q \in SetToSeqs(Candidates(j)) :
     \A a, b \in DOMAIN q : a < b => ~Before(j, q[b], q[a])}
Batches(j) == {SubSeq(q, 1, IF Len(q) < MaxBatch THEN Len(q) ELSE MaxBatch) :
                 q \in InTurn(j)}

\* Mutant: a page found blocked keeps its confirmations.
JudgedLeniently(e, v, n) ==
  [e EXCEPT !.at = n, !.pending = (v = "unknown"),
            !.free = IF v = "accessible" THEN @ \cup {used.ops} ELSE @]
\* Mutant: only a verdict counts as a look.
JudgedTimeless(e, v, n) ==
  LET seen == IF v = "accessible" THEN e.free \cup {used.ops} ELSE e.free
  IN [e EXCEPT !.at = IF v = "unknown" THEN @ ELSE n,
               !.free = IF v = "blocked" THEN {} ELSE seen,
               !.pending = \/ v = "unknown"
                           \/ v = "accessible" /\ Cardinality(seen) < 2]
\* apply_verification_records, for one record; used.ops is the run id.
Judged(e, v, n) ==
  LET seen == IF v = "accessible" THEN e.free \cup {used.ops} ELSE e.free
  IN [e EXCEPT !.at = n,
               !.free = IF v = "blocked" THEN {} ELSE seen,
               !.pending = \/ v = "unknown"
                           \/ v = "accessible" /\ Cardinality(seen) < 2]

Seen == {records[i].page : i \in DOMAIN records}
LookAt(u) == CHOOSE i \in DOMAIN records : records[i].page = u
AllJudged ==
  [u \in Names(json) |->
     IF u \in Seen
       THEN Judged(json[u], records[LookAt(u)].verdict,
                   used.ops * Cardinality(Pages) + LookAt(u))
       ELSE json[u]]
\* removal_confirmations = 2, allow_accessible_removal.
Confirmed == {u \in Seen : /\ records[LookAt(u)].verdict = "accessible"
                           /\ Cardinality(AllJudged[u].free) >= 2}
Without(j, us) == [u \in DOMAIN j \ us |-> j[u]]

-----------------------------------------------------------------------------
Init ==
  /\ final = [s \in Sessions |-> NoMaster]
  /\ local = [s \in Sessions |-> {}] /\ vpn = local
  /\ bound = [s \in Sessions |-> NoMaster]
  /\ policy \in Policies
  /\ json = NoMaster /\ text = {} /\ manual = {} /\ banned = {}
  /\ pc = "idle" /\ op = "compile" /\ target = NoMaster
  /\ queue = <<>> /\ records = <<>>
  /\ runsFree = [u \in Pages |-> {}] /\ buried = {} /\ slipped = {}
  /\ since = [u \in Pages |-> {}] /\ blind = 0
  /\ used = [ops |-> 0, runs |-> 0, edits |-> 0, mishaps |-> 0]

\* Every operation is begun under the workspace lease.
Begin(o, u, at) ==
  /\ pc = "idle"
  /\ IF o \in {"conclude", "verify"}
       THEN used.runs < MaxRuns /\ used' = [used EXCEPT !.ops = @ + 1, !.runs = @ + 1]
       ELSE used.edits < MaxEdits /\ used' = [used EXCEPT !.ops = @ + 1, !.edits = @ + 1]
  /\ op' = o /\ target' = u /\ pc' = at
  /\ UNCHANGED <<files, policy, queue, records>>

\* The operation is over: its locals are gone.
Return == /\ pc' = "idle" /\ op' = "compile" /\ target' = NoMaster
          /\ queue' = <<>> /\ records' = <<>>
GoOn(at) == pc' = at /\ UNCHANGED work

\* Steps 1, 2 and 4 of a session leave their lists, when the session is not
\* bound to other preferences; Step 4 compiles the master.
Conclude(s) ==
  /\ bound[s] \in {NoMaster, policy}
  /\ bound' = [bound EXCEPT ![s] = policy]
  /\ \E found \in Finds : /\ final' = [final EXCEPT ![s] = found.blocked]
                          /\ local' = [local EXCEPT ![s] = found.local]
                          /\ vpn' = [vpn EXCEPT ![s] = found.vpn]
  /\ Begin("conclude", NoMaster, "publish")
  /\ UNCHANGED aux

\* compile_master_list_sync.
Compile == Begin("compile", NoMaster, "repair") /\ UNCHANGED <<folders, aux>>

\* add_manual_to_master.
AddManual(u) ==
  /\ Begin("add", u, IF u \in manual THEN "publish" ELSE "manual")
  /\ UNCHANGED <<folders, aux>>

\* remove_from_master_list returns early without the entry.
RemoveModel(u) ==
  /\ u \in Names(json) /\ Begin("remove", u, "manual")
  /\ UNCHANGED <<folders, aux>>

\* block_model.
BlockModel(u) ==
  /\ u \notin banned /\ Begin("block", u, "ban")
  /\ UNCHANGED <<folders, aux>>

\* update_master_model_country.
SetCountry(u) ==
  /\ u \in Names(json) /\ Begin("country", u, "publish")
  /\ UNCHANGED <<folders, aux>>

\* verify_master_list; a fresh run id each time.
Verify ==
  /\ Begin("verify", NoMaster, "repair")
  /\ UNCHANGED <<folders, aux>>

-----------------------------------------------------------------------------
\* validate_consistency: the text list follows the JSON.  Without a JSON a
\* compilation goes on and a verification is refused.
Repair ==
  /\ pc = "repair"
  /\ text' = IF json = NoMaster THEN text ELSE Names(json)
  /\ IF op = "compile" THEN GoOn("publish")
     ELSE IF Candidates(json) = {} THEN Return
     ELSE /\ pc' = "look" /\ queue' \in Batches(json)
          /\ UNCHANGED <<op, target, records>>
  /\ UNCHANGED <<folders, policy, json, manual, banned, aux, used>>

\* One page; a browser that fails leaves it unknown.
Look ==
  /\ pc = "look" /\ queue # <<>>
  /\ \E v \in Verdicts :
       records' = Append(records, [page |-> Head(queue), verdict |-> v])
  /\ queue' = Tail(queue)
  /\ UNCHANGED <<folders, policy, files, pc, op, target, aux, used>>

\* The batch is done or a stop was seen: what was looked at is applied.
EndLooking ==
  /\ pc = "look" /\ pc' = "publish" /\ queue' = <<>>
  /\ UNCHANGED <<folders, policy, files, op, target, records, aux, used>>

WriteManual ==
  /\ pc = "manual" /\ pc' = "publish"
  /\ manual' = IF op = "add" THEN manual \cup {target} ELSE manual \ {target}
  /\ UNCHANGED <<folders, policy, json, text, banned, work, aux, used>>

\* Bookkeeping: the block is complete, whatever came before it.
Blocked == buried' = buried \cup {target} /\ slipped' = slipped \ {target}

\* The page is banned first; then remove_from_master_list.
WriteBan ==
  /\ pc = "ban"
  /\ banned' = banned \cup {target}
  /\ IF target \in Names(json) THEN GoOn("manual") /\ UNCHANGED <<buried, slipped>>
                              ELSE Return /\ Blocked
  /\ UNCHANGED <<folders, policy, json, text, manual, runsFree, since, blind, used>>

\* publish replaces the JSON first.
Publish(j) ==
  /\ json' = j /\ pc' = "text"
  /\ UNCHANGED <<folders, policy, text, manual, banned, work>>

\* Bookkeeping: what leaves the master starts over.
Forget(candidates) ==
  /\ since' = [u \in Pages |-> IF u \in candidates THEN since[u] ELSE {}]
  /\ runsFree' = [u \in Pages |-> IF u \in Names(json') THEN runsFree[u] ELSE {}]

\* A file that cannot be read counts as empty, a session as not there.
PublishCompiled ==
  /\ pc = "publish" /\ op \in {"compile", "conclude", "add"}
  /\ \/ /\ Publish(Compiled(Sessions, manual, banned, json))
        /\ UNCHANGED <<blind, used>>
     \/ /\ used.mishaps < MaxMishaps
        /\ used' = [used EXCEPT !.mishaps = @ + 1] /\ blind' = blind + 1
        /\ \/ Publish(Compiled(Sessions, {}, banned, json))
           \/ Publish(Compiled(Sessions, manual, {}, json))
           \/ Publish(Compiled(Sessions, manual, banned, NoMaster))
           \/ \E s \in Sessions : Publish(Compiled(Sessions \ {s}, manual, banned, json))
  /\ Forget(Candidates(json')) /\ UNCHANGED <<buried, slipped>>

PublishEdit ==
  /\ pc = "publish" /\ op \in {"remove", "block", "country"}
  /\ Publish(IF op = "country" THEN [json EXCEPT ![target].country = TRUE]
                               ELSE Without(json, {target}))
  /\ Forget(Candidates(json')) /\ UNCHANGED <<buried, slipped, blind, used>>

\* apply_verification_records.
PublishVerified ==
  /\ pc = "publish" /\ op = "verify"
  /\ Publish(Without(AllJudged, Confirmed))
  /\ runsFree' = [u \in Pages |->
       IF u \notin Seen THEN runsFree[u]
       ELSE CASE records[LookAt(u)].verdict = "accessible" -> runsFree[u] \cup {used.ops}
              [] records[LookAt(u)].verdict = "blocked" -> {}
              [] OTHER -> runsFree[u]]
  /\ since' = [u \in Pages |->
       IF u \in Seen \/ u \notin Candidates(json') \/ ~json'[u].pending
         THEN {} ELSE since[u] \cup Seen]
  /\ buried' = buried \cup Confirmed /\ slipped' = slipped \ Confirmed
  /\ UNCHANGED <<blind, used>>

\* The text list; a block is complete with it.
WriteText ==
  /\ pc = "text"
  /\ text' = Names(json)
  /\ IF op = "verify" /\ ~(Seen \subseteq Names(json)) THEN GoOn("bury") ELSE Return
  /\ IF op = "block" THEN Blocked ELSE UNCHANGED <<buried, slipped>>
  /\ UNCHANGED <<folders, policy, json, manual, banned, runsFree, since, blind, used>>

\* Only then are the removed pages banned.
Bury ==
  /\ pc = "bury" /\ Return
  /\ banned' = banned \cup (Seen \ Names(json))
  /\ UNCHANGED <<folders, policy, json, text, manual, aux, used>>

\* A death, or a write that fails and ends the operation: what a verification
\* has already taken out stays without its ban.
Crash ==
  /\ pc # "idle" /\ used.mishaps < MaxMishaps
  /\ Return /\ used' = [used EXCEPT !.mishaps = @ + 1]
  /\ slipped' = slipped \cup (Seen \ Names(json))
  /\ UNCHANGED <<folders, policy, files, runsFree, buried, since, blind>>

\* update_settings, between operations.
ChangePolicy ==
  /\ pc = "idle" /\ used.mishaps < MaxMishaps
  /\ policy' \in Policies \ {policy}
  /\ used' = [used EXCEPT !.mishaps = @ + 1]
  /\ UNCHANGED <<folders, files, pc, work, aux>>

Next ==
  \/ \E s \in Sessions : Conclude(s)
  \/ Compile \/ Verify
  \/ \E u \in Pages : AddManual(u) \/ RemoveModel(u) \/ BlockModel(u) \/ SetCountry(u)
  \/ Repair \/ Look \/ EndLooking \/ WriteManual \/ WriteBan
  \/ PublishCompiled \/ PublishEdit \/ PublishVerified
  \/ WriteText \/ Bury \/ Crash \/ ChangePolicy

Spec == Init /\ [][Next]_vars

-----------------------------------------------------------------------------
(* Properties.                                                             *)

\* The master has entries of its form, and its text list their names but
\* while it is written.
TypeOK ==
  /\ json = NoMaster \/ \E list \in SUBSET Pages : json \in [list -> Entry]
  /\ text \subseteq Pages /\ manual \subseteq Pages /\ banned \subseteq Pages
  /\ final \in [Sessions -> (SUBSET Pages) \cup {NoMaster}]
  /\ local \in [Sessions -> SUBSET Pages] /\ vpn \in [Sessions -> SUBSET Pages]
  /\ bound \in [Sessions -> Policies \cup {NoMaster}] /\ policy \in Policies
  /\ pc \in {"idle", "repair", "look", "manual", "ban", "publish", "text", "bury"}
  /\ op \in Ops /\ target \in Pages \cup {NoMaster}
  /\ queue \in Seq(Pages) /\ Len(queue) + Len(records) <= MaxBatch
  /\ (used.mishaps = 0 /\ pc # "text") => text = Names(json)

\* Verification removes a page only after two runs found it accessible with no
\* run in between that found it blocked, and never one the operator added or
\* that matches a profile (apply_verification_records, verify_master_list).
TwoLooksRemove ==
  [][\A u \in Names(json) \ Names(json') :
       op = "verify" => /\ Cardinality(runsFree'[u]) >= 2
                        /\ ~json[u].manual /\ ~json[u].matched]_vars

\* A page that was blocked by the operator or taken out by a verification does
\* not come back, as long as the compilations can read what they compile from,
\* unless that verification ended after it published the master without the page
\* and before it banned it: only then may the next compilation list it again
\* (block_model, apply_verification_records, compile_master_list).
BannedStaysOut == blind = 0 => \A u \in buried \ slipped : u \notin Names(json)

\* A compiled entry dates from the earliest session that found it blocked, and
\* from an undated one only when it has to.
DatedByEarliest(u) ==
  LET dated == {s \in Sessions : final[s] # NoMaster /\ u \in final[s] /\ Day[s] > 0}
      first == json'[u].found
  IN dated # {} =>
       /\ first \in dated
       /\ \A s \in dated : \/ Day[first] < Day[s]
                           \/ Day[first] = Day[s] /\ Number[first] <= Number[s]

\* Rebuilding or editing the master forgets nothing about an entry that stays:
\* neither when it came in, nor its country, nor how far its verification is
\* (existing_info and preserved_optional_fields of compile_master_list).  A
\* compilation dates every entry by its earliest session, all unless it could
\* not read its files.
KnowledgeIsKept ==
  [][blind' = blind =>
     /\ \A u \in Names(json) \cap Names(json') :
          /\ json'[u].stamp = json[u].stamp
          /\ json[u].country => json'[u].country
          /\ op # "verify" => /\ json'[u].free = json[u].free
                              /\ json'[u].pending = json[u].pending
                              /\ json'[u].at = json[u].at
     /\ (pc = "publish" /\ pc' = "text"
           /\ op \in {"compile", "conclude", "add"}) =>
          \A u \in Names(json') : DatedByEarliest(u)]_vars

\* A page that waits for another look gets it before any other page gets a
\* second one (the order verify_master_list sorts its candidates in).
PendingInTurn ==
  [][(pc = "publish" /\ op = "verify" /\ pc' = "text") =>
       \A u \in Candidates(json) \ Seen :
         json[u].pending => Seen \cap since[u] = {}]_vars
=============================================================================
