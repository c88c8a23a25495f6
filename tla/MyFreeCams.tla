------------------------------ MODULE MyFreeCams ------------------------------
(***************************************************************************)
(* The MyFreeCams runner (mfcscrape.MFCRunner) with the service and the    *)
(* coordinator that drive it: who is on air seen through the VPN, who is   *)
(* offered to this connection, the candidates of the comparison, their     *)
(* verification against two snapshots, and the master list compiled from   *)
(* the session folders.  Every file is truncated and rewritten in place.   *)
(* The workspace lease admits one operation at a time; it dies between two *)
(* writes, or a write fails.  Dates, the rolling .bak, which nobody reads, *)
(* and the salvaged partial list, which verify_live_models never produces, *)
(* are left out.                                                           *)
(***************************************************************************)
EXTENDS Naturals, FiniteSets

CONSTANTS
  Pages,        \* model URLs
  Hidden,       \* those this connection is not offered while they are on air
  NoFile,       \* a file or a snapshot that is not there
  Torn,         \* a JSON file that cannot be parsed
  MaxSessions,  \* bound on session folders
  MaxAttempts,  \* max_attempts of _build_server_attempts, 12 in the code
  MaxEvents     \* bound on steps and edits started, on pages that come on air or
                \* leave, on stops, and on what fails: processes, files, servers

\* An entry of the master list.
Entry == [pending : BOOLEAN, manual : BOOLEAN, country : BOOLEAN]

ASSUME MFCAssumption ==
  /\ IsFiniteSet(Pages) /\ Hidden \subseteq Pages
  /\ \A list \in SUBSET Pages : list # NoFile
  /\ \A list \in SUBSET Pages : \A j \in [list -> Entry] : j # NoFile /\ j # Torn
  /\ MaxSessions \in Nat /\ MaxAttempts \in Nat \ {0}
  /\ MaxEvents \in Nat

Sessions == 1..MaxSessions
Lists == (SUBSET Pages) \cup {NoFile}
Masters == UNION {[list -> Entry] : list \in SUBSET Pages}
\* The stages of a flow: lists written, snapshots kept in memory, judgement.
Fetches == {"vpn", "local", "live", "view"}
Stages == Fetches \cup {"compare", "verify"}
Flows == {"auto", "step1", "step2", "step3", "step4"}
Edits == {"compile", "add", "remove", "block", "country"}
\* What comes after the stages, and what an edit does.
Compiling == {"compile", "text", "back", "json"}
Editing == {"add", "ban", "untext", "unmanual", "unjson", "country"}

VARIABLES
  air,        \* who is on air
  \* --- session folders
  vpnList,    \* mfc_vpn_list.txt
  localList,  \* mfc_local_list.txt
  blocked,    \* BLOCKED_MODELS.txt
  verified,   \* mfc_verified_live.txt
  made,       \* how many there are
  \* --- master folder
  text,       \* MASTER_BLOCKED.txt
  json,       \* MASTER_BLOCKED_DATA.json
  dated,      \* pages of its dated copies
  manual,     \* MANUAL_MODELS.txt
  banned,     \* GLOBAL_BLACKLIST.txt
  automatic,  \* the VPN provider of the preferences moves the VPN itself
  \* --- the process
  cur,        \* session_folder, 0 before the first
  live,       \* _live_reference
  view,       \* _local_reference
  refs,       \* _manual_mfc_references: session, vpn_at and local_at set, in time
  pc, op,     \* what it is doing, and for which operation
  target,     \* the page an edit is about
  stop,       \* _stop_requested of the task that runs; clear_stop comes with the next
  tries,      \* servers asked
  got,        \* the list to write
  plan,       \* the entries to write
  sighted,    \* the old entries could be read (existing_info)
  \* --- auxiliary
  whole,      \* nothing cut short or failed since the last compilation
  slipped,    \* pages missing from a snapshot that should have had them
  used        \* events so far

folders == <<vpnList, localList, blocked, verified, made>>
master == <<text, json, dated, manual, banned>>
memory == <<live, view, refs>>
task == <<pc, op, target, stop>>
data == <<tries, got, plan, sighted>>
aux == <<whole, slipped>>
vars == <<air, folders, master, automatic, cur, memory, task, data, aux, used>>

-----------------------------------------------------------------------------
(* What the code computes.                                                 *)

Lines(file) == IF file = NoFile THEN {} ELSE file
Readable(j) == j # NoFile /\ j # Torn
Names(j) == IF Readable(j) THEN DOMAIN j ELSE {}

References == [session : 0..MaxSessions, vpn : BOOLEAN, local : BOOLEAN, fresh : BOOLEAN]
NoReferences == [session |-> 0, vpn |-> FALSE, local |-> FALSE, fresh |-> FALSE]

\* get_master_list_models: the JSON, or the text when there is none to read.
Shown == IF Readable(json) THEN DOMAIN json ELSE Lines(text)

\* What the API lists on either side of the VPN.  Full Auto and Step 4 of an
\* automatic provider move the VPN, the operator of a manual one confirms the
\* side; nobody does for Steps 1 and 2 of an automatic provider.
Offered(stage) == IF stage \in {"vpn", "live"} THEN air ELSE air \ Hidden
Listings(stage) ==
  IF automatic /\ op \in {"step1", "step2"}
    THEN {air, air \ Hidden} ELSE {Offered(stage)}

\* The stage that comes after one, in each flow.
Following(stage) ==
  CASE stage = "vpn" -> IF op = "auto" THEN "local" ELSE IF automatic THEN "idle" ELSE "live"
    [] stage = "local" -> IF op = "auto" THEN "compare" ELSE IF automatic THEN "idle" ELSE "view"
    [] stage = "compare" -> IF op = "auto" THEN "live" ELSE "idle"
    [] stage = "live" -> IF op = "step1" THEN "idle" ELSE "view"
    [] stage = "view" -> IF op = "step2" THEN "idle" ELSE "verify"

\* Mutant: the verified list comes after the candidates, not instead of them.
CandidatesFirst(s) == IF blocked[s] # NoFile THEN blocked[s] ELSE Lines(verified[s])
\* What a session puts forward: what Step 4 confirmed once it ran, else what
\* the comparison found.
Source(s) == IF verified[s] # NoFile THEN verified[s] ELSE Lines(blocked[s])

\* Whether a session's pages were never judged.
Unjudged(s) == verified[s] = NoFile

\* compile_master_list, from the manual pages, the blacklist, the sessions and the old
\* entries it could read: confirmed by any session outweighs awaiting it.
Compiled(mine, black, read, old) ==
  LET having == [u \in Pages |-> {s \in read : u \in Source(s)}]
  IN  [u \in {x \in Pages : having[x] # {} \/ x \in mine} \ black |->
        [pending |-> u \notin mine /\ \A s \in having[u] : Unjudged(s),
         manual |-> u \in mine,
         country |-> u \in DOMAIN old /\ old[u].country]]

\* Mutant: the new list is compared with itself.
KnownAfter == DOMAIN plan
\* The entries the compilation found.
Known == IF sighted THEN Names(json) ELSE {}

-----------------------------------------------------------------------------
Init ==
  /\ air \in SUBSET Pages /\ automatic \in BOOLEAN
  /\ vpnList = [s \in Sessions |-> NoFile] /\ localList = [s \in Sessions |-> NoFile]
  /\ blocked = [s \in Sessions |-> NoFile] /\ verified = [s \in Sessions |-> NoFile]
  /\ made = 0 /\ cur = 0
  /\ text = NoFile /\ json = NoFile /\ dated = {} /\ manual = {} /\ banned = {}
  /\ live = NoFile /\ view = NoFile /\ refs = NoReferences /\ stop = FALSE
  /\ pc = "idle" /\ op = "none" /\ target = NoFile /\ tries = 0
  /\ got = {} /\ plan = <<>>
  /\ sighted = FALSE /\ whole = TRUE /\ slipped = {}
  /\ used = 0

\* A step, an edit, a move, a stop or a mishap.
Event == used < MaxEvents /\ used' = used + 1

\* What the task does next; when it is over the desk is clear.
Then(next) ==
  /\ pc' = next
  /\ IF next = "idle" THEN op' = "none" /\ target' = NoFile /\ stop' = FALSE
                      ELSE UNCHANGED <<op, target, stop>>

\* What a list that is truncated and rewritten holds when that fails.
Remains(file, content) == (SUBSET content) \cup {file}
\* The same for a JSON file.
JsonRemains == json' \in {json, Torn}

-----------------------------------------------------------------------------
(* The world, the operator's preferences and the process.                  *)

\* A page comes on air or leaves.
Move(u) ==
  /\ Event
  /\ air' = (air \ {u}) \cup ({u} \ air)
  /\ UNCHANGED <<folders, master, automatic, cur, memory, task, data, aux>>

\* Two minutes pass since the manual Step 1.
Age ==
  /\ refs.fresh
  /\ refs' = [refs EXCEPT !.fresh = FALSE]
  /\ UNCHANGED <<air, folders, master, automatic, cur, live, view, task, data,
                 aux, used>>

RequestStop ==
  /\ op \in Flows /\ ~stop /\ Event /\ stop' = TRUE
  /\ UNCHANGED <<air, folders, master, automatic, cur, memory, pc, op, target,
                 data, aux>>

\* set_preferences, or another process that changed them.
ChangeProvider ==
  /\ pc = "idle" /\ Event
  /\ automatic' = ~automatic /\ refs' = NoReferences
  /\ UNCHANGED <<air, folders, master, cur, live, view, task, data, aux>>

\* create_session.
NewSession ==
  /\ pc = "idle" /\ made < MaxSessions
  /\ made' = made + 1 /\ cur' = made'
  /\ UNCHANGED <<air, vpnList, localList, blocked, verified, master, automatic,
                 memory, task, data, aux, used>>

\* use_latest_session goes by modification times: any folder may be the latest.
UseLatestSession ==
  /\ pc = "idle" /\ cur' \in 1..made /\ cur' # cur
  /\ UNCHANGED <<air, folders, master, automatic, memory, task, data, aux, used>>

\* The process dies and starts anew.  What it wrote stays, what it
\* held in memory is gone.
Restart ==
  /\ Event
  /\ cur' = 0 /\ live' = NoFile /\ view' = NoFile /\ refs' = NoReferences /\ stop' = FALSE
  /\ pc' = "idle" /\ op' = "none" /\ target' = NoFile /\ tries' = 0
  /\ got' = {} /\ plan' = <<>> /\ sighted' = FALSE
  /\ whole' = (/\ whole
               /\ pc \notin {"text", "back", "json", "unmanual", "unjson"}
               /\ ~(pc = "untext" /\ op = "block"))
  /\ UNCHANGED <<air, folders, master, automatic, slipped>>

-----------------------------------------------------------------------------
(* Starting a step or a flow.                                              *)

\* A step without a session creates one or takes the latest.
Session(creates) ==
  IF cur # 0 THEN UNCHANGED <<cur, made>>
  ELSE IF creates \/ made = 0
    THEN made < MaxSessions /\ made' = made + 1 /\ cur' = made'
    ELSE cur' \in 1..made /\ UNCHANGED made

Start(flow, stage) ==
  /\ pc = "idle" /\ Event
  /\ Session(flow \in {"auto", "step1", "step2"})
  /\ op' = flow /\ pc' = stage /\ tries' = 0 /\ stop' = FALSE
  /\ UNCHANGED <<air, vpnList, localList, blocked, verified, master, automatic,
                 live, view, target, got, plan, sighted, aux>>

StartFullAuto == automatic /\ Start("auto", "vpn") /\ UNCHANGED refs
StartStep1 ==
  /\ Start("step1", "vpn")
  /\ refs' = IF automatic THEN refs ELSE NoReferences
\* The snapshot Step 2 is about to take replaces the one there was.
LocalForgotten(r, session) ==
  IF r.session = session THEN [r EXCEPT !.local = FALSE]
                         ELSE [NoReferences EXCEPT !.session = session]
StartStep2 ==
  /\ Start("step2", "local")
  /\ refs' = IF automatic THEN refs ELSE LocalForgotten(refs, cur')
StartStep3 == Start("step3", "compare") /\ UNCHANGED refs

\* Manual Steps 1 and 2 of this session, in time.
ReferencesServe(session) == refs.session = session /\ refs.vpn /\ refs.local /\ refs.fresh
StartStep4 ==
  \/ automatic /\ Start("step4", "live") /\ UNCHANGED refs
  \/ /\ ~automatic /\ Start("step4", "verify")
     /\ ReferencesServe(cur') /\ refs' = NoReferences

-----------------------------------------------------------------------------
(* The stages.                                                             *)

\* The cancel gates of Full Auto come after every stage but the on-air
\* snapshot; a step run on its own has none.
Onward(stage) == IF stop /\ op = "auto" /\ stage # "live" THEN "idle" ELSE Following(stage)

\* set_live_reference and set_local_reference: an empty snapshot is none.
Reference(found) == IF found = {} THEN NoFile ELSE found

\* Step 4 of an automatic provider gives up on an empty snapshot.
AfterSnapshot(stage, found) ==
  IF op = "step4" /\ found = {} THEN "idle" ELSE Onward(stage)

\* A fetch is over, with what it found: a list to write, or a snapshot.
Fetched(found) ==
  /\ tries' = 0
  /\ \/ /\ pc \in {"vpn", "local"}
        /\ got' = found /\ Then(IF found = {} THEN Onward(pc) ELSE pc)
        /\ UNCHANGED <<memory, slipped>>
     \/ /\ pc = "live"
        /\ live' = Reference(found) /\ Then(AfterSnapshot(pc, found))
        /\ refs' = IF op = "step1"
                     THEN [session |-> cur, vpn |-> TRUE, local |-> FALSE, fresh |-> TRUE]
                     ELSE refs
        /\ UNCHANGED <<view, got, slipped>>
     \/ /\ pc = "view"
        /\ view' = Reference(found) /\ Then(AfterSnapshot(pc, found))
        /\ refs' = IF op = "step2" THEN [refs EXCEPT !.local = TRUE] ELSE refs
        /\ slipped' = slipped \cup (Lines(live) \ (found \cup Hidden))
        /\ UNCHANGED <<live, got>>

\* What one server answers: nothing, the PHP snapshot, or as much of the
\* listing as its stream showed in twelve seconds.
Answers == UNION {SUBSET listing : listing \in Listings(pc)}

\* fetch_models_via_api asks one server after the other.
Attempt(found) ==
  /\ pc \in Fetches /\ got = {} /\ ~stop
  /\ IF found \in Listings(pc) THEN UNCHANGED used ELSE Event
  /\ IF found = {} /\ tries + 1 < MaxAttempts
       THEN tries' = tries + 1 /\ UNCHANGED <<memory, task, got, slipped>>
       ELSE Fetched(found)
  /\ UNCHANGED <<air, folders, master, automatic, cur, plan, sighted, whole>>

\* It is stopped, or cannot learn which servers there are.
FetchGivesUp ==
  /\ pc \in Fetches /\ got = {}
  /\ \/ stop /\ UNCHANGED used
     \/ tries = 0 /\ Event
  /\ Fetched({})
  /\ UNCHANGED <<air, folders, master, automatic, cur, plan, sighted, whole>>

\* The coordinator cannot move the VPN: the flow ends.
VpnFails ==
  /\ \/ op = "auto" /\ pc \in Fetches
     \/ op = "step4" /\ pc \in {"live", "view"}
  /\ got = {} /\ tries = 0
  /\ Event /\ Then("idle")
  /\ UNCHANGED <<air, folders, master, automatic, cur, memory, data, aux>>

\* _write_list of what step_vpn_list or step_local_list found.  A write that
\* fails ends the step.
SaveList ==
  /\ pc \in {"vpn", "local"} /\ got # {} /\ got' = {}
  /\ \E content \in Remains(IF pc = "vpn" THEN vpnList[cur] ELSE localList[cur], got) :
       /\ vpnList' = IF pc = "vpn" THEN [vpnList EXCEPT ![cur] = content] ELSE vpnList
       /\ localList' = IF pc = "local" THEN [localList EXCEPT ![cur] = content] ELSE localList
       /\ \/ content = got /\ Then(Onward(pc)) /\ UNCHANGED used
          \/ Event /\ Then("idle")
  /\ UNCHANGED <<air, blocked, verified, made, master, automatic, cur, memory,
                 tries, plan, sighted, aux>>

\* compare_lists.  Without a difference the candidates there were stay.
Compare ==
  /\ pc = "compare"
  /\ LET lacking == vpnList[cur] = NoFile \/ localList[cur] = NoFile
         found == Lines(vpnList[cur]) \ Lines(localList[cur])
     IN  \/ /\ lacking \/ found = {}
            /\ Then(Onward("compare")) /\ UNCHANGED <<blocked, used>>
         \/ /\ ~lacking /\ found # {}
            /\ \E content \in Remains(blocked[cur], found) :
                 /\ blocked' = [blocked EXCEPT ![cur] = content]
                 /\ \/ content = found /\ Then(Onward("compare")) /\ UNCHANGED used
                    \/ Event /\ Then("idle")
  /\ UNCHANGED <<air, vpnList, localList, verified, made, master, automatic, cur,
                 memory, data, aux>>

\* hidden_while_on_air: on air through the VPN, and not offered here.
Confirmed(urls) == (urls \cap Lines(live)) \ Lines(view)

\* verify_live_models.  The snapshots are used up whatever comes of it; manual
\* pages are not candidates, unless the master list cannot be read.
Verify ==
  /\ pc = "verify" /\ live' = NoFile /\ view' = NoFile
  /\ \E flagged \in {{u \in Names(json) : json[u].manual}, {}} :
       LET urls == Lines(blocked[cur]) \ flagged
       IN  /\ \/ flagged = {u \in Names(json) : json[u].manual} /\ UNCHANGED used
              \/ Event
           /\ IF stop \/ urls = {} \/ live = NoFile \/ view = NoFile
                THEN Then("idle") /\ UNCHANGED got
                ELSE Then("publish") /\ got' = Confirmed(urls)
  /\ UNCHANGED <<air, folders, master, automatic, cur, refs, tries, plan, sighted, aux>>

\* _finalize_verification writes the verified list; ...
Publish ==
  /\ pc = "publish" /\ got' = {}
  /\ \E content \in Remains(verified[cur], got) :
       /\ verified' = [verified EXCEPT ![cur] = content]
       /\ \/ content = got /\ Then("clean") /\ UNCHANGED used
          \/ Event /\ Then("idle")
  /\ UNCHANGED <<air, vpnList, localList, blocked, made, master, automatic, cur,
                 memory, tries, plan, sighted, aux>>

\* ... removes the lists of Steps 1 and 2, as far as it can; and compiles.
Clean ==
  /\ pc = "clean" /\ Then("compile")
  /\ \E keepVpn, keepLocal \in BOOLEAN :
       /\ vpnList' = IF keepVpn THEN vpnList ELSE [vpnList EXCEPT ![cur] = NoFile]
       /\ localList' = IF keepLocal THEN localList ELSE [localList EXCEPT ![cur] = NoFile]
       /\ IF keepVpn \/ keepLocal THEN Event ELSE UNCHANGED used
  /\ UNCHANGED <<air, blocked, verified, made, master, automatic, cur, memory,
                 data, aux>>

-----------------------------------------------------------------------------
(* compile_master_list.                                                    *)

\* A file that cannot be read counts as empty, a session's is passed over.
Compile ==
  /\ pc = "compile" /\ Then("text")
  /\ \E mine \in {manual, {}}, black \in {banned, {}}, read \in SUBSET (1..made),
        sees \in BOOLEAN :
       /\ \/ /\ mine = manual /\ black = banned /\ read = 1..made /\ sees
             /\ whole' = TRUE /\ UNCHANGED used
          \/ Event /\ whole' = FALSE
       /\ sighted' = sees
       /\ plan' = Compiled(mine, black, read, IF sees /\ Readable(json) THEN json ELSE <<>>)
  /\ UNCHANGED <<air, folders, master, automatic, cur, memory, tries, got, slipped>>

\* The text first.  From here on a failure is only logged.
WriteText ==
  /\ pc = "text" /\ Then("back")
  /\ \E content \in Remains(text, DOMAIN plan) :
       /\ text' = content
       /\ \/ content = DOMAIN plan /\ UNCHANGED <<whole, used>>
          \/ Event /\ whole' = FALSE
  /\ UNCHANGED <<air, folders, json, dated, manual, banned, automatic, cur,
                 memory, data, slipped>>

\* A dated copy of the longer list that the next one replaces.
KeepDated ==
  /\ pc = "back" /\ Then("json")
  /\ \/ /\ dated' = IF Cardinality(DOMAIN plan) < Cardinality(Known)
                      THEN dated \cup Names(json) ELSE dated
        /\ UNCHANGED <<whole, used>>
     \/ Event /\ whole' = FALSE /\ UNCHANGED dated
  /\ UNCHANGED <<air, folders, text, json, manual, banned, automatic, cur, memory,
                 data, slipped>>

WriteJson ==
  /\ pc = "json" /\ Then("idle")
  /\ \/ json' = plan /\ UNCHANGED <<whole, used>>
     \/ JsonRemains /\ Event /\ whole' = FALSE
  /\ plan' = <<>> /\ sighted' = FALSE
  /\ UNCHANGED <<air, folders, text, dated, manual, banned, automatic, cur,
                 memory, tries, got, slipped>>

-----------------------------------------------------------------------------
(* Edits of the master list.                                               *)

Edit(kind, u, stage) ==
  /\ pc = "idle" /\ Event
  /\ op' = kind /\ target' = u /\ pc' = stage /\ stop' = FALSE
  /\ UNCHANGED <<air, folders, master, automatic, cur, memory, data, aux>>

StartEdit ==
  \/ Edit("compile", NoFile, "compile")
  \/ \E u \in Pages :
       \/ Edit("add", u, "add")
       \/ text # NoFile /\ Edit("remove", u, "untext")
       \/ u \notin banned /\ Edit("block", u, "ban")
       \/ u \in Names(json) /\ Edit("country", u, "country")

\* add_manual_to_master appends, then compiles.
AddManual ==
  /\ pc = "add"
  /\ \/ manual' = manual \cup {target} /\ Then("compile") /\ UNCHANGED used
     \/ Event /\ Then("idle") /\ UNCHANGED manual
  /\ UNCHANGED <<air, folders, text, json, dated, banned, automatic, cur, memory,
                 data, aux>>

\* block_model appends to the blacklist, then removes.
Ban ==
  /\ pc = "ban"
  /\ \/ /\ banned' = banned \cup {target}
        /\ Then(IF text = NoFile THEN "idle" ELSE "untext")
        /\ UNCHANGED used
     \/ Event /\ Then("idle") /\ UNCHANGED banned
  /\ UNCHANGED <<air, folders, text, json, dated, manual, automatic, cur, memory,
                 data, aux>>

\* remove_from_master_list: the text, ...
RemoveFromText ==
  /\ pc = "untext"
  /\ \/ /\ target \notin Lines(text)
        /\ Then("idle") /\ UNCHANGED <<text, whole, used>>
     \/ /\ target \in Lines(text) /\ Then("unmanual")
        /\ \E content \in Remains(text, Lines(text) \ {target}) :
             /\ text' = content
             /\ \/ content = Lines(text) \ {target} /\ UNCHANGED <<whole, used>>
                \/ Event /\ whole' = FALSE
  /\ UNCHANGED <<air, folders, json, dated, manual, banned, automatic, cur,
                 memory, data, slipped>>

\* ... the manual pages, ...
RemoveFromManual ==
  /\ pc = "unmanual" /\ Then("unjson")
  /\ \E content \in Remains(manual, manual \ {target}) :
       /\ manual' = content
       /\ \/ content = manual \ {target} /\ UNCHANGED used
          \/ Event
  /\ UNCHANGED <<air, folders, text, json, dated, banned, automatic, cur, memory,
                 data, aux>>

\* Mutant: the entry stays.
EntryStays(u) == json
\* ... and the entry.
WithoutEntry(u) ==
  IF u \in Names(json) THEN [v \in Names(json) \ {u} |-> json[v]] ELSE json
RemoveFromJson ==
  /\ pc = "unjson" /\ Then("idle")
  /\ \/ json' = WithoutEntry(target) /\ UNCHANGED <<whole, used>>
     \/ JsonRemains /\ Event /\ whole' = FALSE
  /\ UNCHANGED <<air, folders, text, dated, manual, banned, automatic, cur,
                 memory, data, slipped>>

\* update_master_model_country.
SetCountry ==
  /\ pc = "country" /\ Then("idle")
  /\ \/ json' = [json EXCEPT ![target].country = TRUE] /\ UNCHANGED used
     \/ JsonRemains /\ Event
  /\ UNCHANGED <<air, folders, text, dated, manual, banned, automatic, cur,
                 memory, data, aux>>

-----------------------------------------------------------------------------
Next ==
  \/ \E u \in Pages : Move(u)
  \/ Age \/ RequestStop \/ ChangeProvider \/ NewSession \/ UseLatestSession \/ Restart
  \/ StartFullAuto \/ StartStep1 \/ StartStep2 \/ StartStep3 \/ StartStep4
  \/ \E found \in Answers : Attempt(found)
  \/ FetchGivesUp \/ VpnFails \/ SaveList \/ Compare \/ Verify \/ Publish \/ Clean
  \/ Compile \/ WriteText \/ KeepDated \/ WriteJson
  \/ StartEdit \/ AddManual \/ Ban \/ RemoveFromText \/ RemoveFromManual
  \/ RemoveFromJson \/ SetCountry

Spec == Init /\ [][Next]_vars

-----------------------------------------------------------------------------
(* Properties.                                                             *)

TypeOK ==
  /\ air \subseteq Pages /\ automatic \in BOOLEAN
  /\ vpnList \in [Sessions -> Lists] /\ localList \in [Sessions -> Lists]
  /\ blocked \in [Sessions -> Lists] /\ verified \in [Sessions -> Lists]
  /\ made \in 0..MaxSessions /\ cur \in 0..made
  /\ text \in Lists /\ json \in Masters \cup {NoFile, Torn}
  /\ dated \subseteq Pages /\ manual \subseteq Pages /\ banned \subseteq Pages
  /\ live \in Lists /\ view \in Lists
  /\ refs \in References
  /\ op \in Flows \cup Edits \cup {"none"}
  /\ pc \in Stages \cup {"idle", "publish", "clean"} \cup Compiling \cup Editing
  /\ pc \in Editing => target \in Pages
  /\ pc \in Stages \cup {"publish", "clean"} => op \in Flows /\ cur # 0
  /\ stop \in BOOLEAN /\ tries \in 0..MaxAttempts
  /\ got \subseteq Pages /\ plan \in Masters /\ sighted \in BOOLEAN
  /\ whole \in BOOLEAN /\ slipped \subseteq Pages /\ used \in 0..MaxEvents

\* An entry of the master list that neither awaits verification nor is the
\* operator's is a page that this connection is not offered, or one that a
\* viewable snapshot missed: it left while the snapshots were taken, or the
\* list came from a stream cut short.
MasterIsSound ==
  \A u \in Names(json) :
    ~json[u].pending /\ ~json[u].manual => u \in Hidden \cup slipped

\* At rest the list that is shown is the list in the text, and nobody banned
\* is on it, unless an operation was cut short or a file failed since the last
\* compilation: every edit rewrites both files, the text first.
ListsAgree ==
  pc = "idle" /\ whole => Shown = Lines(text) /\ Shown \cap banned = {}

\* A compilation keeps the country of the entries it could read, and when it
\* shortens the list what it drops is in a dated copy by the time the list is
\* overwritten.
CompileKeepsTrack ==
  [][pc = "json" /\ whole /\ Readable(json') =>
       /\ \A u \in Names(json) \cap Names(json') : json[u].country => json'[u].country
       /\ Cardinality(Names(json')) < Cardinality(Names(json)) =>
            Names(json) \ Names(json') \subseteq dated]_vars
=============================================================================
