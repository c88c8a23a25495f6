---------------------------- MODULE MasterLedger ----------------------------
(***************************************************************************)
(* What publication promises to the people who read the master list, with  *)
(* no files, phases or crashes in it: a run first finds what it will       *)
(* publish, then its publication is decided once and for all, then its     *)
(* names are absorbed by the list, and only then is it published.  Names   *)
(* never leave the list.                                                   *)
(***************************************************************************)
CONSTANTS Runs, Urls

VARIABLES names,     \* the names on the master list
          wanted,    \* what a run's publication has to add
          decided,   \* runs whose publication can no longer be taken back
          published  \* runs whose names are all on the list

ledger == <<names, wanted, decided, published>>

Init == /\ names \in SUBSET Urls
        /\ wanted = [r \in Runs |-> {}]
        /\ decided = {} /\ published = {}

Find(r) == /\ r \notin decided
           /\ \E found \in SUBSET Urls : wanted' = [wanted EXCEPT ![r] = found]
           /\ UNCHANGED <<names, decided, published>>

Decide(r) == /\ decided' = decided \cup {r}
             /\ UNCHANGED <<names, wanted, published>>

\* The list grows by what one decided run wants, and by nothing else.
Absorb(r) == /\ r \in decided
             /\ names' = names \cup wanted[r]
             /\ UNCHANGED <<wanted, decided, published>>

Settle(r) == /\ r \in decided /\ wanted[r] \subseteq names
             /\ published' = published \cup {r}
             /\ UNCHANGED <<names, wanted, decided>>

Next == \E r \in Runs : Find(r) \/ Decide(r) \/ Absorb(r) \/ Settle(r)

Spec == Init /\ [][Next]_ledger
=============================================================================
