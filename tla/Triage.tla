------------------------------- MODULE Triage -------------------------------
(***************************************************************************)
(* What verifying a list of candidate pages promises, without attempts,    *)
(* epochs, checkpoints or crashes: every page is judged at most once, the  *)
(* blocked ones are handed on only when all are judged, and once the run   *)
(* has given up no page is judged any more.  A new run is asked for only   *)
(* when no page will be judged any more; the request may get lost, that    *)
(* the run gave up does not.                                               *)
(***************************************************************************)
CONSTANTS Pages,   \* the candidates
          Nothing  \* nothing handed on yet

VARIABLES verdict,   \* what a page was found to be: open, blocked or cleared
          handedOn,  \* the blocked pages given to the publication, or Nothing
          givenUp,   \* the pages still open will stay so
          told       \* a new run is asked for

triageVars == <<verdict, handedOn, givenUp, told>>

TriageInit ==
  /\ verdict = [p \in Pages |-> "open"]
  /\ handedOn = Nothing /\ ~givenUp /\ ~told

SomeOpen == \E p \in Pages : verdict[p] = "open"

\* The look that judges the one page may be the last there was for another.
Judge(p) ==
  /\ verdict[p] = "open" /\ ~givenUp
  /\ \E v \in {"blocked", "cleared"} : verdict' = [verdict EXCEPT ![p] = v]
  /\ givenUp' \in BOOLEAN /\ (givenUp' => SomeOpen')
  /\ UNCHANGED <<handedOn, told>>

GiveUp ==
  /\ SomeOpen /\ ~givenUp
  /\ givenUp' = TRUE
  /\ UNCHANGED <<verdict, handedOn, told>>

HandOn ==
  /\ ~SomeOpen
  /\ handedOn' = {p \in Pages : verdict[p] = "blocked"}
  /\ told' = FALSE
  /\ UNCHANGED <<verdict, givenUp>>

\* Given up, or all are judged and nobody takes them.
Tell ==
  /\ SomeOpen => givenUp
  /\ told' = TRUE
  /\ UNCHANGED <<verdict, handedOn, givenUp>>

Withdraw ==
  /\ told' = FALSE
  /\ UNCHANGED <<verdict, handedOn, givenUp>>

TriageNext == (\E p \in Pages : Judge(p)) \/ GiveUp \/ HandOn \/ Tell \/ Withdraw

Triaging == TriageInit /\ [][TriageNext]_triageVars
=============================================================================
