------------------------------ MODULE TaskDesk ------------------------------
(***************************************************************************)
(* What the service promises about background tasks: at most one is on the *)
(* desk at a time, one that could not be started leaves the desk without a *)
(* word, and one that ran is announced after it left the desk, once.       *)
(***************************************************************************)
CONSTANT Tasks

VARIABLE phase   \* phase[t]: how far task t has come

Phases == {"new", "accepted", "running", "ended", "told", "dropped"}

OnDesk == {t \in Tasks : phase[t] \in {"accepted", "running"}}

Init == phase = [t \in Tasks |-> "new"]

Move(t, from, to) ==
  /\ phase[t] = from
  /\ phase' = [phase EXCEPT ![t] = to]

Accept(t) == OnDesk = {} /\ Move(t, "new", "accepted")

Drop(t) == Move(t, "accepted", "dropped")

Launch(t) == Move(t, "accepted", "running")

End(t) == Move(t, "running", "ended")

Tell(t) == Move(t, "ended", "told")

Next == \E t \in Tasks : Accept(t) \/ Drop(t) \/ Launch(t) \/ End(t) \/ Tell(t)

Spec == Init /\ [][Next]_phase
=============================================================================
