----------------------------- MODULE MCMyFreeCams -----------------------------
(* A small instance of MyFreeCams for TLC.                                 *)
EXTENDS MyFreeCams, TLC

CONSTANTS u1, u2, u3

\* The pages this connection may watch are interchangeable.
Watchable == Permutations({u2, u3})
=============================================================================
