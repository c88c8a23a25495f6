----------------------------- MODULE MCService -----------------------------
(* Small instances of Service for TLC: which platform owns which folder.   *)
EXTENDS Service, TLC

CONSTANTS c1, c2, c3, sc, cb, s1, s2, m1, m2

roots == [s \in Sessions |-> IF s \in {s1, s2} THEN sc ELSE cb]

Interchangeable == Permutations(Clients)
=============================================================================
