--------------------------- MODULE MCMachinePolicy ---------------------------
EXTENDS MachinePolicy, TLC

CONSTANTS a1, a2, b1, c1, c2, r1, r2, ie, de, t1, t2

homes == [a \in Apps |-> IF a = b1 THEN c2 ELSE c1]
runHomes == [r \in Runs |-> IF r = r2 THEN c2 ELSE c1]
relays == [c \in Checkouts |-> IF c = c2 /\ de \in Relays THEN de ELSE ie]

\* Two processes of one checkout are alike, and so are the transactions.
Interchangeable == Permutations({a1, a2}) \cup Permutations({t1, t2})
=============================================================================
