------------------------------ MODULE MCSnapshot ------------------------------
(* Small instances of Snapshot for TLC. *)
EXTENDS Snapshot

CONSTANTS m1, m2, m3

\* m1 comes and goes, which shifts the others by one place.
feeds == {<<m1, m2, m3>>, <<m2, m3>>, <<m3, m1>>}
minPasses == [c \in {"stripchat", "chaturbate", "browser"} |->
                IF c = "stripchat" THEN 3 ELSE 2]
maxPasses == [c \in {"stripchat", "chaturbate", "browser"} |->
                IF c = "browser" THEN 3 ELSE 4]
half == <<1, 2>>
third == <<1, 3>>
quarter == <<1, 4>>
=============================================================================
