-------------------------- MODULE MCChaturbateMaster --------------------------
(* Small instances of ChaturbateMaster for TLC. *)
EXTENDS ChaturbateMaster

CONSTANTS p1, p2, s1, s2

listing == <<s1, s2>>
\* The session that is listed first has no date in its name.
day == [s \in {s1, s2} |-> IF s = s1 THEN 0 ELSE 1]
number == [s \in {s1, s2} |-> IF s = s1 THEN 1 ELSE 2]

\* A page that matches a profile is seen from the VPN, or locally as well.
finds == {[blocked |-> {p1, p2}, local |-> {}, vpn |-> {p2}],
          [blocked |-> {p1}, local |-> {p2}, vpn |-> {p2}],
          [blocked |-> {}, local |-> {}, vpn |-> {p2}]}
=============================================================================
