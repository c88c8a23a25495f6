---------------------------- MODULE MCChaturbate ----------------------------
(* Small instances of Chaturbate for TLC. *)
EXTENDS Chaturbate

CONSTANTS u1, u2, r1

lists == [s \in {"vpn", "local"} |->
            IF s = "vpn" THEN {{u1, u2}} ELSE {{}, {u1}}]
=============================================================================
