----------------------------- MODULE PolicyFence -----------------------------
(***************************************************************************)
(* What the machine-policy fence promises, without journal files, retries  *)
(* or crashes.  The VPN connection and the Chrome exclusion of a machine   *)
(* are shared by every checkout on it.  One checkout at a time uses the    *)
(* machine.  Before it changes anything it may open an obligation naming   *)
(* the relay it will leave behind; from then on only it touches the        *)
(* machine, however often others come by, until it closes the obligation,  *)
(* and it closes it only when the machine is where it said it would be.    *)
(***************************************************************************)
CONSTANTS
    Checkouts,    \* the installations of the program on this machine
    Relays,       \* the relays a checkout may be configured with
    Off,          \* the VPN is disconnected
    None          \* nobody

VARIABLES
    user,         \* the checkout at the machine, or None
    owner,        \* the checkout with an open obligation, or None
    goal,         \* the relay it promised to leave connected, or None
    machine       \* [vpn, excluded]: the connection, the Chrome exclusion

fenceVars == <<user, owner, goal, machine>>

Machines == [vpn : Relays \cup {Off}, excluded : BOOLEAN]

FenceInit ==
    /\ user = None
    /\ owner = None
    /\ goal = None
    /\ machine \in Machines

Come(c) ==
    /\ user = None
    /\ user' = c
    /\ UNCHANGED <<owner, goal, machine>>

\* Leaving, or dying, with or without an open obligation.
Go ==
    /\ user' = None
    /\ UNCHANGED <<owner, goal, machine>>

Open(r) ==
    /\ user # None /\ owner = None
    /\ owner' = user
    /\ goal' = r
    /\ UNCHANGED <<user, machine>>

Touch ==
    /\ user # None /\ owner \in {None, user}
    /\ machine' \in Machines
    /\ UNCHANGED <<user, owner, goal>>

Close ==
    /\ user # None /\ owner = user
    /\ machine = [vpn |-> goal, excluded |-> TRUE]
    /\ owner' = None
    /\ goal' = None
    /\ user' \in {user, None}
    /\ UNCHANGED machine

FenceNext ==
    \/ \E c \in Checkouts : Come(c)
    \/ \E r \in Relays : Open(r)
    \/ Go \/ Touch \/ Close

Fence == FenceInit /\ [][FenceNext]_fenceVars
=============================================================================
