---------------------------- MODULE TtlDirectory ----------------------------
(***************************************************************************)
(* What the online directory promises, without timers or generations: an   *)
(* entry lives until it is unregistered or until nothing has refreshed it  *)
(* for TTL ticks, and carries its room binding through every refresh.      *)
(***************************************************************************)
EXTENDS Naturals

CONSTANTS Uids, Gateways, Rooms, NoEntry, NoRoom, TTL

VARIABLES entries,   \* per user, NoEntry or gateway and room
          idle,      \* per user, ticks since the last refresh
          ended      \* per user, what took the last entry away

vars == <<entries, idle, ended>>

Online(u) == entries[u] # NoEntry

Init ==
    /\ entries = [u \in Uids |-> NoEntry]
    /\ idle = [u \in Uids |-> 0]
    /\ ended = [u \in Uids |-> "nothing"]

\* Login at a gateway; an entry that is there keeps its room.
Register(u, gw) ==
    /\ entries' = [entries EXCEPT ![u] =
            [gw |-> gw, room |-> IF Online(u) THEN entries[u].room ELSE NoRoom]]
    /\ idle' = [idle EXCEPT ![u] = 0]
    /\ UNCHANGED ended

Touch(u) ==
    /\ Online(u)
    /\ idle' = [idle EXCEPT ![u] = 0]
    /\ UNCHANGED <<entries, ended>>

Bind(u, room) ==
    /\ Online(u)
    /\ entries' = [entries EXCEPT ![u].room = room]
    /\ UNCHANGED <<idle, ended>>

Unregister(u) ==
    /\ Online(u)
    /\ entries' = [entries EXCEPT ![u] = NoEntry]
    /\ ended' = [ended EXCEPT ![u] = "unregister"]
    /\ UNCHANGED idle

\* Only an entry nothing refreshed for the whole TTL may expire.
Expire(u) ==
    /\ Online(u)
    /\ idle[u] >= TTL
    /\ entries' = [entries EXCEPT ![u] = NoEntry]
    /\ ended' = [ended EXCEPT ![u] = "expire"]
    /\ UNCHANGED idle

Tick ==
    /\ idle' = [u \in Uids |-> IF idle[u] < TTL THEN idle[u] + 1 ELSE TTL]
    /\ UNCHANGED <<entries, ended>>

Next ==
    \/ \E u \in Uids :
        \/ \E gw \in Gateways : Register(u, gw)
        \/ \E room \in Rooms \cup {NoRoom} : Bind(u, room)
        \/ Touch(u) \/ Unregister(u) \/ Expire(u)
    \/ Tick

Spec == Init /\ [][Next]_vars
=============================================================================
