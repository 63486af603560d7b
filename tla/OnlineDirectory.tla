--------------------------- MODULE OnlineDirectory ---------------------------
(***************************************************************************)
(* The directory of online users (onlinesvr, directory.go) on top of the   *)
(* time wheel.  Every operation holds the directory's lock and is one      *)
(* action.  The wheel collects the timers due at a tick and runs their     *)
(* callbacks afterwards, without the directory's lock: any operation may   *)
(* come between the two, and the generation tells a late callback that it  *)
(* is no longer wanted.                                                    *)
(***************************************************************************)
EXTENDS Naturals, FiniteSets

CONSTANTS Uids, Gateways, Rooms,
          NoEntry,   \* no entry for the user
          NoRoom,    \* the empty RoomNodeID and GameID
          TTL,       \* time to live of an entry, in ticks
          MaxGen     \* bound on the timers made

ASSUME DirectoryAssumption ==
    /\ TTL \in Nat \ {0}
    /\ MaxGen \in Nat
    /\ NoRoom \notin Rooms
    /\ NoEntry \notin [gw : Gateways, room : Rooms \cup {NoRoom}]

VARIABLES entries,   \* d.entries: gateway and room of each user online
          genOf,     \* d.genOf and d.timers: 0 or the timer of the user
          nextGen,   \* d.nextGen
          wheel,     \* timers waiting: user, generation, ticks left
          ready,     \* timers whose callback is about to run
          idle,      \* ticks since LastActive, counted up to TTL
          ended      \* per user, what took the last entry away

vars == <<entries, genOf, nextGen, wheel, ready, idle, ended>>

Entries == [gw : Gateways, room : Rooms \cup {NoRoom}]
Online(u) == entries[u] # NoEntry

TypeOK ==
    /\ entries \in [Uids -> Entries \cup {NoEntry}]
    /\ genOf \in [Uids -> 0..MaxGen]
    /\ nextGen \in 0..MaxGen
    /\ wheel \subseteq [uid : Uids, gen : 1..MaxGen, left : 1..TTL]
    /\ ready \subseteq [uid : Uids, gen : 1..MaxGen]
    /\ idle \in [Uids -> 0..TTL]
    /\ ended \in [Uids -> {"nothing", "unregister", "expire"}]

Init ==
    /\ entries = [u \in Uids |-> NoEntry]
    /\ genOf = [u \in Uids |-> 0]
    /\ nextGen = 0
    /\ wheel = {}
    /\ ready = {}
    /\ idle = [u \in Uids |-> 0]
    /\ ended = [u \in Uids |-> "nothing"]

-----------------------------------------------------------------------------
(* The timer of an entry *)

\* Wrong variant: the timer that is being replaced stays in the wheel.
StoppedKeeps(u) == wheel

\* tw.Stop of the timer the directory holds for the user; a timer that was
\* already collected is no longer in the wheel.
Stopped(u) == {t \in wheel : t.gen # genOf[u]}

\* Wrong variant: the new timer is stored before the stored one is stopped,
\* so that the new one is stopped and the old one is not.
RestartedSwapped(u) == wheel

\* The old timer is stopped, then the new one is made.
Restarted(u) ==
    Stopped(u) \cup {[uid |-> u, gen |-> nextGen + 1, left |-> TTL]}

\* scheduleExpire, after the old timer was stopped.
Reschedule(u) ==
    /\ nextGen < MaxGen
    /\ nextGen' = nextGen + 1
    /\ genOf' = [genOf EXCEPT ![u] = nextGen']
    /\ wheel' = Restarted(u)
    /\ idle' = [idle EXCEPT ![u] = 0]

\* Wrong variant: a callback acts for whatever timer the user has now.
WantedAlways(t) == Online(t.uid)

\* expire acts only for the generation it was made for.
Wanted(t) == genOf[t.uid] = t.gen

-----------------------------------------------------------------------------
(* Operations *)

\* The room binding Register copies from the entry it replaces.
RoomOf(u) == IF Online(u) THEN entries[u].room ELSE NoRoom

Register(u, gw) ==
    /\ entries' = [entries EXCEPT ![u] = [gw |-> gw, room |-> RoomOf(u)]]
    /\ Reschedule(u)
    /\ UNCHANGED <<ready, ended>>

Touch(u) ==
    /\ Online(u)
    /\ Reschedule(u)
    /\ UNCHANGED <<entries, ready, ended>>

Unregister(u) ==
    /\ Online(u)
    /\ wheel' = Stopped(u)
    /\ entries' = [entries EXCEPT ![u] = NoEntry]
    /\ genOf' = [genOf EXCEPT ![u] = 0]
    /\ ended' = [ended EXCEPT ![u] = "unregister"]
    /\ UNCHANGED <<nextGen, ready, idle>>

BindRoom(u, room) ==
    /\ Online(u)
    /\ entries' = [entries EXCEPT ![u].room = room]
    /\ UNCHANGED <<genOf, nextGen, wheel, ready, idle, ended>>

UnbindRoom(u) ==
    /\ Online(u)
    /\ entries' = [entries EXCEPT ![u].room = NoRoom]
    /\ UNCHANGED <<genOf, nextGen, wheel, ready, idle, ended>>

-----------------------------------------------------------------------------
(* The time wheel's goroutine *)

\* Wrong variant: the timers that are collected also stay in the wheel.
RemainingAll == {[t EXCEPT !.left = @ - 1] : t \in wheel}

\* The timers that are not due yet, one tick later.
Remaining == {[t EXCEPT !.left = @ - 1] : t \in {x \in wheel : x.left > 1}}

\* One tick of the wheel: the due timers are collected under its lock.
Advance ==
    /\ ready = {}
    /\ ready' = {[uid |-> t.uid, gen |-> t.gen] : t \in {x \in wheel : x.left = 1}}
    /\ wheel' = Remaining
    /\ idle' = [u \in Uids |-> IF idle[u] < TTL THEN idle[u] + 1 ELSE TTL]
    /\ UNCHANGED <<entries, genOf, nextGen, ended>>

\* The callback of a collected timer.
expire(t) ==
    /\ t \in ready
    /\ ready' = ready \ {t}
    /\ IF Wanted(t)
       THEN /\ entries' = [entries EXCEPT ![t.uid] = NoEntry]
            /\ genOf' = [genOf EXCEPT ![t.uid] = 0]
            /\ ended' = [ended EXCEPT ![t.uid] = "expire"]
       ELSE UNCHANGED <<entries, genOf, ended>>
    /\ UNCHANGED <<nextGen, wheel, idle>>

Operation(u) ==
    \/ \E gw \in Gateways : Register(u, gw)
    \/ \E room \in Rooms : BindRoom(u, room)
    \/ Touch(u)
    \/ Unregister(u)
    \/ UnbindRoom(u)

Next ==
    \/ \E u \in Uids : Operation(u)
    \/ Advance
    \/ \E t \in ready : expire(t)

Spec == Init /\ [][Next]_vars

\* The wheel's goroutine keeps ticking and running callbacks.
Fairness == WF_vars(Advance) /\ WF_vars(\E t \in ready : expire(t))

FairSpec == Spec /\ Fairness

-----------------------------------------------------------------------------
(* Properties *)

\* A user is online exactly while one timer can still take them offline: the
\* current generation is waiting in the wheel or already collected, so no
\* entry is left that nothing would ever expire.
EntryHasTimer ==
    \A u \in Uids :
        /\ Online(u) <=> genOf[u] # 0
        /\ Online(u) => \/ \E t \in wheel : t.uid = u /\ t.gen = genOf[u]
                        \/ \E t \in ready : t.uid = u /\ t.gen = genOf[u]

\* The wheel holds at most one timer per user and no timer of a user that is
\* offline: refreshing and unregistering leave nothing behind.
NoStaleTimerInWheel ==
    \A t \in wheel : Online(t.uid) /\ t.gen = genOf[t.uid]

\* The directory keeps the promise of a directory with a time to live: an
\* entry refreshed while its old timer was firing survives, and the room
\* binding survives every new login.
Promise == INSTANCE TtlDirectory
ImplementsTtlDirectory == Promise!Spec

\* An entry that nothing refreshes is gone in the end.
IdleEntriesExpire ==
    \A u \in Uids, g \in 1..MaxGen : (genOf[u] = g) ~> (genOf[u] # g)
=============================================================================
