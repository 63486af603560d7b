----------------------- MODULE OnlineDirectoryProofs -----------------------
(***************************************************************************)
(* For any users, time to live and number of timers: a user online has a   *)
(* timer that will take them offline, no other timer is left in the wheel, *)
(* and the directory keeps the promise of TtlDirectory.                    *)
(*                                                                         *)
(* Three facts have to be added to make this inductive.  Generations only  *)
(* grow, and a generation belongs to one user, or stopping the timer of    *)
(* one would stop that of another.  A waiting timer and the idle time of   *)
(* its user always add up to TTL.  And a collected timer that is still     *)
(* wanted was not refreshed: its user has been idle for the whole TTL,     *)
(* which is what Expire of the abstract directory asks for.                *)
(***************************************************************************)
EXTENDS OnlineDirectory, TLAPS

\* A leaf that names no prover goes to Zenon first and then to the SMT solver.
USE ZenonT(2), SMTT(30), ZenonT(30)

Generations ==
    /\ \A u \in Uids : genOf[u] <= nextGen
    /\ \A t \in wheel : t.gen <= nextGen
    /\ \A t \in ready : t.gen <= nextGen
    /\ \A u, v \in Uids : genOf[u] = genOf[v] /\ genOf[u] # 0 => u = v

Clocks ==
    /\ \A t \in wheel : idle[t.uid] + t.left = TTL
    /\ \A t \in ready : t.gen = genOf[t.uid] => idle[t.uid] = TTL

DirInv == TypeOK /\ EntryHasTimer /\ NoStaleTimerInWheel /\ Generations /\ Clocks

\* The directory starts empty.
LEMMA InitDirInv == Init => DirInv
BY DirectoryAssumption DEF Init, DirInv, TypeOK, EntryHasTimer, NoStaleTimerInWheel,
   Generations, Clocks, Online, Entries

\* A new timer replaces the one the user had.
LEMMA RescheduleInv ==
    ASSUME DirInv, NEW u \in Uids, Reschedule(u), UNCHANGED <<ready, ended>>,
           entries' \in [Uids -> Entries \cup {NoEntry}], entries'[u] # NoEntry,
           \A v \in Uids \ {u} : entries'[v] = entries[v]
    PROVE  DirInv'
<1> DEFINE new == [uid |-> u, gen |-> nextGen + 1, left |-> TTL]
<1> USE DirectoryAssumption DEF DirInv, Reschedule
<1>1. /\ nextGen + 1 \in 1..MaxGen /\ nextGen' = nextGen + 1
      /\ new \in [uid : Uids, gen : 1..MaxGen, left : 1..TTL]
  BY DEF TypeOK
<1>2. wheel' = {t \in wheel : t.gen # genOf[u]} \cup {new}
  BY DEF Restarted, Stopped
<1>3. /\ genOf' = [genOf EXCEPT ![u] = nextGen + 1] /\ genOf \in [Uids -> 0..MaxGen]
      /\ idle' = [idle EXCEPT ![u] = 0] /\ idle \in [Uids -> 0..TTL]
  BY DEF TypeOK
<1> HIDE DEF new, Reschedule
<1>4. \A t \in wheel' : t = new \/ (t \in wheel /\ t.uid # u)
  BY <1>2 DEF NoStaleTimerInWheel
<1>5. new.uid = u /\ new.gen = nextGen + 1 /\ new.left = TTL
  BY DEF new
<1>6. TypeOK'
  BY <1>1, <1>2, <1>3 DEF TypeOK
<1>7. NoStaleTimerInWheel'
  BY <1>1, <1>3, <1>4, <1>5 DEF NoStaleTimerInWheel, Online, TypeOK
<1>8. EntryHasTimer'
  <2> SUFFICES ASSUME NEW v \in Uids
               PROVE  /\ entries'[v] # NoEntry <=> genOf'[v] # 0
                      /\ entries'[v] # NoEntry =>
                            \/ \E t \in wheel' : t.uid = v /\ t.gen = genOf'[v]
                            \/ \E t \in ready : t.uid = v /\ t.gen = genOf'[v]
    BY DEF EntryHasTimer, Online
  <2>1. CASE v = u
    BY <1>1, <1>2, <1>3, <1>5, <2>1 DEF TypeOK
  <2>2. CASE v # u
    <3>1. genOf'[v] = genOf[v] /\ entries'[v] = entries[v]
      BY <1>3, <2>2
    <3>2. genOf[v] # 0 => genOf[v] # genOf[u]
      BY <2>2 DEF Generations
    <3> QED
      BY <1>2, <3>1, <3>2 DEF EntryHasTimer, Online
  <2> QED
    BY <2>1, <2>2
<1>9. Generations'
  BY <1>1, <1>3, <1>4, <1>5 DEF Generations, TypeOK
<1>10. Clocks'
  <2>1. \A t \in wheel' : idle'[t.uid] + t.left = TTL
    BY <1>3, <1>4, <1>5 DEF Clocks, TypeOK
  <2>2. \A t \in ready' : t.gen = genOf'[t.uid] => idle'[t.uid] = TTL
    BY <1>1, <1>3 DEF Clocks, TypeOK, Generations
  <2> QED
    BY <2>1, <2>2 DEF Clocks
<1> QED
  BY <1>6, <1>7, <1>8, <1>9, <1>10

\* A login keeps the room of the entry it replaces.
LEMMA RegisterInv ==
    ASSUME DirInv, NEW u \in Uids, NEW gw \in Gateways, Register(u, gw) PROVE DirInv'
<1>1. RoomOf(u) \in Rooms \cup {NoRoom}
  BY DEF RoomOf, Online, DirInv, TypeOK, Entries
<1>2. [gw |-> gw, room |-> RoomOf(u)] \in Entries
  BY <1>1 DEF Entries
<1>3. [gw |-> gw, room |-> RoomOf(u)] # NoEntry
  BY <1>2, DirectoryAssumption DEF Entries
<1>4. /\ entries' \in [Uids -> Entries \cup {NoEntry}] /\ entries'[u] # NoEntry
      /\ \A v \in Uids \ {u} : entries'[v] = entries[v]
  BY <1>2, <1>3 DEF Register, DirInv, TypeOK
<1> QED
  BY <1>4, RescheduleInv DEF Register

\* A refresh.
LEMMA TouchInv == ASSUME DirInv, NEW u \in Uids, Touch(u) PROVE DirInv'
BY RescheduleInv DEF Touch, Online, DirInv, TypeOK

\* The entry of a user and its timer go together.
LEMMA UnregisterInv == ASSUME DirInv, NEW u \in Uids, Unregister(u) PROVE DirInv'
<1> USE DirectoryAssumption DEF DirInv, Unregister
<1>1. /\ wheel' = {t \in wheel : t.gen # genOf[u]}
      /\ genOf' = [genOf EXCEPT ![u] = 0] /\ genOf \in [Uids -> 0..MaxGen]
      /\ entries' = [entries EXCEPT ![u] = NoEntry]
      /\ UNCHANGED <<nextGen, ready, idle>>
  BY DEF Stopped, TypeOK
<1>2. TypeOK'
  BY <1>1 DEF TypeOK
<1>3. \A t \in wheel' : t \in wheel /\ t.uid # u
  BY <1>1 DEF NoStaleTimerInWheel
<1>4. NoStaleTimerInWheel'
  BY <1>1, <1>3 DEF NoStaleTimerInWheel, Online, TypeOK
<1>5. EntryHasTimer'
  BY <1>1 DEF EntryHasTimer, Online, TypeOK, Generations
<1>6. Generations'
  BY <1>1 DEF Generations, TypeOK
<1>7. Clocks'
  BY <1>1 DEF Clocks, TypeOK
<1> QED
  BY <1>2, <1>4, <1>5, <1>6, <1>7

\* A room is bound or unbound: no timer is touched.
LEMMA RoomInv ==
    ASSUME DirInv, NEW u \in Uids, NEW room \in Rooms \cup {NoRoom}, Online(u),
           entries' = [entries EXCEPT ![u].room = room],
           UNCHANGED <<genOf, nextGen, wheel, ready, idle, ended>>
    PROVE  DirInv'
<1>1. entries[u] \in Entries /\ entries \in [Uids -> Entries \cup {NoEntry}]
  BY DEF Online, DirInv, TypeOK
<1>2. entries'[u] \in Entries
  BY <1>1 DEF Entries
<1>3. entries'[u] # NoEntry
  BY <1>2, DirectoryAssumption DEF Entries
<1>4. /\ entries' \in [Uids -> Entries \cup {NoEntry}]
      /\ \A v \in Uids : entries'[v] # NoEntry <=> entries[v] # NoEntry
  BY <1>1, <1>2, <1>3 DEF Online
<1> QED
  BY <1>4 DEF DirInv, TypeOK, EntryHasTimer, NoStaleTimerInWheel, Generations, Clocks, Online

\* A tick: a timer is collected when its user has been idle for TTL.
LEMMA AdvanceInv == ASSUME DirInv, Advance PROVE DirInv'
<1> USE DirectoryAssumption DEF DirInv, Advance
<1>1. \A t \in wheel' : \E x \in wheel : /\ x.left > 1 /\ t.uid = x.uid /\ t.gen = x.gen
                                         /\ t.left = x.left - 1
                                         /\ t \in [uid : Uids, gen : 1..MaxGen, left : 1..TTL]
  BY DEF Remaining, TypeOK
<1>2. \A x \in wheel : x.left > 1 => \E t \in wheel' : t.uid = x.uid /\ t.gen = x.gen
  <2> SUFFICES ASSUME NEW x \in wheel, x.left > 1
               PROVE  \E t \in wheel' : t.uid = x.uid /\ t.gen = x.gen
    OBVIOUS
  <2> DEFINE t == [x EXCEPT !.left = @ - 1]
  <2>1. t \in wheel'
    BY DEF Remaining
  <2>2. t.uid = x.uid /\ t.gen = x.gen
    BY DEF TypeOK
  <2> QED
    BY <2>1, <2>2
<1>3. \A t \in ready' : \E x \in wheel : x.left = 1 /\ t = [uid |-> x.uid, gen |-> x.gen]
  OBVIOUS
<1>4. \A x \in wheel : x.left = 1 => [uid |-> x.uid, gen |-> x.gen] \in ready'
  OBVIOUS
<1>5. /\ idle' = [u \in Uids |-> IF idle[u] < TTL THEN idle[u] + 1 ELSE TTL]
      /\ UNCHANGED <<entries, genOf, nextGen, ended>> /\ ready = {}
  OBVIOUS
<1> HIDE DEF Advance
<1>6. TypeOK'
  BY <1>1, <1>3, <1>5 DEF TypeOK
<1>7. NoStaleTimerInWheel'
  BY <1>1, <1>5 DEF NoStaleTimerInWheel, Online
<1>8. EntryHasTimer'
  <2> SUFFICES ASSUME NEW u \in Uids
               PROVE  /\ entries[u] # NoEntry <=> genOf[u] # 0
                      /\ entries[u] # NoEntry =>
                            \/ \E t \in wheel' : t.uid = u /\ t.gen = genOf[u]
                            \/ \E t \in ready' : t.uid = u /\ t.gen = genOf[u]
    BY <1>5 DEF EntryHasTimer, Online
  <2>1. entries[u] # NoEntry <=> genOf[u] # 0
    BY DEF EntryHasTimer, Online
  <2>2. ASSUME NEW x \in wheel, x.uid = u, x.gen = genOf[u]
        PROVE  \/ \E t \in wheel' : t.uid = u /\ t.gen = genOf[u]
               \/ \E t \in ready' : t.uid = u /\ t.gen = genOf[u]
    <3>1. CASE x.left > 1
      BY <1>2, <2>2, <3>1
    <3>2. CASE x.left = 1
      <4> DEFINE t == [uid |-> x.uid, gen |-> x.gen]
      <4>1. t \in ready' /\ t.uid = u /\ t.gen = genOf[u]
        BY <1>4, <2>2, <3>2
      <4> QED
        BY <4>1
    <3> QED
      BY <3>1, <3>2 DEF TypeOK
  <2> QED
    BY <1>5, <2>1, <2>2 DEF EntryHasTimer, Online
<1>9. Generations'
  BY <1>1, <1>3, <1>5 DEF Generations
<1>10. Clocks'
  BY <1>1, <1>3, <1>5 DEF Clocks, TypeOK
<1> QED
  BY <1>6, <1>7, <1>8, <1>9, <1>10

\* The callback of a collected timer: an entry that was refreshed since keeps
\* its timer, one that was not goes.
LEMMA ExpireInv == ASSUME DirInv, NEW t \in ready, expire(t) PROVE DirInv'
<1> USE DirectoryAssumption DEF DirInv
<1>1. t.uid \in Uids /\ t.gen \in 1..MaxGen /\ ready' = ready \ {t}
      /\ UNCHANGED <<nextGen, wheel, idle>>
  BY DEF expire, TypeOK
<1>2. CASE Wanted(t)
  <2>1. /\ entries' = [entries EXCEPT ![t.uid] = NoEntry]
        /\ genOf' = [genOf EXCEPT ![t.uid] = 0]
        /\ ended' = [ended EXCEPT ![t.uid] = "expire"]
    BY <1>2 DEF expire
  <2>2. genOf[t.uid] = t.gen
    BY <1>2 DEF Wanted
  <2>3. \A x \in wheel : x.uid # t.uid
    BY <1>1, <2>2 DEF NoStaleTimerInWheel, Clocks, TypeOK
  <2>4. TypeOK'
    BY <1>1, <2>1 DEF TypeOK
  <2>5. NoStaleTimerInWheel'
    BY <1>1, <2>1, <2>3 DEF NoStaleTimerInWheel, Online, TypeOK
  <2>6. EntryHasTimer'
    BY <1>1, <2>1 DEF EntryHasTimer, Online, TypeOK
  <2>7. Generations'
    BY <1>1, <2>1 DEF Generations, TypeOK
  <2>8. Clocks'
    BY <1>1, <2>1 DEF Clocks, TypeOK
  <2> QED
    BY <2>4, <2>5, <2>6, <2>7, <2>8
<1>3. CASE ~Wanted(t)
  <2>1. UNCHANGED <<entries, genOf, ended>>
    BY <1>3 DEF expire
  <2>2. EntryHasTimer'
    BY <1>1, <1>3, <2>1 DEF EntryHasTimer, Online, Wanted
  <2> QED
    BY <1>1, <2>1, <2>2 DEF TypeOK, NoStaleTimerInWheel, Generations, Clocks, Online
<1> QED
  BY <1>2, <1>3

\* Every step of the directory and of the wheel keeps the invariant.
LEMMA NextDirInv == DirInv /\ [Next]_vars => DirInv'
<1> SUFFICES ASSUME DirInv, [Next]_vars PROVE DirInv'
  OBVIOUS
<1>1. ASSUME NEW u \in Uids, NEW room \in Rooms, BindRoom(u, room) PROVE DirInv'
  BY <1>1, RoomInv DEF BindRoom
<1>2. ASSUME NEW u \in Uids, UnbindRoom(u) PROVE DirInv'
  BY <1>2, RoomInv DEF UnbindRoom
<1>3. CASE UNCHANGED vars
  BY <1>3 DEF vars, DirInv, TypeOK, EntryHasTimer, NoStaleTimerInWheel, Generations, Clocks, Online
<1> QED
  BY <1>1, <1>2, <1>3, RegisterInv, TouchInv, UnregisterInv, AdvanceInv, ExpireInv
     DEF Next, Operation

\* What the directory relies on, along every behaviour.
THEOREM DirInvariance == Spec => []DirInv
BY InitDirInv, NextDirInv, PTL DEF Spec

\* Exactly the users online have a timer that can still take them offline.
THEOREM TimerTheorem == Spec => []EntryHasTimer
<1>1. DirInv => EntryHasTimer
  BY DEF DirInv
<1> QED
  BY <1>1, DirInvariance, PTL

\* Register, Touch and Unregister leave no timer behind in the wheel.
THEOREM NoStaleTimerTheorem == Spec => []NoStaleTimerInWheel
<1>1. DirInv => NoStaleTimerInWheel
  BY DEF DirInv
<1> QED
  BY <1>1, DirInvariance, PTL

\* The generation check of expire is enough: the directory does what
\* TtlDirectory promises, whatever comes between the collection of a timer and
\* its callback.
THEOREM DirectoryRefinement == Spec => ImplementsTtlDirectory
<1>1. Init => Promise!Init
  BY DEF Init, Promise!Init
<1>2. DirInv /\ [Next]_vars => [Promise!Next]_(Promise!vars)
  <2> SUFFICES ASSUME DirInv, [Next]_vars PROVE [Promise!Next]_(Promise!vars)
    OBVIOUS
  <2>1. ASSUME NEW u \in Uids, NEW gw \in Gateways, Register(u, gw) PROVE Promise!Next
    <3>1. Promise!Register(u, gw)
      BY <2>1 DEF Register, Promise!Register, Reschedule, RoomOf, Online, Promise!Online
    <3> QED
      BY <3>1 DEF Promise!Next
  <2>2. ASSUME NEW u \in Uids, NEW room \in Rooms, BindRoom(u, room) PROVE Promise!Next
    <3>1. Promise!Bind(u, room)
      BY <2>2 DEF BindRoom, Promise!Bind, Online, Promise!Online
    <3> QED
      BY <3>1 DEF Promise!Next
  <2>3. ASSUME NEW u \in Uids, UnbindRoom(u) PROVE Promise!Next
    <3>1. Promise!Bind(u, NoRoom)
      BY <2>3 DEF UnbindRoom, Promise!Bind, Online, Promise!Online
    <3> QED
      BY <3>1 DEF Promise!Next
  <2>4. ASSUME NEW u \in Uids, Touch(u) PROVE Promise!Next
    BY <2>4 DEF Touch, Reschedule, Promise!Touch, Online, Promise!Online, Promise!Next
  <2>5. ASSUME NEW u \in Uids, Unregister(u) PROVE Promise!Next
    BY <2>5 DEF Unregister, Promise!Unregister, Online, Promise!Online, Promise!Next
  <2>6. CASE Advance
    BY <2>6 DEF Advance, Promise!Tick, Promise!Next
  <2>7. ASSUME NEW t \in ready, expire(t), Wanted(t) PROVE Promise!Next
    <3>1. t.uid \in Uids /\ t.gen # 0 /\ TTL \in Nat
      BY DirectoryAssumption DEF DirInv, TypeOK
    <3>2. Online(t.uid) /\ idle[t.uid] = TTL
      BY <2>7, <3>1 DEF Wanted, DirInv, EntryHasTimer, Clocks
    <3>3. Promise!Expire(t.uid)
      BY <2>7, <3>1, <3>2 DEF expire, Promise!Expire, Online, Promise!Online
    <3> QED
      BY <3>1, <3>3 DEF Promise!Next
  <2>8. ASSUME NEW t \in ready, expire(t), ~Wanted(t) PROVE UNCHANGED Promise!vars
    BY <2>8 DEF expire, Promise!vars
  <2>9. CASE UNCHANGED vars
    BY <2>9 DEF vars, Promise!vars
  <2> QED
    BY <2>1, <2>2, <2>3, <2>4, <2>5, <2>6, <2>7, <2>8, <2>9 DEF Next, Operation
<1> QED
  BY <1>1, <1>2, DirInvariance, PTL DEF Spec, ImplementsTtlDirectory, Promise!Spec
=============================================================================
