------------------------------ MODULE TimeWheel ------------------------------
(***************************************************************************)
(* The hierarchical time wheel (pkg/timewheel): Levels wheels of Slots     *)
(* buckets each, bucket i of level l covering G[l] ticks.  A timer is put  *)
(* in the level its delay needs and moves down (cascades) when its bucket  *)
(* comes up.  add, Stop and the first half of Advance run under the lock   *)
(* and are one action each; the callbacks Advance collected run after the  *)
(* unlock, so that Stop and add come in between.                           *)
(***************************************************************************)
EXTENDS Naturals, FiniteSets

CONSTANTS Slots,       \* buckets per level
          Levels,      \* number of levels
          TickLen,     \* length of a tick, in units of time
          MaxWord,     \* largest machine word
          MaxTimers,   \* bound on the timers made
          MaxTick,     \* bound on the ticks
          MaxDuration  \* bound on the durations asked for, in units of time

ASSUME WheelAssumption ==
    /\ {Slots, Levels, TickLen, MaxTimers, MaxTick} \subseteq Nat \ {0}
    /\ {MaxWord, MaxDuration} \subseteq Nat
    /\ Slots <= MaxWord

VARIABLES currentTick,  \* tw.currentTick
          nextID,       \* tw.nextID
          taskMap,      \* keys of tw.taskMap
          task,         \* per timer, the task record
          buckets,      \* tw.levels[l].buckets[s], keys
          ready         \* tasks Advance collected, callback not yet run

vars == <<currentTick, nextID, taskMap, task, buckets, ready>>

Ids == 1..MaxTimers
Last == Levels - 1
Buckets == (0..Last) \X (0..(Slots - 1))

mulClamp(a, b) == IF a * b > MaxWord THEN MaxWord ELSE a * b

G[l \in 0..Last] == IF l = 0 THEN 1 ELSE mulClamp(G[l - 1], Slots)

durationToTicks(d) == (d + TickLen - 1) \div TickLen

NoTask == [expireTick |-> 0, intervalTick |-> 0, level |-> 0, slot |-> 0]

TypeOK ==
    /\ currentTick \in 0..MaxTick
    /\ nextID \in 0..MaxTimers
    /\ taskMap \subseteq Ids
    /\ task \in [Ids -> [expireTick : Nat, intervalTick : Nat,
                         level : 0..Last, slot : 0..(Slots - 1)]]
    /\ buckets \in [Buckets -> SUBSET Ids]
    /\ ready \subseteq Ids

Init ==
    /\ currentTick = 0
    /\ nextID = 0
    /\ taskMap = {}
    /\ task = [id \in Ids |-> NoTask]
    /\ buckets = [b \in Buckets |-> {}]
    /\ ready = {}

-----------------------------------------------------------------------------
(* Where a timer goes *)

\* The lowest level whose round is longer than the delay, or the last one.
pickLevel(delay) ==
    CHOOSE l \in 0..Last :
        /\ l = Last \/ delay < mulClamp(G[l], Slots)
        /\ \A k \in 0..(l - 1) : delay >= mulClamp(G[k], Slots)

currentSlot(level, now) == (now \div G[level]) % Slots

\* Wrong variant: the slot is not taken modulo the size of the level.
PlaceNoMod(expire, now) ==
    IF expire > now
    THEN LET l == pickLevel(expire - now) IN <<l, expire \div G[l]>>
    ELSE <<0, currentSlot(0, now)>>

\* The level and slot insertLocked computes.
Place(expire, now) ==
    IF expire > now
    THEN LET l == pickLevel(expire - now) IN <<l, (expire \div G[l]) % Slots>>
    ELSE <<0, currentSlot(0, now)>>

\* insertLocked for each task of S; w holds the fields of the wheel.
Insert(w, S, now) ==
    LET at(id) == Place(w.task[id].expireTick, now) IN
    [task    |-> [id \in Ids |-> IF id \in S
                                 THEN [w.task[id] EXCEPT !.level = at(id)[1],
                                                         !.slot = at(id)[2]]
                                 ELSE w.task[id]],
     taskMap |-> w.taskMap \cup S,
     buckets |-> [b \in Buckets |-> w.buckets[b] \cup {id \in S : at(id) = b}]]

Wheel == [task |-> task, taskMap |-> taskMap, buckets |-> buckets]

SetWheel(w) ==
    /\ task' = w.task
    /\ taskMap' = w.taskMap
    /\ buckets' = w.buckets

-----------------------------------------------------------------------------
(* Advance *)

\* cascadeLocked, when the round of the level below is complete.
Cascade(w, level, now) ==
    LET b == <<level, currentSlot(level, now)>> IN
    IF now % G[level] = 0
    THEN Insert([w EXCEPT !.buckets[b] = {}], w.buckets[b], now)
    ELSE w

\* Wrong variant: the last level is never cascaded.
CascadeAllButLast(w, now) ==
    LET after[level \in 1..Levels] ==
            IF level >= Last THEN w ELSE Cascade(after[level + 1], level, now)
    IN after[1]

\* From the last level down to level 1.
CascadeAll(w, now) ==
    LET after[level \in 1..Levels] ==
            IF level = Levels THEN w ELSE Cascade(after[level + 1], level, now)
    IN after[1]

DueIn(w, now) ==
    {id \in w.buckets[<<0, currentSlot(0, now)>>] : w.task[id].expireTick <= now}

\* drainReadyLocked: what is due leaves, periodic tasks and tasks that share
\* the bucket but are not due are inserted again.
Drain(w, now) ==
    LET b == <<0, currentSlot(0, now)>>
        due == DueIn(w, now)
        again == {id \in due : w.task[id].intervalTick > 0}
    IN Insert([task |-> [id \in Ids |->
                            IF id \in again
                            THEN [w.task[id] EXCEPT !.expireTick =
                                                  now + w.task[id].intervalTick]
                            ELSE w.task[id]],
               taskMap |-> w.taskMap \ due,
               buckets |-> [w.buckets EXCEPT ![b] = {}]],
              (w.buckets[b] \ due) \cup again, now)

\* Advance up to the unlock.  One goroutine drives the wheel, so the
\* callbacks of the tick before have all run.
Advance ==
    /\ currentTick < MaxTick
    /\ ready = {}
    /\ currentTick' = currentTick + 1
    /\ LET w == CascadeAll(Wheel, currentTick') IN
        /\ ready' = DueIn(w, currentTick')
        /\ SetWheel(Drain(w, currentTick'))
    /\ UNCHANGED nextID

\* Advance runs a collected callback.
RunCallback(id) ==
    /\ id \in ready
    /\ ready' = ready \ {id}
    /\ UNCHANGED <<currentTick, nextID, taskMap, task, buckets>>

-----------------------------------------------------------------------------
(* add and Stop *)

\* Wrong variant: a duration shorter than a tick becomes 0 ticks.
DelayTicksUnraised(d) == durationToTicks(d)

\* The delay of a new timer: at least one tick.
DelayTicks(d) == IF durationToTicks(d) < 1 THEN 1 ELSE durationToTicks(d)

add(d, interval) ==
    /\ nextID < MaxTimers
    /\ nextID' = nextID + 1
    /\ SetWheel(Insert([Wheel EXCEPT
                  !.task[nextID'] = [NoTask EXCEPT
                      !.expireTick = currentTick + DelayTicks(d),
                      !.intervalTick = durationToTicks(interval)]],
                  {nextID'}, currentTick))
    /\ UNCHANGED <<currentTick, ready>>

AfterFunc(d) == add(d, 0)

\* Tick: a duration of 0 becomes the length of a tick.
Tick(d) == LET p == IF d = 0 THEN TickLen ELSE d IN add(p, p)

\* Wrong variant: the task is forgotten but stays in its bucket.
UnlinkKeepsBucket(id) == buckets

\* Stop deletes the task from the bucket the task says it is in.
Unlink(id) == [buckets EXCEPT ![<<task[id].level, task[id].slot>>] = @ \ {id}]

Stop(id) ==
    /\ id \in taskMap
    /\ taskMap' = taskMap \ {id}
    /\ buckets' = Unlink(id)
    /\ UNCHANGED <<currentTick, nextID, task, ready>>

Next ==
    \/ \E d \in 0..MaxDuration : AfterFunc(d) \/ Tick(d)
    \/ \E id \in Ids : Stop(id) \/ RunCallback(id)
    \/ Advance

Spec == Init /\ [][Next]_vars

-----------------------------------------------------------------------------
(* Properties *)

\* taskMap and the buckets hold the same tasks, each in the one bucket its
\* record names: Stop always finds what it must remove.
BucketsAgree ==
    \A id \in Ids, b \in Buckets :
        id \in buckets[b] <=>
            id \in taskMap /\ b = <<task[id].level, task[id].slot>>

\* A waiting timer is in a bucket that comes up no later than it is due: on
\* level 0 its slot is that of its expiry, on a higher level the cascade of
\* its slot is still ahead.
PlacedInTime ==
    \A id \in taskMap :
        LET t == task[id] IN
        /\ t.expireTick > currentTick
        /\ t.slot = (t.expireTick \div G[t.level]) % Slots
        /\ t.expireTick \div G[t.level] > currentTick \div G[t.level]

\* The wheel is a timer service: every timer fires at its tick, neither
\* early nor late nor twice, through any number of cascades, and a stopped
\* one does not fire again.
Abstract == INSTANCE Timers WITH
    now <- currentTick,
    created <- nextID,
    timers <- taskMap,
    due <- [id \in Ids |-> task[id].expireTick],
    interval <- [id \in Ids |-> task[id].intervalTick],
    MaxDelay <- MaxDuration + TickLen
ImplementsTimers == Abstract!Spec
=============================================================================
