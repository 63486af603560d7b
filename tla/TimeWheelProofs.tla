--------------------------- MODULE TimeWheelProofs ---------------------------
(***************************************************************************)
(* The time wheel is a timer service, for any number of slots and levels,  *)
(* any length of a tick, any machine word and any timers: each one fires   *)
(* at its tick through all its cascades (TimersRefinement).                *)
(***************************************************************************)
EXTENDS TimeWheel, Integers, WellFoundedInduction, TLAPS

\* A leaf that names no prover goes to Zenon first and then to the SMT solver.
USE ZenonT(2), SMTT(30), ZenonT(30)

-----------------------------------------------------------------------------
(* Induction and recursion over the numbers of the levels *)

\* A set of natural numbers has a least one.
LEMMA Least ==
    ASSUME NEW T, T \subseteq Nat, T # {}
    PROVE  \E n \in T : \A m \in T : n <= m
<1>1. IsWellFoundedOn(OpToRel(<, Nat), Nat)
  BY NatLessThanWellFounded
<1>2. PICK n \in T : \A m \in T : ~(<<m, n>> \in OpToRel(<, Nat))
  BY <1>1, WFMin, Zenon
<1>3. \A m \in T : ~(m < n)
  BY <1>2 DEF OpToRel
<1> QED
  BY <1>3

\* What holds of 0, and of each number of 1..N with the one before it, holds of
\* all numbers of 0..N.
LEMMA UpTo ==
    ASSUME NEW N \in Nat, NEW T, 0 \in T, \A n \in 1..N : n - 1 \in T => n \in T
    PROVE  0..N \subseteq T
<1> SUFFICES ASSUME (0..N) \ T # {} PROVE FALSE
  OBVIOUS
<1>1. PICK n \in (0..N) \ T : \A m \in (0..N) \ T : n <= m
  <2> DEFINE U == (0..N) \ T
  <2>1. U \subseteq Nat /\ U # {}
    OBVIOUS
  <2> HIDE DEF U
  <2>2. \E n \in U : \A m \in U : n <= m
    BY <2>1, Least
  <2> QED
    BY <2>2 DEF U
<1>2. n \in 1..N /\ n - 1 \in 0..N
  BY <1>1
<1>3. n - 1 \in T
  BY <1>1, <1>2
<1> QED
  BY <1>1, <1>2, <1>3

\* f follows a recursion: it starts with a, and step gives each value from the
\* one before.
Follows(f, N, a, step) == f[0] = a /\ \A k \in 1..N : f[k] = step[k][f[k - 1]]

\* Functions of 0..N may be defined by recursion.
LEMMA Recursion ==
    ASSUME NEW N \in Nat, NEW S, NEW a \in S, NEW step \in [1..N -> [S -> S]]
    PROVE  \E f \in [0..N -> S] : Follows(f, N, a, step)
<1> DEFINE T == {n \in 0..N : \E g \in [0..n -> S] : Follows(g, n, a, step)}
<1>1. 0 \in T
  <2> DEFINE g == [k \in 0..0 |-> a]
  <2>1. g \in [0..0 -> S] /\ Follows(g, 0, a, step)
    BY DEF Follows
  <2> HIDE DEF g
  <2> QED
    BY <2>1
<1>2. ASSUME NEW n \in 1..N, n - 1 \in T PROVE n \in T
  <2>1. PICK g \in [0..n-1 -> S] : Follows(g, n - 1, a, step)
    BY <1>2
  <2> DEFINE b == step[n][g[n - 1]]
             h == [k \in 0..n |-> IF k = n THEN b ELSE g[k]]
  <2>2. b \in S
    OBVIOUS
  <2>3. h \in [0..n -> S] /\ h[0] = a /\ h[n] = b /\ \A k \in 0..n-1 : h[k] = g[k]
    BY <2>1, <2>2 DEF Follows
  <2> HIDE DEF h
  <2>4. ASSUME NEW k \in 1..n PROVE h[k] = step[k][h[k - 1]]
    <3>1. k - 1 \in 0..n-1
      OBVIOUS
    <3>2. CASE k = n
      BY <2>3, <3>1, <3>2
    <3>3. CASE k # n
      BY <2>1, <2>3, <3>1, <3>3 DEF Follows
    <3> QED
      BY <3>2, <3>3
  <2>5. Follows(h, n, a, step)
    BY <2>3, <2>4 DEF Follows
  <2> QED
    BY <2>3, <2>5
<1> HIDE DEF T
<1>3. 0..N \subseteq T
  BY <1>1, <1>2, UpTo
<1> QED
  BY <1>3 DEF T

-----------------------------------------------------------------------------
(* Whole numbers of rounds *)

\* The assumptions, one by one.
LEMMA Constants ==
    /\ Slots \in Nat \ {0} /\ Levels \in Nat \ {0} /\ TickLen \in Nat \ {0}
    /\ MaxTimers \in Nat \ {0} /\ MaxTick \in Nat \ {0} /\ MaxWord \in Nat /\ MaxDuration \in Nat
    /\ Slots <= MaxWord /\ Last \in Nat /\ Last + 1 = Levels
BY WheelAssumption DEF Last

\* A division and its rest.
LEMMA Division ==
    ASSUME NEW a \in Nat, NEW g \in Nat \ {0}
    PROVE  a \div g \in Nat /\ a % g \in 0..g-1 /\ a = (g * (a \div g)) + (a % g)
OBVIOUS

\* A bucket of level 0 covers one tick.
LEMMA ByOne == \A a \in Nat : a \div 1 = a
OBVIOUS

\* The quotient grows with the number, by one at the multiples of g.
LEMMA NextQuotient ==
    ASSUME NEW a \in Nat \ {0}, NEW g \in Nat \ {0}
    PROVE  /\ a % g # 0 => a \div g = (a - 1) \div g
           /\ a % g = 0 => a \div g = ((a - 1) \div g) + 1
OBVIOUS

\* A timer that is due g ticks or more from now comes up in a later bucket.
LEMMA FartherQuotient ==
    ASSUME NEW a \in Nat, NEW b \in Nat, NEW g \in Nat \ {0}, a + g <= b
    PROVE  b \div g > a \div g
OBVIOUS

\* At a multiple of g the quotients order the numbers.
LEMMA AtMultiple ==
    ASSUME NEW a \in Nat, NEW b \in Nat, NEW g \in Nat \ {0}, a % g = 0, b \div g >= a \div g
    PROVE  b >= a
OBVIOUS

\* A greater quotient means a greater number.
LEMMA GreaterQuotient ==
    ASSUME NEW a \in Nat, NEW b \in Nat, NEW g \in Nat \ {0}, b \div g > a \div g
    PROVE  b > a
OBVIOUS

\* The clamped product stays positive.
LEMMA MulClampPositive ==
    ASSUME NEW a \in Nat \ {0} PROVE mulClamp(a, Slots) \in Nat \ {0}
<1>1. a * Slots \in Nat \ {0}
  BY Constants
<1> QED
  BY <1>1, Constants DEF mulClamp

\* The ticks a bucket of each level covers.
LEMMA GFacts ==
    /\ G \in [0..Last -> Nat \ {0}]
    /\ G[0] = 1
    /\ \A l \in 1..Last : G[l] = mulClamp(G[l - 1], Slots)
<1> DEFINE P == Nat \ {0}
           step == [l \in 1..Last |-> [x \in P |-> mulClamp(x, Slots)]]
           Def(g) == [l \in 0..Last |-> IF l = 0 THEN 1 ELSE mulClamp(g[l - 1], Slots)]
<1>1. step \in [1..Last -> [P -> P]]
  BY MulClampPositive
<1>2. PICK f \in [0..Last -> P] : Follows(f, Last, 1, step)
  <2>1. 1 \in P /\ Last \in Nat
    BY Constants
  <2> HIDE DEF step, P
  <2> QED
    BY <1>1, <2>1, Recursion
<1>3. ASSUME NEW l \in 0..Last PROVE f[l] = IF l = 0 THEN 1 ELSE mulClamp(f[l - 1], Slots)
  <2>1. CASE l = 0
    BY <1>2, <2>1 DEF Follows
  <2>2. CASE l # 0
    <3>1. l \in 1..Last /\ l - 1 \in 0..Last
      BY <2>2, Constants
    <3> QED
      BY <1>2, <2>2, <3>1 DEF Follows
  <2> QED
    BY <2>1, <2>2
<1>4. f = Def(f)
  BY <1>3
<1>5. G = Def(G)
  <2> HIDE DEF Def
  <2>1. (CHOOSE g : g = Def(g)) = Def(CHOOSE g : g = Def(g))
    BY <1>4
  <2> QED
    BY <2>1 DEF G, Def
<1>6. \A l \in 0..Last : G[l] = IF l = 0 THEN 1 ELSE mulClamp(G[l - 1], Slots)
  BY <1>5
<1>7. G[0] = 1 /\ \A l \in 1..Last : l - 1 \in 0..Last /\ G[l] = mulClamp(G[l - 1], Slots)
  BY <1>6, Constants
<1>8. 0..Last \subseteq {l \in 0..Last : G[l] \in P}
  <2> DEFINE T == {l \in 0..Last : G[l] \in P}
  <2>1. 0 \in T
    BY <1>7, Constants
  <2>2. \A n \in 1..Last : n - 1 \in T => n \in T
    BY <1>7, MulClampPositive
  <2> HIDE DEF T
  <2>3. 0..Last \subseteq T
    BY <2>1, <2>2, Constants, UpTo
  <2> QED
    BY <2>3 DEF T
<1>9. DOMAIN G = 0..Last
  BY <1>5
<1> QED
  BY <1>5, <1>7, <1>8, <1>9

-----------------------------------------------------------------------------
(* Where a timer goes *)

\* A level above 0 is picked only for a delay that is no shorter than one of
\* its buckets.
LEMMA PickLevel ==
    ASSUME NEW delay \in Nat
    PROVE  /\ pickLevel(delay) \in 0..Last
           /\ pickLevel(delay) > 0 => delay >= G[pickLevel(delay)]
<1> DEFINE T == {l \in 0..Last : l = Last \/ delay < mulClamp(G[l], Slots)}
           Picked(l) == /\ l = Last \/ delay < mulClamp(G[l], Slots)
                        /\ \A k \in 0..(l - 1) : delay >= mulClamp(G[k], Slots)
<1>1. PICK l \in T : \A m \in T : l <= m
  <2>1. T \subseteq Nat /\ Last \in T
    BY Constants
  <2> HIDE DEF T
  <2> QED
    BY <2>1, Least
<1>2. \A k \in 0..(l - 1) : delay >= mulClamp(G[k], Slots)
  <2> SUFFICES ASSUME NEW k \in 0..(l - 1) PROVE delay >= mulClamp(G[k], Slots)
    OBVIOUS
  <2>1. k \in 0..Last /\ k # Last /\ k \notin T
    BY <1>1, Constants
  <2>2. G[k] \in Nat \ {0}
    BY <2>1, GFacts
  <2>3. mulClamp(G[k], Slots) \in Nat
    BY <2>2, MulClampPositive
  <2> QED
    BY <2>1, <2>3
<1>3. l \in 0..Last /\ Picked(l)
  BY <1>1, <1>2
<1>4. pickLevel(delay) \in 0..Last /\ Picked(pickLevel(delay))
  <2> HIDE DEF Picked
  <2>1. (CHOOSE m \in 0..Last : Picked(m)) \in 0..Last /\ Picked(CHOOSE m \in 0..Last : Picked(m))
    BY <1>3
  <2> QED
    BY <2>1 DEF pickLevel, Picked
<1>5. ASSUME NEW m \in 0..Last, m > 0, Picked(m) PROVE delay >= G[m]
  <2>1. m \in 1..Last /\ m - 1 \in 0..(m - 1)
    BY <1>5, Constants
  <2> QED
    BY <1>5, <2>1, GFacts
<1> QED
  BY <1>4, <1>5

\* A timer is placed in the slot of its expiry; one that is not yet due comes
\* up later than now, one that is due now is on level 0.
LEMMA PlaceFacts ==
    ASSUME NEW expire \in Nat, NEW now \in Nat, expire >= now
    PROVE  \E l \in 0..Last :
              /\ Place(expire, now) = <<l, (expire \div G[l]) % Slots>>
              /\ G[l] \in Nat \ {0}
              /\ (expire \div G[l]) % Slots \in 0..(Slots - 1)
              /\ expire > now => expire \div G[l] > now \div G[l]
              /\ expire = now => l = 0
<1>1. CASE expire > now
  <2> DEFINE l == pickLevel(expire - now)
  <2>1. expire - now \in Nat
    BY <1>1
  <2>2. l \in 0..Last /\ (l > 0 => expire - now >= G[l])
    BY <2>1, PickLevel
  <2>3. Place(expire, now) = <<l, (expire \div G[l]) % Slots>>
    BY <1>1 DEF Place
  <2> HIDE DEF l
  <2>4. G[l] \in Nat \ {0} /\ (l = 0 => G[l] = 1)
    BY <2>2, GFacts
  <2>5. expire - now >= G[l]
    BY <1>1, <2>2, <2>4
  <2>6. expire \div G[l] > now \div G[l]
    BY <2>4, <2>5, FartherQuotient
  <2>7. (expire \div G[l]) % Slots \in 0..(Slots - 1)
    BY <2>4, Division, Constants
  <2> QED
    BY <1>1, <2>2, <2>3, <2>4, <2>6, <2>7
<1>2. CASE expire = now
  <2>1. 0 \in 0..Last /\ G[0] = 1
    BY Constants, GFacts
  <2>2. Place(expire, now) = <<0, (expire \div G[0]) % Slots>>
    BY <1>2 DEF Place, currentSlot
  <2>3. (expire \div G[0]) % Slots \in 0..(Slots - 1)
    BY <2>1, Division, Constants
  <2> QED
    BY <1>2, <2>1, <2>2, <2>3
<1> QED
  BY <1>1, <1>2

\* The fields of the wheel, and the bucket a task names.
Tasks == [expireTick : Nat, intervalTick : Nat, level : 0..Last, slot : 0..(Slots - 1)]
Wheels == [task : [Ids -> Tasks], taskMap : SUBSET Ids, buckets : [Buckets -> SUBSET Ids]]
At(t) == <<t.level, t.slot>>

\* The buckets hold the tasks of T, each one where it says.
Agree(w, T) ==
    \A id \in Ids, b \in Buckets : id \in w.buckets[b] <=> id \in T /\ b = At(w.task[id])

\* The task t is in the slot of its expiry.
Slotted(t) == t.slot = (t.expireTick \div G[t.level]) % Slots

\* Its bucket comes up after now.
Ahead(t, now) == t.expireTick \div G[t.level] > now \div G[t.level]

\* v is w with the tasks of S put where they belong at tick now.
Inserted(w, S, now, v) ==
    /\ v \in Wheels
    /\ v.taskMap = w.taskMap \cup S
    /\ Agree(v, v.taskMap)
    /\ \A id \in Ids : /\ v.task[id].expireTick = w.task[id].expireTick
                       /\ v.task[id].intervalTick = w.task[id].intervalTick
    /\ \A id \in Ids \ S : v.task[id] = w.task[id]
    /\ \A id \in S : /\ Slotted(v.task[id])
                     /\ w.task[id].expireTick > now => Ahead(v.task[id], now)
                     /\ w.task[id].expireTick = now => v.task[id].level = 0

\* insertLocked puts the tasks of S where they belong, and touches no other.
LEMMA InsertFacts ==
    ASSUME NEW w \in Wheels, NEW S \in SUBSET Ids, NEW now \in Nat,
           Agree(w, w.taskMap \ S),
           \A id \in S : w.task[id].expireTick >= now,
           NEW v, v = Insert(w, S, now)
    PROVE  Inserted(w, S, now, v)
<1> DEFINE at(id) == Place(w.task[id].expireTick, now)
           T == [id \in Ids |-> IF id \in S
                                THEN [w.task[id] EXCEPT !.level = at(id)[1],
                                                        !.slot = at(id)[2]]
                                ELSE w.task[id]]
           M == w.taskMap \cup S
           B == [b \in Buckets |-> w.buckets[b] \cup {id \in S : at(id) = b}]
<1>1. v = [task |-> T, taskMap |-> M, buckets |-> B]
  BY DEF Insert
<1>2. v.task = T /\ v.taskMap = M /\ v.buckets = B
  <2> HIDE DEF T, M, B
  <2> QED
    BY <1>1
<1>3. /\ w.task \in [Ids -> Tasks] /\ w.taskMap \in SUBSET Ids
      /\ w.buckets \in [Buckets -> SUBSET Ids]
  BY DEF Wheels
<1>4. ASSUME NEW id \in S
      PROVE  \E l \in 0..Last, s \in 0..(Slots - 1) :
                /\ at(id) = <<l, s>>
                /\ s = (w.task[id].expireTick \div G[l]) % Slots
                /\ w.task[id].expireTick > now =>
                        w.task[id].expireTick \div G[l] > now \div G[l]
                /\ w.task[id].expireTick = now => l = 0
  <2>1. w.task[id].expireTick \in Nat
    BY <1>3 DEF Tasks
  <2> QED
    BY <2>1, PlaceFacts
<1>5. ASSUME NEW id \in S
      PROVE  /\ T[id] \in Tasks /\ At(T[id]) = at(id) /\ at(id) \in Buckets
             /\ T[id].expireTick = w.task[id].expireTick
             /\ T[id].intervalTick = w.task[id].intervalTick
             /\ Slotted(T[id])
             /\ w.task[id].expireTick > now => Ahead(T[id], now)
             /\ w.task[id].expireTick = now => T[id].level = 0
  <2>1. PICK l \in 0..Last, s \in 0..(Slots - 1) :
                /\ at(id) = <<l, s>>
                /\ s = (w.task[id].expireTick \div G[l]) % Slots
                /\ w.task[id].expireTick > now =>
                        w.task[id].expireTick \div G[l] > now \div G[l]
                /\ w.task[id].expireTick = now => l = 0
    BY <1>4
  <2> DEFINE t == w.task[id]
  <2>2. t \in Tasks
    BY <1>3
  <2>3. T[id] = [t EXCEPT !.level = l, !.slot = s]
    <3>1. at(id)[1] = l /\ at(id)[2] = s
      BY <2>1
    <3> HIDE DEF at
    <3> QED
      BY <3>1
  <2>4. T[id] = [expireTick |-> t.expireTick, intervalTick |-> t.intervalTick,
                 level |-> l, slot |-> s]
    BY <2>2, <2>3 DEF Tasks
  <2>5. at(id) = <<l, s>> /\ t.expireTick \in Nat /\ t.intervalTick \in Nat
    BY <2>1, <2>2 DEF Tasks
  <2> HIDE DEF T, at, t
  <2>6. T[id] \in Tasks
    BY <2>4, <2>5 DEF Tasks
  <2>7. At(T[id]) = at(id) /\ at(id) \in Buckets
    BY <2>4, <2>5 DEF At, Buckets
  <2> QED
    BY <2>1, <2>4, <2>6, <2>7 DEF Slotted, Ahead, t
<1>6. \A id \in Ids \ S : T[id] = w.task[id]
  OBVIOUS
<1> HIDE DEF T, at
<1>7. v \in Wheels
  <2>1. T \in [Ids -> Tasks]
    <3>1. DOMAIN T = Ids /\ T = [id \in Ids |-> T[id]]
      BY DEF T
    <3>2. \A id \in Ids : T[id] \in Tasks
      BY <1>3, <1>5, <1>6
    <3> QED
      BY <3>1, <3>2
  <2>2. M \in SUBSET Ids /\ B \in [Buckets -> SUBSET Ids]
    BY <1>3
  <2> QED
    BY <1>1, <2>1, <2>2 DEF Wheels
<1>8. Agree(v, v.taskMap)
  <2> SUFFICES ASSUME NEW id \in Ids, NEW b \in Buckets
               PROVE  id \in B[b] <=> id \in M /\ b = At(T[id])
    BY <1>2 DEF Agree
  <2>1. id \in w.buckets[b] <=> id \in w.taskMap \ S /\ b = At(w.task[id])
    BY DEF Agree
  <2>2. id \in B[b] <=> id \in w.buckets[b] \/ (id \in S /\ at(id) = b)
    OBVIOUS
  <2>3. CASE id \in S
    BY <1>5, <2>1, <2>2, <2>3
  <2>4. CASE id \notin S
    BY <1>6, <2>1, <2>2, <2>4
  <2> QED
    BY <2>3, <2>4
<1> QED
  BY <1>2, <1>5, <1>6, <1>7, <1>8 DEF Inserted

-----------------------------------------------------------------------------
(* Cascading *)

\* w holds the tasks of w0, the levels from L on have cascaded at tick now, and
\* those below have not.
Cascaded(w0, w, L, now) ==
    /\ w \in Wheels
    /\ w.taskMap = w0.taskMap
    /\ \A id \in Ids : /\ w.task[id].expireTick = w0.task[id].expireTick
                       /\ w.task[id].intervalTick = w0.task[id].intervalTick
    /\ Agree(w, w.taskMap)
    /\ \A id \in w.taskMap :
            /\ Slotted(w.task[id])
            /\ w.task[id].level >= L => Ahead(w.task[id], now)
            /\ w.task[id].level < L => Ahead(w.task[id], now - 1)

\* A task whose bucket is ahead is due later.
LEMMA AheadLater ==
    ASSUME NEW t \in Tasks, NEW now \in Nat, Ahead(t, now)
    PROVE  t.expireTick > now
<1>1. t.expireTick \in Nat /\ t.level \in 0..Last
  BY DEF Tasks
<1>2. G[t.level] \in Nat \ {0}
  BY <1>1, GFacts
<1> QED
  BY <1>1, <1>2, GreaterQuotient DEF Ahead

\* What is ahead of a tick is ahead of the tick before it.
LEMMA AheadBefore ==
    ASSUME NEW t \in Tasks, NEW now \in Nat \ {0}, Ahead(t, now)
    PROVE  Ahead(t, now - 1)
<1> DEFINE g == G[t.level]
           e == t.expireTick
<1>1. t.level \in 0..Last /\ e \in Nat
  BY DEF Tasks
<1>2. g \in Nat \ {0}
  BY <1>1, GFacts
<1>3. e \div g > now \div g
  BY DEF Ahead
<1> HIDE DEF g, e
<1>4. e \div g > (now - 1) \div g
  <2>1. now - 1 \in Nat
    OBVIOUS
  <2>2. e \div g \in Nat /\ now \div g \in Nat /\ (now - 1) \div g \in Nat
    BY <1>1, <1>2, <2>1, Division
  <2>3. now \div g = (now - 1) \div g \/ now \div g = ((now - 1) \div g) + 1
    BY <1>2, NextQuotient
  <2> DEFINE x == e \div g
             y == now \div g
             z == (now - 1) \div g
  <2> HIDE DEF x, y, z
  <2>4. x \in Nat /\ y \in Nat /\ z \in Nat /\ (y = z \/ y = z + 1) /\ x > y
    BY <1>3, <2>2, <2>3 DEF x, y, z
  <2>5. x > z
    BY <2>4
  <2> QED
    BY <2>5 DEF x, z
<1> QED
  BY <1>4 DEF Ahead, g, e

\* What was ahead of the tick before and is not in the bucket that comes up now
\* is ahead of now; what is in it is not overdue.
LEMMA AheadNext ==
    ASSUME NEW t \in Tasks, NEW now \in Nat \ {0}, Slotted(t), Ahead(t, now - 1)
    PROVE  /\ t.expireTick >= now
           /\ \/ now % G[t.level] # 0
              \/ At(t) # <<t.level, currentSlot(t.level, now)>>
              => Ahead(t, now)
<1> DEFINE g == G[t.level]
           e == t.expireTick
<1>1. e \in Nat /\ t.level \in 0..Last
  BY DEF Tasks
<1>2. g \in Nat \ {0}
  BY <1>1, GFacts
<1>3. e \div g > (now - 1) \div g
  BY DEF Ahead
<1>4. t.expireTick >= now
  <2>1. t.expireTick > now - 1
    BY AheadLater
  <2> QED
    BY <1>1, <2>1
<1>5. CASE now % g # 0
  <2>1. now \div g = (now - 1) \div g
    BY <1>2, <1>5, NextQuotient
  <2> QED
    BY <1>3, <1>4, <2>1 DEF Ahead
<1>6. CASE now % g = 0 /\ At(t) # <<t.level, currentSlot(t.level, now)>>
  <2>1. now \div g = ((now - 1) \div g) + 1
    BY <1>2, <1>6, NextQuotient
  <2>2. (e \div g) % Slots # (now \div g) % Slots
    BY <1>6 DEF At, Slotted, currentSlot
  <2>3. e \div g # now \div g
    BY <2>2
  <2>4. e \div g \in Nat /\ now \div g \in Nat /\ (now - 1) \div g \in Nat
    <3>1. now - 1 \in Nat
      OBVIOUS
    <3> HIDE DEF g, e
    <3> QED
      BY <1>1, <1>2, <3>1, Division
  <2>5. e \div g > now \div g
    BY <1>3, <2>1, <2>3, <2>4
  <2> QED
    BY <1>4, <2>5 DEF Ahead
<1> QED
  BY <1>4, <1>5, <1>6

\* One call of cascadeLocked.
LEMMA CascadeStep ==
    ASSUME NEW w0, NEW w, NEW now \in Nat \ {0}, NEW L \in 1..Last,
           Cascaded(w0, w, L + 1, now)
    PROVE  Cascaded(w0, Cascade(w, L, now), L, now)
<1> DEFINE b == <<L, currentSlot(L, now)>>
           S == w.buckets[b]
           u == [w EXCEPT !.buckets[b] = {}]
           v == Insert(u, S, now)
<1>0. L \in 0..Last /\ L \in Nat /\ G[L] \in Nat \ {0} /\ b \in Buckets
  <2>1. L \in 0..Last /\ L \in Nat /\ G[L] \in Nat \ {0}
    BY GFacts, Constants
  <2>2. (now \div G[L]) % Slots \in 0..(Slots - 1)
    BY <2>1, Division, Constants
  <2> QED
    BY <2>1, <2>2 DEF Buckets, currentSlot
<1>1. /\ w \in Wheels /\ w.task \in [Ids -> Tasks] /\ w.taskMap \in SUBSET Ids
      /\ w.buckets \in [Buckets -> SUBSET Ids] /\ Agree(w, w.taskMap)
  BY DEF Cascaded, Wheels
<1>2. ASSUME NEW id \in w.taskMap
      PROVE  /\ w.task[id] \in Tasks /\ w.task[id].level \in Nat /\ Slotted(w.task[id])
             /\ w.task[id].level >= L + 1 => Ahead(w.task[id], now)
             /\ w.task[id].level <= L => Ahead(w.task[id], now - 1)
  <2>1. w.task[id] \in Tasks /\ w.task[id].level \in Nat
    BY <1>1 DEF Tasks
  <2> QED
    BY <1>0, <2>1 DEF Cascaded
<1>3. CASE now % G[L] # 0
  <2>1. Cascade(w, L, now) = w
    BY <1>3 DEF Cascade
  <2>2. ASSUME NEW id \in w.taskMap, w.task[id].level = L PROVE Ahead(w.task[id], now)
    BY <1>0, <1>2, <1>3, <2>2, AheadNext
  <2>3. \A id \in w.taskMap :
            /\ Slotted(w.task[id])
            /\ w.task[id].level >= L => Ahead(w.task[id], now)
            /\ w.task[id].level < L => Ahead(w.task[id], now - 1)
    BY <1>0, <1>2, <2>2
  <2> QED
    BY <2>1, <2>3 DEF Cascaded
<1>4. CASE now % G[L] = 0
  <2>1. Cascade(w, L, now) = v
    BY <1>4 DEF Cascade
  <2>2. /\ u \in Wheels /\ u.task = w.task /\ u.taskMap = w.taskMap
        /\ u.buckets = [w.buckets EXCEPT ![b] = {}]
    BY <1>0, <1>1 DEF Wheels
  <2>3. S \in SUBSET Ids /\ S \subseteq w.taskMap
    BY <1>0, <1>1 DEF Agree
  <2>4. \A id \in Ids : id \in S <=> id \in w.taskMap /\ b = At(w.task[id])
    BY <1>0, <1>1 DEF Agree
  <2> HIDE DEF u, S
  <2>5. Agree(u, u.taskMap \ S)
    <3> SUFFICES ASSUME NEW id \in Ids, NEW c \in Buckets
                 PROVE  id \in u.buckets[c] <=> id \in u.taskMap \ S /\ c = At(u.task[id])
      BY DEF Agree
    <3>1. id \in w.buckets[c] <=> id \in w.taskMap /\ c = At(w.task[id])
      BY <1>1 DEF Agree
    <3>2. CASE c = b
      BY <1>0, <1>1, <2>2, <2>4, <3>2
    <3>3. CASE c # b
      <4>1. u.buckets[c] = w.buckets[c]
        BY <1>0, <1>1, <2>2, <3>3
      <4> QED
        BY <2>2, <2>4, <3>1, <3>3, <4>1
    <3> QED
      BY <3>2, <3>3
  <2>6. ASSUME NEW id \in S
        PROVE  /\ w.task[id].level = L /\ w.task[id].expireTick \in Nat
               /\ w.task[id].expireTick >= now
    <3>1. id \in w.taskMap /\ id \in Ids /\ At(w.task[id]) = b
      BY <2>3, <2>4
    <3>2. w.task[id].level = L
      BY <3>1 DEF At
    <3>3. Ahead(w.task[id], now - 1) /\ Slotted(w.task[id]) /\ w.task[id] \in Tasks
      BY <1>0, <1>2, <3>1, <3>2
    <3> QED
      BY <3>2, <3>3, AheadNext DEF Tasks
  <2>7. Inserted(u, S, now, v)
    <3>1. \A id \in S : u.task[id].expireTick >= now
      BY <2>2, <2>6
    <3> HIDE DEF v
    <3>2. v = Insert(u, S, now)
      BY DEF v
    <3>3. u \in Wheels /\ S \in SUBSET Ids /\ now \in Nat
      BY <2>2, <2>3
    <3> QED
      BY <2>5, <3>1, <3>2, <3>3, InsertFacts, Zenon
  <2> HIDE DEF v
  <2>8. v.taskMap = w.taskMap
    BY <2>2, <2>3, <2>7 DEF Inserted
  <2>9. ASSUME NEW id \in v.taskMap
        PROVE  /\ Slotted(v.task[id])
               /\ v.task[id].level >= L => Ahead(v.task[id], now)
               /\ v.task[id].level < L => Ahead(v.task[id], now - 1)
    <3>1. id \in w.taskMap /\ id \in Ids
      BY <1>1, <2>8
    <3>2. CASE id \notin S
      <4>1. v.task[id] = w.task[id] /\ At(w.task[id]) # b
        BY <2>2, <2>4, <2>7, <3>1, <3>2 DEF Inserted
      <4>2. w.task[id].level = L => Ahead(w.task[id], now)
        BY <1>0, <1>2, <3>1, <4>1, AheadNext
      <4> QED
        BY <1>0, <1>2, <3>1, <4>1, <4>2
    <3>3. CASE id \in S /\ w.task[id].expireTick > now
      <4>1. Slotted(v.task[id]) /\ Ahead(v.task[id], now)
        BY <2>2, <2>7, <3>3 DEF Inserted
      <4>2. v.task[id] \in Tasks
        BY <2>7, <3>1 DEF Wheels, Inserted
      <4>3. Ahead(v.task[id], now - 1)
        BY <4>1, <4>2, AheadBefore
      <4> QED
        BY <4>1, <4>3
    <3>4. CASE id \in S /\ w.task[id].expireTick = now
      <4>1. Slotted(v.task[id]) /\ v.task[id].level = 0 /\ v.task[id].expireTick = now
        BY <2>2, <2>7, <3>1, <3>4 DEF Inserted
      <4>2. now \div 1 = now /\ (now - 1) \div 1 = now - 1 /\ G[0] = 1
        BY ByOne, GFacts
      <4>3. Ahead(v.task[id], now - 1)
        BY <4>1, <4>2 DEF Ahead
      <4> QED
        BY <1>0, <4>1, <4>3
    <3> QED
      BY <2>6, <3>2, <3>3, <3>4
  <2>10. \A id \in Ids : /\ v.task[id].expireTick = w0.task[id].expireTick
                         /\ v.task[id].intervalTick = w0.task[id].intervalTick
    BY <2>2, <2>7 DEF Cascaded, Inserted
  <2>11. v.taskMap = w0.taskMap
    BY <2>8 DEF Cascaded
  <2> QED
    BY <2>1, <2>7, <2>9, <2>10, <2>11 DEF Cascaded, Inserted
<1> QED
  BY <1>3, <1>4

\* What CascadeAll computes from w, level by level.
Rounds(w, now, f) ==
    f = [level \in 1..Levels |->
            IF level = Levels THEN w ELSE Cascade(f[level + 1], level, now)]

\* Cascading keeps its invariant from the last level down to level 1.
LEMMA RoundsCascaded ==
    ASSUME NEW w, NEW now \in Nat \ {0}, Cascaded(w, w, Levels, now),
           NEW f, Rounds(w, now, f)
    PROVE  Cascaded(w, f[1], 1, now)
<1> DEFINE T == {k \in 0..Last : Cascaded(w, f[Levels - k], Levels - k, now)}
<1>0. Levels - 0 = Levels /\ Levels \in 1..Levels /\ Last \in Nat /\ Levels - Last = 1
  BY Constants
<1>1. 0 \in T
  <2>1. f[Levels] = w
    BY <1>0 DEF Rounds
  <2> QED
    BY <1>0, <2>1
<1>2. ASSUME NEW k \in 1..Last, k - 1 \in T PROVE k \in T
  <2> DEFINE L == Levels - k
  <2>1. L \in 1..Last /\ L \in 1..Levels /\ L # Levels /\ Levels - (k - 1) = L + 1
    BY Constants
  <2> HIDE DEF L
  <2>2. f[L] = Cascade(f[L + 1], L, now)
    BY <2>1 DEF Rounds
  <2>3. Cascaded(w, f[L + 1], L + 1, now)
    BY <1>2, <2>1
  <2>4. Cascaded(w, f[L], L, now)
    BY <2>1, <2>2, <2>3, CascadeStep
  <2> QED
    BY <2>4 DEF L
<1>3. 0..Last \subseteq T
  <2> HIDE DEF T
  <2> QED
    BY <1>0, <1>1, <1>2, UpTo
<1> QED
  BY <1>0, <1>3

\* There is such a computation: CascadeAll is one.
LEMMA RoundsExist ==
    ASSUME NEW w, NEW now \in Nat \ {0}, Cascaded(w, w, Levels, now)
    PROVE  \E f : Rounds(w, now, f)
<1> DEFINE down(k, u) == Cascade(u, Levels - k, now)
           step == [k \in 1..Last |-> [u \in Wheels |->
                        IF down(k, u) \in Wheels THEN down(k, u) ELSE u]]
<1>0. Levels - 0 = Levels /\ Levels \in Nat /\ Last \in Nat /\ Last + 1 = Levels
  BY Constants
<1>1. w \in Wheels
  BY DEF Cascaded
<1>2. step \in [1..Last -> [Wheels -> Wheels]]
  <2> HIDE DEF down
  <2> QED
    OBVIOUS
<1>3. PICK f \in [0..Last -> Wheels] : Follows(f, Last, w, step)
  <2> HIDE DEF step
  <2> QED
    BY <1>0, <1>1, <1>2, Recursion
<1> DEFINE T == {k \in 0..Last : Cascaded(w, f[k], Levels - k, now)}
<1>4. 0 \in T
  <2>1. f[0] = w
    BY <1>3 DEF Follows
  <2> QED
    BY <1>0, <2>1
<1>5. ASSUME NEW k \in 1..Last, k - 1 \in T
      PROVE  k \in T /\ f[k] = down(k, f[k - 1])
  <2> DEFINE L == Levels - k
  <2>1. L \in 1..Last /\ Levels - (k - 1) = L + 1
    BY Constants
  <2>2. Cascaded(w, f[k - 1], L + 1, now)
    BY <1>5, <2>1
  <2>3. Cascaded(w, Cascade(f[k - 1], L, now), L, now)
    <3> HIDE DEF L
    <3> QED
      BY <2>1, <2>2, CascadeStep
  <2>4. down(k, f[k - 1]) \in Wheels
    BY <2>3 DEF Cascaded
  <2>5. f[k] = step[k][f[k - 1]] /\ f[k - 1] \in Wheels
    <3>1. k - 1 \in 0..Last
      BY Constants
    <3> HIDE DEF step
    <3> QED
      BY <1>3, <3>1 DEF Follows
  <2>6. f[k] = down(k, f[k - 1])
    <3> HIDE DEF down
    <3> QED
      BY <2>4, <2>5
  <2> QED
    BY <2>3, <2>6
<1>6. 0..Last \subseteq T
  <2> HIDE DEF T, down
  <2> QED
    BY <1>0, <1>4, <1>5, UpTo
<1>7. \A k \in 1..Last : f[k] = down(k, f[k - 1])
  <2>1. ASSUME NEW k \in 1..Last PROVE k - 1 \in 0..Last
    BY Constants
  <2> HIDE DEF T, down
  <2> QED
    BY <1>5, <1>6, <2>1
<1> DEFINE h == [level \in 1..Levels |-> f[Levels - level]]
<1>8. ASSUME NEW level \in 1..Levels
      PROVE  h[level] = IF level = Levels THEN w ELSE Cascade(h[level + 1], level, now)
  <2>1. CASE level = Levels
    BY <1>0, <1>3, <2>1 DEF Follows
  <2>2. CASE level # Levels
    <3> DEFINE k == Levels - level
    <3>1. /\ k \in 1..Last /\ Levels - k = level /\ level + 1 \in 1..Levels
          /\ Levels - (level + 1) = k - 1
      BY <1>0, <2>2
    <3>2. f[k] = Cascade(f[k - 1], level, now)
      BY <1>7, <3>1
    <3>3. h[level] = f[k] /\ h[level + 1] = f[k - 1]
      BY <3>1
    <3> QED
      BY <2>2, <3>2, <3>3
  <2> QED
    BY <2>1, <2>2
<1>9. Rounds(w, now, h)
  <2>1. h = [level \in 1..Levels |-> h[level]]
    OBVIOUS
  <2> HIDE DEF h
  <2> QED
    BY <1>8, <2>1 DEF Rounds
<1> QED
  BY <1>9

\* Advance cascades every level above 0 before it drains level 0.
LEMMA CascadeAllFacts ==
    ASSUME NEW w, NEW now \in Nat \ {0}, Cascaded(w, w, Levels, now)
    PROVE  Cascaded(w, CascadeAll(w, now), 1, now)
<1> DEFINE f == CHOOSE g : Rounds(w, now, g)
<1>1. Rounds(w, now, f)
  BY RoundsExist
<1>2. CascadeAll(w, now) = f[1]
  BY DEF CascadeAll, Rounds
<1> HIDE DEF f
<1> QED
  BY <1>1, <1>2, RoundsCascaded

-----------------------------------------------------------------------------
(* Draining *)

\* v is w0 after the tick now: the timers due at it are gone, or due again
\* after their interval, and every bucket in use is ahead.
Drained(w0, now, v) ==
    LET due == {id \in w0.taskMap : w0.task[id].expireTick = now} IN
    /\ v \in Wheels
    /\ v.taskMap = w0.taskMap \ {id \in due : w0.task[id].intervalTick = 0}
    /\ \A id \in Ids :
        /\ v.task[id].expireTick = IF id \in due /\ w0.task[id].intervalTick > 0
                                   THEN now + w0.task[id].intervalTick
                                   ELSE w0.task[id].expireTick
        /\ v.task[id].intervalTick = w0.task[id].intervalTick
    /\ Agree(v, v.taskMap)
    /\ \A id \in v.taskMap : Slotted(v.task[id]) /\ Ahead(v.task[id], now)

\* The bucket of level 0 that Advance drains at tick now.
LEMMA CurrentBucket ==
    ASSUME NEW now \in Nat
    PROVE  /\ <<0, currentSlot(0, now)>> = <<0, now % Slots>>
           /\ <<0, currentSlot(0, now)>> \in Buckets
<1>1. G[0] = 1 /\ now \div 1 = now
  BY GFacts, ByOne
<1>2. Slots \in Nat \ {0} /\ 0 \in 0..Last
  BY Constants
<1>3. now % Slots \in 0..(Slots - 1)
  BY <1>2, Division
<1> QED
  BY <1>1, <1>2, <1>3 DEF currentSlot, Buckets

\* Once the levels have cascaded, the current bucket of level 0 holds every
\* timer that is due now: no timer is late, and none is early.
LEMMA DueNow ==
    ASSUME NEW w0, NEW w, NEW now \in Nat \ {0}, Cascaded(w0, w, 1, now)
    PROVE  /\ DueIn(w, now) = {id \in w0.taskMap : w0.task[id].expireTick = now}
           /\ \A id \in w.taskMap : /\ w.task[id].expireTick >= now
                                    /\ w.task[id].expireTick > now => Ahead(w.task[id], now)
<1>1. /\ w.task \in [Ids -> Tasks] /\ w.taskMap \in SUBSET Ids
      /\ w.buckets \in [Buckets -> SUBSET Ids] /\ Agree(w, w.taskMap)
  BY DEF Cascaded, Wheels
<1> DEFINE b == <<0, currentSlot(0, now)>>
<1>2. G[0] = 1 /\ now \div 1 = now
  BY GFacts, ByOne
<1>3. b = <<0, now % Slots>> /\ b \in Buckets
  BY CurrentBucket
<1>4. ASSUME NEW id \in w.taskMap
      PROVE  /\ w.task[id].expireTick \in Nat
             /\ w.task[id].expireTick >= now
             /\ w.task[id].expireTick > now => Ahead(w.task[id], now)
             /\ w.task[id].expireTick = now => At(w.task[id]) = b
  <2> DEFINE t == w.task[id]
  <2>1. t \in Tasks /\ t.expireTick \in Nat /\ t.level \in Nat
    BY <1>1 DEF Tasks
  <2>2. Slotted(t) /\ (t.level >= 1 => Ahead(t, now)) /\ (t.level < 1 => Ahead(t, now - 1))
    BY DEF Cascaded
  <2> HIDE DEF t
  <2>3. CASE t.level >= 1
    BY <2>1, <2>2, <2>3, AheadLater DEF t
  <2>4. CASE t.level = 0
    <3>1. t.expireTick >= now
      BY <2>1, <2>2, <2>4, AheadNext
    <3>2. t.expireTick \div G[0] = t.expireTick /\ now \div G[0] = now
      BY <1>2, <2>1, ByOne
    <3>3. t.expireTick > now => Ahead(t, now)
      BY <2>4, <3>2 DEF Ahead
    <3>4. t.expireTick = now => At(t) = b
      BY <1>3, <2>2, <2>4, <3>2 DEF Slotted, At
    <3> QED
      BY <2>1, <3>1, <3>3, <3>4 DEF t
  <2> QED
    BY <2>1, <2>3, <2>4
<1>5. ASSUME NEW id \in Ids
      PROVE  id \in DueIn(w, now) <=> id \in w.taskMap /\ w.task[id].expireTick = now
  <2>1. id \in w.buckets[b] <=> id \in w.taskMap /\ b = At(w.task[id])
    BY <1>1, <1>3 DEF Agree
  <2>2. id \in DueIn(w, now) <=> id \in w.buckets[b] /\ w.task[id].expireTick <= now
    BY DEF DueIn
  <2> HIDE DEF b
  <2>3. CASE id \in w.taskMap
    BY <1>4, <2>1, <2>2, <2>3
  <2>4. CASE id \notin w.taskMap
    BY <2>1, <2>2, <2>4
  <2> QED
    BY <2>3, <2>4
<1>6. DueIn(w, now) \subseteq Ids
  BY <1>1, <1>3 DEF DueIn
<1>7. w.taskMap = w0.taskMap /\ \A id \in Ids : w.task[id].expireTick = w0.task[id].expireTick
  BY DEF Cascaded
<1> QED
  BY <1>1, <1>4, <1>5, <1>6, <1>7

\* drainReadyLocked.
LEMMA DrainFacts ==
    ASSUME NEW w0, NEW w, NEW now \in Nat \ {0}, Cascaded(w0, w, 1, now),
           NEW v, v = Drain(w, now)
    PROVE  Drained(w0, now, v)
<1> DEFINE b == <<0, currentSlot(0, now)>>
           due == DueIn(w, now)
           again == {id \in due : w.task[id].intervalTick > 0}
           S == (w.buckets[b] \ due) \cup again
           T == [id \in Ids |-> IF id \in again
                                THEN [w.task[id] EXCEPT !.expireTick =
                                                  now + w.task[id].intervalTick]
                                ELSE w.task[id]]
           M == w.taskMap \ due
           B == [w.buckets EXCEPT ![b] = {}]
           u == [task |-> T, taskMap |-> M, buckets |-> B]
<1>1. /\ w \in Wheels /\ w.task \in [Ids -> Tasks] /\ w.taskMap \in SUBSET Ids
      /\ w.buckets \in [Buckets -> SUBSET Ids] /\ Agree(w, w.taskMap)
      /\ w.taskMap = w0.taskMap
      /\ \A id \in Ids : /\ w.task[id].expireTick = w0.task[id].expireTick
                         /\ w.task[id].intervalTick = w0.task[id].intervalTick
      /\ \A id \in w.taskMap : Slotted(w.task[id])
  BY DEF Cascaded, Wheels
<1>2. b \in Buckets
  BY CurrentBucket
<1>3. /\ due = {id \in w0.taskMap : w0.task[id].expireTick = now}
      /\ \A id \in w.taskMap : /\ w.task[id].expireTick >= now
                               /\ w.task[id].expireTick > now => Ahead(w.task[id], now)
  BY DueNow
<1>4. due \subseteq w.buckets[b]
  BY DEF DueIn
<1>5. \A id \in Ids : id \in w.buckets[b] <=> id \in w.taskMap /\ b = At(w.task[id])
  BY <1>1, <1>2 DEF Agree
<1>6. v = Insert(u, S, now)
  BY DEF Drain
<1> HIDE DEF b, due
<1>7. /\ S \in SUBSET Ids /\ S \subseteq w.buckets[b] /\ again \subseteq due
      /\ due \subseteq w.taskMap /\ due \subseteq Ids /\ M \in SUBSET Ids
      /\ B \in [Buckets -> SUBSET Ids]
      /\ \A id \in due : w.task[id].intervalTick \in Nat
  <2>1. due \subseteq w.taskMap /\ due \subseteq Ids
    BY <1>1, <1>3
  <2>2. \A id \in due : w.task[id].intervalTick \in Nat
    BY <1>1, <2>1 DEF Tasks
  <2> QED
    BY <1>1, <1>2, <1>4, <2>1, <2>2
<1>8. ASSUME NEW id \in Ids
      PROVE  /\ T[id] \in Tasks
             /\ T[id].level = w.task[id].level /\ T[id].slot = w.task[id].slot
             /\ T[id].intervalTick = w.task[id].intervalTick
             /\ T[id].expireTick = IF id \in again THEN now + w.task[id].intervalTick
                                                   ELSE w.task[id].expireTick
             /\ id \notin again => T[id] = w.task[id]
  <2> DEFINE t == w.task[id]
  <2>1. t \in Tasks /\ t.intervalTick \in Nat
    BY <1>1 DEF Tasks
  <2>2. T[id] = IF id \in again THEN [t EXCEPT !.expireTick = now + t.intervalTick] ELSE t
    OBVIOUS
  <2> HIDE DEF T, again, t
  <2>3. CASE id \notin again
    BY <2>1, <2>2, <2>3 DEF t
  <2>4. CASE id \in again
    <3>1. T[id] = [expireTick |-> now + t.intervalTick, intervalTick |-> t.intervalTick,
                   level |-> t.level, slot |-> t.slot]
      BY <2>1, <2>2, <2>4 DEF Tasks
    <3>2. T[id] \in Tasks
      BY <2>1, <3>1 DEF Tasks
    <3> QED
      BY <2>4, <3>1, <3>2 DEF t
  <2> QED
    BY <2>3, <2>4
<1>9. T \in [Ids -> Tasks]
  <2>1. T = [id \in Ids |-> T[id]]
    OBVIOUS
  <2> HIDE DEF T
  <2> QED
    BY <1>8, <2>1
<1>10. /\ u \in Wheels /\ u.task = T /\ u.taskMap = M /\ u.buckets = B
  <2> HIDE DEF T, M, B
  <2> QED
    BY <1>7, <1>9 DEF Wheels
<1>11. \A id \in Ids : id \in again <=> id \in due /\ w.task[id].intervalTick > 0
  OBVIOUS
<1>12. \A id \in Ids : id \in S <=> id \in w.buckets[b] /\ (id \in due => id \in again)
  BY <1>4, <1>7
<1> HIDE DEF T, u, S, again
<1>13. Agree(u, u.taskMap \ S)
  <2> SUFFICES ASSUME NEW id \in Ids, NEW c \in Buckets
               PROVE  id \in B[c] <=> id \in M \ S /\ c = At(T[id])
    BY <1>10 DEF Agree
  <2>1. id \in w.buckets[c] <=> id \in w.taskMap /\ c = At(w.task[id])
    BY <1>1 DEF Agree
  <2>2. At(T[id]) = At(w.task[id])
    BY <1>8 DEF At
  <2>3. CASE c = b
    <3>1. B[c] = {}
      BY <1>1, <1>2, <2>3
    <3>2. id \in M /\ c = At(T[id]) => id \in S
      BY <1>5, <1>12, <2>2, <2>3
    <3> QED
      BY <3>1, <3>2
  <2>4. CASE c # b
    <3>1. B[c] = w.buckets[c]
      BY <1>1, <1>2, <2>4
    <3>2. c = At(T[id]) => id \notin S /\ id \notin due
      BY <1>4, <1>5, <1>7, <2>2, <2>4
    <3> QED
      BY <2>1, <2>2, <3>1, <3>2
  <2> QED
    BY <2>3, <2>4
<1>14. ASSUME NEW id \in S PROVE u.task[id].expireTick > now
  <2>1. id \in Ids /\ id \in w.taskMap
    BY <1>5, <1>7
  <2>2. w.task[id].expireTick \in Nat /\ w.task[id].intervalTick \in Nat
    BY <1>1, <2>1 DEF Tasks
  <2>3. CASE id \in again
    BY <1>8, <1>10, <1>11, <2>1, <2>2, <2>3
  <2>4. CASE id \notin again
    <3>1. id \notin due /\ u.task[id].expireTick = w.task[id].expireTick
      BY <1>8, <1>10, <1>12, <2>1, <2>4
    <3>2. w.task[id].expireTick # now
      BY <1>1, <1>3, <2>1, <3>1
    <3> QED
      BY <1>3, <2>1, <2>2, <3>1, <3>2
  <2> QED
    BY <2>3, <2>4
<1>15. Inserted(u, S, now, v)
  <2>1. u \in Wheels /\ S \in SUBSET Ids /\ now \in Nat
    BY <1>7, <1>10
  <2>2. \A id \in S : u.task[id].expireTick >= now
    <3> SUFFICES ASSUME NEW id \in S PROVE u.task[id].expireTick >= now
      OBVIOUS
    <3>1. u.task[id].expireTick \in Nat
      BY <1>7, <1>9, <1>10 DEF Tasks
    <3> QED
      BY <1>14, <3>1
  <2> QED
    BY <1>6, <1>13, <2>1, <2>2, InsertFacts, Zenon
<1>16. v.taskMap = w0.taskMap \ {id \in due : w0.task[id].intervalTick = 0}
  <2>1. v.taskMap = M \cup S
    BY <1>10, <1>15 DEF Inserted
  <2>2. \A id \in due : w0.task[id].intervalTick = w.task[id].intervalTick
    BY <1>1, <1>7
  <2>3. S \subseteq w.taskMap
    BY <1>5, <1>7
  <2>4. M = w.taskMap \ due
    OBVIOUS
  <2> HIDE DEF M
  <2>5. ASSUME NEW id \in Ids
        PROVE  id \in v.taskMap <=> id \in w.taskMap /\ ~(id \in due /\ w0.task[id].intervalTick = 0)
    <3>1. CASE id \in due
      BY <1>4, <1>7, <1>11, <1>12, <2>1, <2>2, <2>4, <3>1
    <3>2. CASE id \notin due
      BY <2>1, <2>3, <2>4, <3>2
    <3> QED
      BY <3>1, <3>2
  <2> QED
    BY <1>1, <1>7, <1>15, <2>5 DEF Inserted, Wheels
<1>17. ASSUME NEW id \in Ids
       PROVE  /\ v.task[id].expireTick = IF id \in due /\ w0.task[id].intervalTick > 0
                                         THEN now + w0.task[id].intervalTick
                                         ELSE w0.task[id].expireTick
              /\ v.task[id].intervalTick = w0.task[id].intervalTick
  <2>1. /\ v.task[id].expireTick = T[id].expireTick
        /\ v.task[id].intervalTick = T[id].intervalTick
    BY <1>10, <1>15 DEF Inserted
  <2> QED
    BY <1>1, <1>8, <1>11, <2>1
<1>18. ASSUME NEW id \in v.taskMap PROVE Slotted(v.task[id]) /\ Ahead(v.task[id], now)
  <2>1. id \in Ids /\ id \in w.taskMap
    BY <1>1, <1>15, <1>16 DEF Inserted, Wheels
  <2>2. CASE id \in S
    BY <1>14, <1>15, <2>2 DEF Inserted
  <2>3. CASE id \notin S
    <3>1. v.taskMap = M \cup S
      BY <1>10, <1>15 DEF Inserted
    <3>2. id \notin due /\ id \notin again
      BY <1>7, <2>3, <3>1
    <3>3. v.task[id] = w.task[id]
      BY <1>8, <1>10, <1>15, <2>1, <2>3, <3>2 DEF Inserted
    <3>4. w.task[id].expireTick # now /\ w.task[id].expireTick \in Nat
      BY <1>1, <1>3, <2>1, <3>2 DEF Tasks
    <3>5. Slotted(w.task[id]) /\ Ahead(w.task[id], now)
      BY <1>1, <1>3, <2>1, <3>4
    <3> QED
      BY <3>3, <3>5
  <2> QED
    BY <2>2, <2>3
<1>19. v \in Wheels /\ Agree(v, v.taskMap)
  BY <1>15 DEF Inserted
<1> QED
  BY <1>3, <1>16, <1>17, <1>18, <1>19 DEF Drained

-----------------------------------------------------------------------------
(* The invariant *)

\* What every operation keeps: the types, the two properties, and that the
\* number of a new timer has not been used.
WheelInv ==
    /\ TypeOK
    /\ BucketsAgree
    /\ PlacedInTime
    /\ taskMap \subseteq 1..nextID

\* A duration becomes no more ticks than units of time, and at least one tick
\* unless it is 0.
LEMMA Ticks ==
    ASSUME NEW d \in Nat
    PROVE  durationToTicks(d) \in 0..d /\ (d > 0 => durationToTicks(d) > 0)
<1>1. ASSUME NEW T \in Nat \ {0}
      PROVE  (d + T - 1) \div T \in 0..d /\ (d > 0 => (d + T - 1) \div T > 0)
  OBVIOUS
<1> QED
  BY <1>1, Constants DEF durationToTicks

\* The invariant in terms of the fields of the wheel.
LEMMA WheelTyped ==
    ASSUME WheelInv
    PROVE  /\ Wheel \in Wheels /\ Wheel.task = task /\ Wheel.taskMap = taskMap
           /\ Wheel.buckets = buckets
           /\ Agree(Wheel, taskMap)
           /\ \A id \in taskMap : /\ Slotted(task[id]) /\ Ahead(task[id], currentTick)
                                  /\ task[id].expireTick > currentTick
           /\ currentTick \in Nat
           /\ nextID \in Nat
<1>1. Wheel \in Wheels /\ Wheel.task = task /\ Wheel.taskMap = taskMap /\ Wheel.buckets = buckets
  BY DEF WheelInv, TypeOK, Wheel, Wheels, Tasks
<1>2. Agree(Wheel, taskMap)
  BY <1>1 DEF WheelInv, BucketsAgree, Agree, At
<1>3. \A id \in taskMap : /\ Slotted(task[id]) /\ Ahead(task[id], currentTick)
                          /\ task[id].expireTick > currentTick
  BY DEF WheelInv, PlacedInTime, Slotted, Ahead
<1> QED
  BY <1>1, <1>2, <1>3, Constants DEF WheelInv, TypeOK

\* A step that leaves the wheel with the fields of v.
LEMMA WheelStep ==
    ASSUME NEW v \in Wheels, SetWheel(v), Agree(v, v.taskMap),
           currentTick' \in 0..MaxTick, nextID' \in 0..MaxTimers, ready' \subseteq Ids,
           \A id \in v.taskMap : Slotted(v.task[id]) /\ Ahead(v.task[id], currentTick'),
           v.taskMap \subseteq 1..nextID'
    PROVE  WheelInv'
<1>1. task' = v.task /\ taskMap' = v.taskMap /\ buckets' = v.buckets
  BY DEF SetWheel
<1>2. v.task \in [Ids -> Tasks] /\ v.taskMap \subseteq Ids /\ v.buckets \in [Buckets -> SUBSET Ids]
  BY DEF Wheels
<1>3. TypeOK'
  BY <1>1, <1>2 DEF TypeOK, Tasks
<1>4. BucketsAgree'
  BY <1>1 DEF Agree, At, BucketsAgree
<1>5. PlacedInTime'
  <2> SUFFICES ASSUME NEW id \in v.taskMap
               PROVE  /\ v.task[id].expireTick > currentTick'
                      /\ v.task[id].slot
                            = (v.task[id].expireTick \div G[v.task[id].level]) % Slots
                      /\ v.task[id].expireTick \div G[v.task[id].level]
                            > currentTick' \div G[v.task[id].level]
    BY <1>1 DEF PlacedInTime
  <2>1. v.task[id] \in Tasks /\ currentTick' \in Nat
    BY <1>2, Constants
  <2>2. v.task[id].expireTick > currentTick'
    BY <2>1, AheadLater
  <2> QED
    BY <2>2 DEF Slotted, Ahead
<1> QED
  BY <1>1, <1>3, <1>4, <1>5 DEF WheelInv

\* add: the fields after it.
LEMMA AddFacts ==
    ASSUME WheelInv, NEW d \in Nat, NEW interval \in Nat, add(d, interval)
    PROVE  /\ WheelInv'
           /\ taskMap' = taskMap \cup {nextID + 1}
           /\ \A id \in Ids :
                /\ task'[id].expireTick = IF id = nextID + 1 THEN currentTick + DelayTicks(d)
                                          ELSE task[id].expireTick
                /\ task'[id].intervalTick = IF id = nextID + 1 THEN durationToTicks(interval)
                                            ELSE task[id].intervalTick
<1> DEFINE n == nextID + 1
           r == [NoTask EXCEPT !.expireTick = currentTick + DelayTicks(d),
                               !.intervalTick = durationToTicks(interval)]
           w == [Wheel EXCEPT !.task[n] = r]
           v == Insert(w, {n}, currentTick)
<1>1. /\ nextID < MaxTimers /\ nextID' = n /\ SetWheel(v)
      /\ UNCHANGED <<currentTick, ready>>
  BY DEF add
<1>2. /\ Wheel \in Wheels /\ Wheel.task = task /\ Wheel.taskMap = taskMap
      /\ Wheel.buckets = buckets
      /\ Agree(Wheel, taskMap)
      /\ \A id \in taskMap : Slotted(task[id]) /\ Ahead(task[id], currentTick)
      /\ currentTick \in Nat
      /\ nextID \in Nat
  BY WheelTyped
<1>3. n \in Ids /\ n \notin taskMap /\ n \in 0..MaxTimers
  BY <1>1, <1>2, Constants DEF WheelInv, Ids
<1>4. DelayTicks(d) \in Nat \ {0} /\ durationToTicks(interval) \in Nat
  BY Ticks DEF DelayTicks
<1>5. r = [expireTick |-> currentTick + DelayTicks(d),
           intervalTick |-> durationToTicks(interval), level |-> 0, slot |-> 0]
  <2>1. NoTask \in Tasks /\ NoTask.level = 0 /\ NoTask.slot = 0
    BY Constants DEF NoTask, Tasks
  <2> DEFINE e == currentTick + DelayTicks(d)
             i == durationToTicks(interval)
  <2>2. r = [NoTask EXCEPT !.expireTick = e, !.intervalTick = i]
    OBVIOUS
  <2> HIDE DEF NoTask, e, i, r
  <2>3. r = [expireTick |-> e, intervalTick |-> i, level |-> NoTask.level, slot |-> NoTask.slot]
    BY <2>1, <2>2 DEF Tasks
  <2> QED
    BY <2>1, <2>3 DEF e, i
<1> HIDE DEF r
<1>6. r \in Tasks /\ r.expireTick = currentTick + DelayTicks(d)
      /\ r.intervalTick = durationToTicks(interval)
  BY <1>2, <1>4, <1>5, Constants DEF Tasks
<1>7. /\ w \in Wheels /\ w.task = [task EXCEPT ![n] = r] /\ w.taskMap = taskMap
      /\ w.buckets = buckets
  BY <1>2, <1>3, <1>6 DEF Wheels
<1>8. \A id \in Ids : w.task[id] = IF id = n THEN r ELSE task[id]
  BY <1>2, <1>7 DEF Wheels
<1> HIDE DEF w, n
<1>9. Agree(w, w.taskMap \ {n})
  <2> SUFFICES ASSUME NEW id \in Ids, NEW c \in Buckets
               PROVE  id \in buckets[c] <=> id \in taskMap \ {n} /\ c = At(w.task[id])
    BY <1>7 DEF Agree
  <2>1. id \in buckets[c] <=> id \in taskMap /\ c = At(task[id])
    BY <1>2 DEF Agree
  <2> QED
    BY <1>3, <1>8, <2>1
<1>10. w.task[n].expireTick > currentTick /\ w.task[n].expireTick >= currentTick
  BY <1>2, <1>3, <1>4, <1>6, <1>8
<1>11. Inserted(w, {n}, currentTick, v)
  <2>1. /\ w \in Wheels /\ {n} \in SUBSET Ids /\ currentTick \in Nat
        /\ \A id \in {n} : w.task[id].expireTick >= currentTick
    BY <1>2, <1>3, <1>7, <1>10
  <2> HIDE DEF v
  <2>2. v = Insert(w, {n}, currentTick)
    BY DEF v
  <2> QED
    BY <1>9, <2>1, <2>2, InsertFacts, Zenon
<1> HIDE DEF v
<1>12. /\ v \in Wheels /\ Agree(v, v.taskMap) /\ v.taskMap = taskMap \cup {n}
       /\ \A id \in Ids : /\ v.task[id].expireTick = w.task[id].expireTick
                          /\ v.task[id].intervalTick = w.task[id].intervalTick
       /\ \A id \in Ids \ {n} : v.task[id] = w.task[id]
       /\ Slotted(v.task[n]) /\ Ahead(v.task[n], currentTick)
  BY <1>7, <1>10, <1>11 DEF Inserted
<1>13. \A id \in v.taskMap : Slotted(v.task[id]) /\ Ahead(v.task[id], currentTick)
  <2> SUFFICES ASSUME NEW id \in v.taskMap
               PROVE  Slotted(v.task[id]) /\ Ahead(v.task[id], currentTick)
    OBVIOUS
  <2>1. CASE id = n
    BY <1>12, <2>1
  <2>2. CASE id # n
    <3>1. id \in taskMap /\ id \in Ids
      BY <1>12, <2>2 DEF WheelInv, TypeOK
    <3> QED
      BY <1>2, <1>8, <1>12, <2>2, <3>1
  <2> QED
    BY <2>1, <2>2
<1>14. v.taskMap \subseteq 1..nextID'
  BY <1>1, <1>2, <1>12 DEF WheelInv, n
<1>15. WheelInv'
  <2>1. currentTick' \in 0..MaxTick /\ nextID' \in 0..MaxTimers /\ ready' \subseteq Ids
    BY <1>1, <1>3 DEF WheelInv, TypeOK
  <2> QED
    BY <1>1, <1>12, <1>13, <1>14, <2>1, WheelStep
<1>16. task' = v.task /\ taskMap' = v.taskMap
  BY <1>1 DEF SetWheel
<1> QED
  BY <1>6, <1>8, <1>12, <1>15, <1>16 DEF n

\* Advance: exactly the timers that are due become ready.
LEMMA AdvanceFacts ==
    ASSUME WheelInv, Advance
    PROVE  /\ WheelInv'
           /\ ready' = {id \in taskMap : task[id].expireTick = currentTick + 1}
           /\ taskMap' = taskMap \ {id \in ready' : task[id].intervalTick = 0}
           /\ \A id \in Ids :
                /\ task'[id].expireTick = IF id \in ready' /\ task[id].intervalTick > 0
                                          THEN currentTick + 1 + task[id].intervalTick
                                          ELSE task[id].expireTick
                /\ task'[id].intervalTick = task[id].intervalTick
<1> DEFINE now == currentTick + 1
           w == CascadeAll(Wheel, now)
           v == Drain(w, now)
<1>1. /\ currentTick < MaxTick /\ currentTick' = now /\ ready' = DueIn(w, now)
      /\ SetWheel(v) /\ nextID' = nextID
  BY DEF Advance
<1>2. /\ Wheel \in Wheels /\ Wheel.task = task /\ Wheel.taskMap = taskMap
      /\ Wheel.buckets = buckets
      /\ Agree(Wheel, taskMap)
      /\ \A id \in taskMap : Slotted(task[id]) /\ Ahead(task[id], currentTick)
      /\ currentTick \in Nat
      /\ nextID \in Nat
  BY WheelTyped
<1>3. now \in Nat \ {0} /\ now - 1 = currentTick /\ now \in 0..MaxTick
  BY <1>1, <1>2, Constants
<1> HIDE DEF now
<1>4. Cascaded(Wheel, Wheel, Levels, now)
  <2>1. ASSUME NEW id \in taskMap PROVE task[id].level \in Nat /\ task[id].level < Levels
    <3>1. task[id].level \in 0..Last
      BY DEF WheelInv, TypeOK
    <3> QED
      BY <3>1, Constants
  <2>2. ASSUME NEW id \in taskMap PROVE ~(task[id].level >= Levels)
    BY <2>1, Constants
  <2> QED
    BY <1>2, <1>3, <2>2 DEF Cascaded
<1>5. Cascaded(Wheel, w, 1, now)
  BY <1>3, <1>4, CascadeAllFacts
<1> HIDE DEF w
<1>6. ready' = {id \in taskMap : task[id].expireTick = now}
  <2>1. DueIn(w, now) = {id \in Wheel.taskMap : Wheel.task[id].expireTick = now}
    BY <1>3, <1>5, DueNow
  <2> QED
    BY <1>1, <1>2, <2>1
<1>7. Drained(Wheel, now, v)
  <2> HIDE DEF v
  <2>1. v = Drain(w, now)
    BY DEF v
  <2> QED
    BY <1>3, <1>5, <2>1, DrainFacts
<1> HIDE DEF v
<1>8. /\ v \in Wheels /\ Agree(v, v.taskMap)
      /\ v.taskMap = taskMap \ {id \in ready' : task[id].intervalTick = 0}
      /\ \A id \in Ids :
            /\ v.task[id].expireTick = IF id \in ready' /\ task[id].intervalTick > 0
                                       THEN now + task[id].intervalTick
                                       ELSE task[id].expireTick
            /\ v.task[id].intervalTick = task[id].intervalTick
      /\ \A id \in v.taskMap : Slotted(v.task[id]) /\ Ahead(v.task[id], now)
  BY <1>2, <1>6, <1>7 DEF Drained
<1>9. WheelInv'
  <2>1. ready' \subseteq Ids /\ nextID' \in 0..MaxTimers /\ v.taskMap \subseteq 1..nextID'
    BY <1>1, <1>6, <1>8 DEF WheelInv, TypeOK
  <2> QED
    BY <1>1, <1>3, <1>8, <2>1, WheelStep
<1>10. task' = v.task /\ taskMap' = v.taskMap
  BY <1>1 DEF SetWheel
<1> QED
  BY <1>6, <1>8, <1>9, <1>10 DEF now

\* Stop: the task leaves its bucket with the map.
LEMMA StopFacts ==
    ASSUME WheelInv, NEW id \in Ids, Stop(id)
    PROVE  WheelInv'
<1> DEFINE c == <<task[id].level, task[id].slot>>
<1>1. /\ id \in taskMap /\ taskMap' = taskMap \ {id}
      /\ buckets' = [buckets EXCEPT ![c] = @ \ {id}]
      /\ UNCHANGED <<currentTick, nextID, task, ready>>
  BY DEF Stop, Unlink
<1>2. c \in Buckets
  BY DEF WheelInv, TypeOK, Buckets
<1> HIDE DEF c
<1>3. \A b \in Buckets : buckets'[b] = IF b = c THEN buckets[b] \ {id} ELSE buckets[b]
  BY <1>1 DEF WheelInv, TypeOK
<1>4. TypeOK'
  BY <1>1, <1>2 DEF WheelInv, TypeOK
<1>5. BucketsAgree'
  <2> SUFFICES ASSUME NEW i \in Ids, NEW b \in Buckets
               PROVE  i \in buckets'[b] <=>
                        i \in taskMap' /\ b = <<task[i].level, task[i].slot>>
    BY <1>1 DEF BucketsAgree
  <2>1. i \in buckets[b] <=> i \in taskMap /\ b = <<task[i].level, task[i].slot>>
    BY DEF WheelInv, BucketsAgree
  <2>2. i = id => (b = <<task[i].level, task[i].slot>> <=> b = c)
    BY DEF c
  <2> QED
    BY <1>1, <1>3, <2>1, <2>2
<1>6. PlacedInTime'
  BY <1>1 DEF WheelInv, PlacedInTime
<1> QED
  BY <1>1, <1>4, <1>5, <1>6 DEF WheelInv

\* A callback touches no field of the wheel.
LEMMA RunFacts ==
    ASSUME WheelInv, NEW id \in Ids, RunCallback(id)
    PROVE  WheelInv'
BY DEF WheelInv, TypeOK, BucketsAgree, PlacedInTime, RunCallback

\* The wheel starts empty.
LEMMA InitWheelInv == Init => WheelInv
<1> SUFFICES ASSUME Init PROVE WheelInv
  OBVIOUS
<1>1. NoTask \in Tasks
  BY Constants DEF NoTask, Tasks
<1> HIDE DEF NoTask
<1>2. TypeOK
  BY <1>1, Constants DEF Init, TypeOK, Tasks
<1> QED
  BY <1>2 DEF Init, WheelInv, BucketsAgree, PlacedInTime

\* Every step keeps the invariant.
LEMMA NextWheelInv == WheelInv /\ [Next]_vars => WheelInv'
<1> SUFFICES ASSUME WheelInv, [Next]_vars PROVE WheelInv'
  OBVIOUS
<1>1. ASSUME NEW d \in 0..MaxDuration, AfterFunc(d) PROVE WheelInv'
  <2>1. d \in Nat /\ 0 \in Nat /\ add(d, 0)
    BY <1>1, Constants DEF AfterFunc
  <2> QED
    BY <2>1, AddFacts
<1>2. ASSUME NEW d \in 0..MaxDuration, Tick(d) PROVE WheelInv'
  <2> DEFINE p == IF d = 0 THEN TickLen ELSE d
  <2>1. p \in Nat
    BY Constants
  <2>2. add(p, p)
    BY <1>2 DEF Tick
  <2> HIDE DEF p
  <2> QED
    BY <2>1, <2>2, AddFacts
<1>3. ASSUME NEW id \in Ids, Stop(id) \/ RunCallback(id) PROVE WheelInv'
  BY <1>3, StopFacts, RunFacts
<1>4. CASE Advance
  BY <1>4, AdvanceFacts
<1>5. CASE UNCHANGED vars
  BY <1>5 DEF WheelInv, TypeOK, BucketsAgree, PlacedInTime, vars
<1> QED
  BY <1>1, <1>2, <1>3, <1>4, <1>5 DEF Next

\* The invariant holds in every reachable state.
THEOREM WheelInvariant == Spec => []WheelInv
BY InitWheelInv, NextWheelInv, PTL DEF Spec

\* taskMap and the buckets always agree, so that Stop finds what it removes.
THEOREM AlwaysBucketsAgree == Spec => []BucketsAgree
<1>1. WheelInv => BucketsAgree
  BY DEF WheelInv
<1> QED
  BY <1>1, WheelInvariant, PTL

\* No timer waits in a bucket that comes up too late, on any level of any wheel.
THEOREM AlwaysPlacedInTime == Spec => []PlacedInTime
<1>1. WheelInv => PlacedInTime
  BY DEF WheelInv
<1> QED
  BY <1>1, WheelInvariant, PTL

-----------------------------------------------------------------------------
(* The wheel implements the timer service *)

\* The abstract view of the tasks.
due == [id \in Ids |-> task[id].expireTick]
period == [id \in Ids |-> task[id].intervalTick]

\* add makes an abstract timer.
LEMMA AddImplements ==
    ASSUME WheelInv, NEW d \in Nat, NEW interval \in Nat, add(d, interval)
    PROVE  Abstract!Add(DelayTicks(d), durationToTicks(interval))
<1>1. /\ nextID < MaxTimers /\ nextID' = nextID + 1 /\ UNCHANGED <<currentTick, ready>>
  BY DEF add
<1>2. taskMap' = taskMap \cup {nextID'}
  BY <1>1, AddFacts
<1>3. due' = [due EXCEPT ![nextID'] = currentTick + DelayTicks(d)]
  BY <1>1, AddFacts DEF due
<1>4. period' = [period EXCEPT ![nextID'] = durationToTicks(interval)]
  BY <1>1, AddFacts DEF period
<1> QED
  BY <1>1, <1>2, <1>3, <1>4 DEF Abstract!Add, due, period

\* Every step of the wheel is a step of the timer service, or none.
LEMMA StepImplements == WheelInv /\ [Next]_vars => [Abstract!Next]_(Abstract!vars)
<1> SUFFICES ASSUME WheelInv, [Next]_vars PROVE Abstract!Next \/ UNCHANGED Abstract!vars
  OBVIOUS
<1>1. ASSUME NEW d \in 0..MaxDuration, AfterFunc(d) PROVE Abstract!Next
  <2>1. d \in Nat /\ 0 \in Nat /\ add(d, 0)
    BY <1>1, Constants DEF AfterFunc
  <2>2. durationToTicks(0) = 0
    BY Ticks
  <2>3. DelayTicks(d) \in 1..(MaxDuration + TickLen)
    <3>1. durationToTicks(d) \in 0..d
      BY <2>1, Ticks
    <3> QED
      BY <2>1, <3>1, Constants DEF DelayTicks
  <2>4. Abstract!Add(DelayTicks(d), 0)
    BY <2>1, <2>2, AddImplements
  <2> QED
    BY <2>3, <2>4 DEF Abstract!Next
<1>2. ASSUME NEW d \in 0..MaxDuration, Tick(d) PROVE Abstract!Next
  <2> DEFINE p == IF d = 0 THEN TickLen ELSE d
  <2>1. p \in Nat /\ p > 0 /\ p <= MaxDuration + TickLen
    BY Constants
  <2>2. add(p, p)
    BY <1>2 DEF Tick
  <2> HIDE DEF p
  <2>3. durationToTicks(p) \in 0..p /\ durationToTicks(p) > 0
    BY <2>1, Ticks
  <2>4. DelayTicks(p) = durationToTicks(p) /\ DelayTicks(p) \in 1..(MaxDuration + TickLen)
    BY <2>1, <2>3, Constants DEF DelayTicks
  <2>5. Abstract!Add(DelayTicks(p), DelayTicks(p))
    BY <2>1, <2>2, <2>4, AddImplements
  <2> QED
    BY <2>4, <2>5 DEF Abstract!Next
<1>3. ASSUME NEW id \in Ids, Stop(id) PROVE Abstract!Next
  <2>1. Abstract!Stop(id)
    BY <1>3 DEF Stop, Abstract!Stop
  <2> QED
    BY <2>1 DEF Abstract!Next, Abstract!Ids, Ids
<1>4. ASSUME NEW id \in Ids, RunCallback(id) PROVE Abstract!Next
  <2>1. Abstract!Run(id)
    BY <1>4 DEF RunCallback, Abstract!Run
  <2> QED
    BY <2>1 DEF Abstract!Next, Abstract!Ids, Ids
<1>5. CASE Advance
  <2>1. ready = {} /\ currentTick' = currentTick + 1 /\ nextID' = nextID
    BY <1>5 DEF Advance
  <2>2. ready' = {id \in taskMap : due[id] = currentTick'}
    <3>1. \A id \in taskMap : due[id] = task[id].expireTick
      BY DEF WheelInv, TypeOK, due
    <3> QED
      BY <1>5, <2>1, <3>1, AdvanceFacts
  <2>3. taskMap' = taskMap \ {id \in ready' : period[id] = 0}
    <3>1. \A id \in ready' : period[id] = task[id].intervalTick
      BY <1>5, AdvanceFacts DEF WheelInv, TypeOK, period
    <3> QED
      BY <1>5, <3>1, AdvanceFacts
  <2>4. due' = [id \in Ids |-> IF id \in ready' /\ period[id] > 0
                               THEN currentTick' + period[id] ELSE due[id]]
    BY <1>5, <2>1, AdvanceFacts DEF due, period
  <2>5. period' = period
    BY <1>5, AdvanceFacts DEF period
  <2>6. Abstract!Advance
    BY <2>1, <2>2, <2>3, <2>4, <2>5 DEF Abstract!Advance, Abstract!Ids, Ids, due, period
  <2> QED
    BY <2>6 DEF Abstract!Next
<1>6. CASE UNCHANGED vars
  BY <1>6 DEF vars, Abstract!vars
<1> QED
  BY <1>1, <1>2, <1>3, <1>4, <1>5, <1>6 DEF Next

\* The wheel is a timer service: every timer fires at its tick and at no
\* other, a periodic one after each interval, a stopped one never again.
THEOREM TimersRefinement == Spec => ImplementsTimers
<1>1. Init => Abstract!Init
  BY DEF Init, Abstract!Init, Abstract!Ids, Ids, NoTask
<1> QED
  BY <1>1, StepImplements, WheelInvariant, PTL
    DEF Spec, ImplementsTimers, Abstract!Spec
=============================================================================
