------------------------------- MODULE Timers -------------------------------
(***************************************************************************)
(* What a timer service promises, with no wheel in sight: a timer fires at *)
(* the tick it is due and at no other, a periodic one again after each     *)
(* interval, a stopped one never again.  Firing takes two steps: the tick  *)
(* takes the due timers, then their callbacks run one by one; a timer      *)
(* stopped in between still runs the callback that was already taken.      *)
(***************************************************************************)
EXTENDS Naturals

CONSTANTS MaxTimers, MaxTick, MaxDelay

VARIABLES now,        \* the current tick
          created,    \* number of timers made so far
          timers,     \* the timers that wait
          due,        \* per timer, the tick it fires at
          interval,   \* per timer, its period, 0 if it fires once
          ready       \* timers taken by the last tick, callback not yet run

vars == <<now, created, timers, due, interval, ready>>

Ids == 1..MaxTimers

Init ==
    /\ now = 0
    /\ created = 0
    /\ timers = {}
    /\ due = [id \in Ids |-> 0]
    /\ interval = [id \in Ids |-> 0]
    /\ ready = {}

Add(delay, period) ==
    /\ created < MaxTimers
    /\ created' = created + 1
    /\ timers' = timers \cup {created'}
    /\ due' = [due EXCEPT ![created'] = now + delay]
    /\ interval' = [interval EXCEPT ![created'] = period]
    /\ UNCHANGED <<now, ready>>

Stop(id) ==
    /\ timers' = timers \ {id}
    /\ UNCHANGED <<now, created, due, interval, ready>>

\* The next tick takes exactly the timers due at it.
Advance ==
    /\ ready = {}
    /\ now' = now + 1
    /\ ready' = {id \in timers : due[id] = now'}
    /\ timers' = timers \ {id \in ready' : interval[id] = 0}
    /\ due' = [id \in Ids |-> IF id \in ready' /\ interval[id] > 0
                              THEN now' + interval[id]
                              ELSE due[id]]
    /\ UNCHANGED <<created, interval>>

Run(id) ==
    /\ id \in ready
    /\ ready' = ready \ {id}
    /\ UNCHANGED <<now, created, timers, due, interval>>

Next ==
    \/ \E delay \in 1..MaxDelay : Add(delay, 0) \/ Add(delay, delay)
    \/ \E id \in Ids : Stop(id) \/ Run(id)
    \/ Advance

Spec == Init /\ [][Next]_vars
=============================================================================
