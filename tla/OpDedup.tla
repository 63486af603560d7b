------------------------------- MODULE OpDedup -------------------------------
(***************************************************************************)
(* The bounded ring of op-ids beside the bag and the wallet of a player    *)
(* (lobby/internal/op_dedup.go), driven by grants that have a source which *)
(* is delivered again until it is consumed (an offline message) and grants *)
(* that have none.  Granting is what Bag.Add and Currency.Gain do: nothing *)
(* for an op-id that was seen, otherwise the grant and remember.           *)
(***************************************************************************)
EXTENDS Integers, Sequences, Functions

CONSTANTS Ops,      \* op-ids, without the empty one
          max       \* opDedup.max

ASSUME OpDedupAssumption == max \in Nat \ {0}

VARIABLES order,      \* opDedup.order; seenSet holds the same op-ids
          protected,  \* opDedup.protected
          stored,     \* the ring in the player document
          sources,    \* op-ids whose source is not consumed
          granted     \* per op-id, how often it was granted

vars == <<order, protected, stored, sources, granted>>

\* Types: the ring is a sequence without repetitions, in memory and stored.
TypeOK ==
    /\ order \in Seq(Ops) /\ IsInjective(order)
    /\ stored \in Seq(Ops) /\ IsInjective(stored)
    /\ protected \subseteq Ops
    /\ sources \subseteq Ops
    /\ granted \in [Ops -> Nat]

Init ==
    /\ order = <<>>
    /\ protected = {}
    /\ stored = <<>>
    /\ sources = {}
    /\ granted = [op \in Ops |-> 0]

-----------------------------------------------------------------------------

seen(op) == op \in Range(order)

\* Wrong variant: the last op-id that is not protected.
newest(s, p) == CHOOSE i \in DOMAIN s : s[i] \notin p /\ \A j \in (i + 1)..Len(s) : s[j] \in p

\* idx: the first op-id that is not protected.
oldest(s, p) == CHOOSE i \in DOMAIN s : s[i] \notin p /\ \A j \in 1..(i - 1) : s[j] \in p

\* One round of the loop of evict: nothing once the size is right or every
\* op-id is protected.
evictOne(s, p) ==
    IF Len(s) > max /\ ~(Range(s) \subseteq p)
    THEN LET i == oldest(s, p) IN SubSeq(s, 1, i - 1) \o SubSeq(s, i + 1, Len(s))
    ELSE s

\* Wrong variant: the oldest go, protected or not.
EvictOldest(s, p) == IF Len(s) > max THEN SubSeq(s, Len(s) - max + 1, Len(s)) ELSE s

\* evict: the loop has changed nothing more after as many rounds as there are op-ids.
evict(s, p) ==
    LET after[n \in 0..Len(s)] == IF n = 0 THEN s ELSE evictOne(after[n - 1], p)
    IN after[Len(s)]

remember(s, p, op) == IF op \in Range(s) THEN s ELSE evict(Append(s, op), p)

\* Wrong variant: what was kept for the protection stays.
KeepAll(s, p) == s

\* unprotect evicts what the protection has kept.
unprotect(s, p) == evict(s, p)

\* loadFrom forgets the protection and remembers one op-id after the other.
loadFrom(ops) ==
    LET after[n \in 0..Len(ops)] ==
            IF n = 0 THEN <<>> ELSE remember(after[n - 1], {}, ops[n])
    IN after[Len(ops)]

Granted(op) ==
    granted' = IF seen(op) THEN granted ELSE [granted EXCEPT ![op] = @ + 1]

\* A grant without a source.
Grant(op) ==
    /\ op \notin sources
    /\ granted[op] = 0
    /\ Granted(op)
    /\ order' = remember(order, protected, op)
    /\ UNCHANGED <<protected, stored, sources>>

\* A source appears.
Source(op) ==
    /\ granted[op] = 0
    /\ sources' = sources \cup {op}
    /\ UNCHANGED <<order, protected, stored, granted>>

\* Replay of a source as the comment of opDedup asks for: protect, then
\* remember.
ProtectedReplay(op) ==
    /\ op \in sources
    /\ protected' = protected \cup {op}
    /\ Granted(op)
    /\ order' = remember(order, protected', op)
    /\ UNCHANGED <<stored, sources>>

\* Replay as applyOfflineMsg does it.
Replay(op) ==
    /\ op \in sources
    /\ Granted(op)
    /\ order' = remember(order, protected, op)
    /\ UNCHANGED <<protected, stored, sources>>

\* The source of something stored is consumed, then the op-id is unprotected.
Consume(op) ==
    /\ op \in sources
    /\ op \in Range(stored)
    /\ sources' = sources \ {op}
    /\ protected' = protected \ {op}
    /\ order' = unprotect(order, protected')
    /\ UNCHANGED <<stored, granted>>

\* The component is flushed.
Flush ==
    /\ stored' = order
    /\ UNCHANGED <<order, protected, sources, granted>>

\* The component is loaded again by a login after what was in memory was
\* flushed.
Load ==
    /\ stored = order
    /\ order' = loadFrom(stored)
    /\ protected' = {}
    /\ UNCHANGED <<stored, sources, granted>>

Common(op) == Grant(op) \/ Source(op) \/ Consume(op)

Next == Flush \/ (\E op \in Ops : Common(op) \/ ProtectedReplay(op))
Spec == Init /\ [][Next]_vars

\* The runtime: no protection, and logins that load the component again.
LobbyNext == Flush \/ Load \/ (\E op \in Ops : Common(op) \/ Replay(op))
LobbySpec == Init /\ [][LobbyNext]_vars

-----------------------------------------------------------------------------

\* The ring is over its size only by op-ids that are protected, also after
\* unprotect: evict goes on until the size is right or nothing can go.
Bounded == Len(order) > max => Range(order) \subseteq protected

\* An op-id that was granted from a source is in the ring until the source is
\* consumed (opDedup.protect), so that it can be replayed any number of times.
UnconsumedKept == \A op \in sources : granted[op] > 0 => seen(op)

\* Nothing is granted twice, whatever evict drives out between two replays of
\* a source by Bag.Add or Currency.Gain.
GrantedOnce == \A op \in Ops : granted[op] <= 1

\* loadFrom of the snapshot of a ring without protection gives the same ring.
LoadRestores == protected = {} => loadFrom(order) = order

\* evict never drives out an unprotected op-id before one that is older, also
\* when protection has kept the ring too long and unprotect shortens it.
EvictsInOrder ==
    [][\A i, j \in DOMAIN order :
          i < j /\ order[i] \notin protected'
                /\ order[i] \in Range(order') /\ order[j] \notin protected'
              => order[j] \in Range(order')]_vars
=============================================================================
