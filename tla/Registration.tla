---------------------------- MODULE Registration ----------------------------
(***************************************************************************)
(* How one RouterAgent registers the processes of its machine in etcd and  *)
(* learns of all others: Runtime (runtime.go) with its table of local      *)
(* connections and its member table, and EtcdRegistry (registry.go) with   *)
(* its lease.  Five kinds of goroutines meet:                              *)
(*   - the main loop, which handles handshakes and applies watch events;   *)
(*   - one goroutine per local (UDS) connection, which posts the frames of *)
(*     the connection and, when it ends, removes it BESIDE the main loop;  *)
(*   - the keepalive loop, which renews the lease and recovers a lost one; *)
(*   - the watch goroutine, which posts the changes that etcd reports;     *)
(*   - the start of the process, which runs before the main loop does.     *)
(* etcd is external: keys attached to leases, a watch that reports every   *)
(* change in order, calls that may fail, leases that expire.               *)
(*                                                                         *)
(* A key is reduced to the lease it is attached to (0: there is no key).   *)
(* The address and the start time in its value are left out: all keys of a *)
(* RouterAgent carry the same address.  So are the tasks that enter the    *)
(* RouterAgent's own key in its own member table, where nothing reads it.  *)
(***************************************************************************)
EXTENDS Naturals, Sequences, FiniteSets, Functions

CONSTANTS Nodes,      \* the processes of this machine, by node ID
          Others,     \* nodes registered by other RouterAgents
          Self,       \* the node of this RouterAgent
          QueueCap,   \* capacity of the task queue (256 in taskqueue.go)
          MaxConns,   \* bound: UDS connections, numbered as they are made
          MaxEvents   \* bound: connections, failing calls, early expiries, a
                      \* closed watch and changes by other RouterAgents

ASSUME RegistrationConstants ==
    /\ QueueCap \in Nat \ {0}
    /\ MaxConns \in Nat /\ MaxEvents \in Nat
    /\ Self \notin Nodes \cup Others /\ Nodes \cap Others = {}
    /\ IsFiniteSet(Nodes) /\ IsFiniteSet(Others)

Conns == 1..MaxConns
NoConn == 0
All == Nodes \cup Others \cup {Self}
\* Every lease after the first is granted because a fault ended the one before.
Leases == 1..MaxEvents + 1
\* The leases of other RouterAgents, and of an earlier process of this one.
ForeignLease == MaxEvents + 2

VARIABLES
    phase,      \* start of the process: "register", "get", "post", "loop", "failed"
    initial,    \* nodes of the first Get that are still to be posted
    queue,      \* tasks for the main loop
    main,       \* the main loop: where it is in the handshake it handles
    st,         \* st[c]: where connection c and its goroutine are
    owner,      \* owner[c]: the node of connection c
    answered,   \* connections whose handshake was answered, with 1 or 0
    localConns, \* LocalConnSet: node -> connection or NoConn
    members,    \* MemberTable: the nodes it lists
    lease,      \* EtcdRegistry.lease, 0: none
    registered, \* EtcdRegistry.registered
    ka,         \* the keepalive loop: [at, todo] and the lease of a recovery
    keys,       \* etcd: the lease each key is attached to, 0: no key
    alive,      \* etcd: leases of this process that exist
    watch,      \* "off", "on", "closed"
    stream,     \* etcd: changes reported and not yet posted
    faults,     \* how often the environment has interfered
    marks       \* history: <<cause, node>> of the events that lose track of a node

etcd == <<keys, alive, watch, stream>>
registry == <<lease, registered, ka>>
tables == <<localConns, members>>
conns == <<st, owner, answered>>
vars == <<phase, initial, queue, main, conns, tables, registry, etcd, faults, marks>>

Idle == [at |-> "idle", c |-> NoConn, l |-> 0]
Resting == [at |-> "tick", todo |-> {}, l |-> 0]

\* Wrong variants: one slot less, one slot more.
SmallerFull == Len(queue) >= QueueCap - 1
LaterFull == Len(queue) > QueueCap
\* TaskQueue.Post waits while the channel is full.
Full == Len(queue) >= QueueCap

\* MemberTable
Upsert(n) == members \cup {n}
Delete(n) == members \ {n}

-----------------------------------------------------------------------------
(***************************************************************************)
(* etcd                                                                    *)
(***************************************************************************)

Connected == {c \in Conns : st[c] # "new"}
MoreEvents == faults + Cardinality(Connected) < MaxEvents

Fault == MoreEvents /\ faults' = faults + 1

\* The elements of S one after another, in some order.
Listing(S) == CHOOSE f \in [1..Cardinality(S) -> S] : IsInjective(f)

\* The nodes ns change in etcd: the watch reports it, or the RouterAgent,
\* which has read the keys already, never hears of it.
Report(op, ns) ==
    stream' = IF watch = "on" THEN stream \o Listing({<<op, n>> : n \in ns \ {Self}}) ELSE stream
Unseen(ns) ==
    IF watch # "on" /\ phase \notin {"register", "get"} THEN {<<"unseen", n>> : n \in ns \ {Self}} ELSE {}

PutKey(n, l) ==
    /\ keys' = [keys EXCEPT ![n] = l]
    /\ Report("add", {n})
    /\ UNCHANGED <<alive, watch>>

DeleteKey(n) ==
    /\ keys' = [keys EXCEPT ![n] = 0]
    /\ Report("del", {n} \cap {m \in All : keys[m] # 0})
    /\ UNCHANGED <<alive, watch>>

\* A lease expires and takes its keys with it: one that the RouterAgent no
\* longer renews always does, the current one when its renewals come too late.
Expire(l) ==
    /\ l \in alive
    /\ IF l = lease THEN Fault ELSE UNCHANGED faults
    /\ LET gone == {n \in All : keys[n] = l} IN
         /\ keys' = [n \in All |-> IF n \in gone THEN 0 ELSE keys[n]]
         /\ Report("del", gone)
         /\ marks' = marks \cup Unseen(gone)
    /\ alive' = alive \ {l}
    /\ UNCHANGED <<phase, initial, queue, main, conns, tables, registry, watch>>

\* Another RouterAgent registers or unregisters a node of its own.
OtherChange(n) ==
    /\ Fault
    /\ IF keys[n] = 0 THEN PutKey(n, ForeignLease) ELSE DeleteKey(n)
    /\ marks' = marks \cup Unseen({n})
    /\ UNCHANGED <<phase, initial, queue, main, conns, tables, registry>>

\* The watch channel is closed and the goroutine returns; nobody watches again.
CloseWatch ==
    /\ watch = "on" /\ Fault
    /\ watch' = "closed"
    /\ marks' = marks \cup {<<"unseen", stream[i][2]>> : i \in 1..Len(stream)}
    /\ stream' = <<>>
    /\ UNCHANGED <<phase, initial, queue, main, conns, tables, registry, keys, alive>>

-----------------------------------------------------------------------------
(***************************************************************************)
(* The start of the process.  The UDS server already listens, so handshakes *)
(* may be queued, but nothing drains the queue yet.                        *)
(***************************************************************************)

\* AfterInit registers the RouterAgent itself, if its key does not exist.
RegisterSelf ==
    /\ phase = "register"
    /\ \/ /\ keys[Self] = 0
          /\ lease' = 1 /\ alive' = alive \cup {1}
          /\ keys' = [keys EXCEPT ![Self] = 1]
          /\ registered' = registered \cup {Self}
          /\ phase' = "get"
          /\ UNCHANGED faults
       \/ /\ keys[Self] # 0
          /\ phase' = "failed"
          /\ UNCHANGED <<lease, alive, keys, registered, faults>>
       \/ /\ Fault
          /\ phase' = "failed"
          /\ UNCHANGED <<lease, alive, keys, registered>>
    /\ UNCHANGED <<initial, queue, main, conns, tables, ka, watch, stream, marks>>

\* Discover reads all keys and posts them one by one from the goroutine that
\* will run the main loop, which waits while the queue is full.
DiscoverGet ==
    /\ phase = "get"
    /\ \/ /\ initial' = {n \in All \ {Self} : keys[n] # 0} /\ phase' = "post"
          /\ UNCHANGED faults
       \/ Fault /\ phase' = "failed" /\ UNCHANGED initial
    /\ UNCHANGED <<queue, main, conns, tables, registry, etcd, marks>>

DiscoverPost ==
    /\ phase = "post"
    /\ IF initial = {}
       THEN phase' = "loop" /\ UNCHANGED <<initial, queue>>
       ELSE \E n \in initial :
              /\ ~Full
              /\ queue' = Append(queue, <<"add", n>>)
              /\ initial' = initial \ {n}
              /\ UNCHANGED phase
    /\ UNCHANGED <<main, conns, tables, registry, etcd, faults, marks>>

\* The goroutine that Discover leaves behind watches from now on, not from
\* the revision that was read.
StartWatch ==
    /\ phase = "loop" /\ watch = "off"
    /\ watch' = "on"
    /\ UNCHANGED <<phase, initial, queue, main, conns, tables, registry, keys, alive,
                   stream, faults, marks>>

WatchPost ==
    /\ stream # <<>> /\ ~Full
    /\ queue' = Append(queue, Head(stream))
    /\ stream' = Tail(stream)
    /\ UNCHANGED <<phase, initial, main, conns, tables, registry, keys, alive, watch, faults, marks>>

-----------------------------------------------------------------------------
(***************************************************************************)
(* Local connections                                                       *)
(***************************************************************************)

Open(c) == st[c] \in {"open", "posted"}

\* A process connects and sends its handshake.  A node has one process at a
\* time, so the connection of an earlier one has ended, which does not mean
\* that the RouterAgent has finished with it.
Connect(c, n) ==
    /\ phase # "failed" /\ MoreEvents
    /\ c = 1 + Cardinality(Connected)
    /\ \A d \in Conns : Open(d) => owner[d] # n
    /\ st' = [st EXCEPT ![c] = "open"]
    /\ owner' = [owner EXCEPT ![c] = n]
    /\ UNCHANGED <<phase, initial, queue, main, answered, tables, registry, etcd, faults, marks>>

\* handleConn posts the handshake to the main loop.
PostFrame(c) ==
    /\ st[c] = "open" /\ ~Full
    /\ queue' = Append(queue, <<"shake", c>>)
    /\ st' = [st EXCEPT ![c] = "posted"]
    /\ UNCHANGED <<phase, initial, main, owner, answered, tables, registry, etcd, faults, marks>>

\* The process ends, at any time after it has sent its handshake.
Hangup(c) ==
    /\ st[c] = "posted"
    /\ st' = [st EXCEPT ![c] = "closed"]
    /\ UNCHANGED <<phase, initial, queue, main, owner, answered, tables, registry, etcd, faults, marks>>

\* Wrong variant: the member table is updated last.
TableLast == <<"forget", "delete", "table", "ended">>
\* removeConn, step by step: after LocalConnSet.Remove has taken the node of
\* this very connection, the member table, the registered nodes and the key follow.
RemovalOrder == <<"table", "forget", "delete", "ended">>
After(step) == RemovalOrder[1 + CHOOSE i \in 1..3 : RemovalOrder[i] = step]

RemoveLocal(c) ==
    /\ st[c] = "closed"
    /\ IF localConns[owner[c]] = c
       THEN /\ localConns' = [localConns EXCEPT ![owner[c]] = NoConn]
            /\ st' = [st EXCEPT ![c] = RemovalOrder[1]]
       ELSE st' = [st EXCEPT ![c] = "ended"] /\ UNCHANGED localConns
    /\ UNCHANGED <<phase, initial, queue, main, owner, answered, members, registry, etcd, faults, marks>>

RemoveMember(c) ==
    /\ st[c] = "table"
    /\ members' = Delete(owner[c])
    /\ st' = [st EXCEPT ![c] = After("table")]
    /\ UNCHANGED <<phase, initial, queue, main, owner, answered, localConns, registry, etcd, faults, marks>>

\* Wrong variant: the node stays among those that a recovery puts again.
KeepNode(n) == registered
Forget(n) == registered \ {n}

ForgetNode(c) ==
    /\ st[c] = "forget"
    /\ registered' = Forget(owner[c])
    /\ st' = [st EXCEPT ![c] = After("forget")]
    /\ UNCHANGED <<phase, initial, queue, main, owner, answered, tables, lease, ka, etcd, faults, marks>>

\* A handshake of the node n is past its Put or was answered: the node is in use again.
InUse(n) ==
    \/ localConns[n] # NoConn
    \/ main.at \in {"remember", "enter"} /\ owner[main.c] = n

DeleteNode(c) ==
    /\ st[c] = "delete"
    /\ LET n == owner[c] IN
         /\ \/ DeleteKey(n) /\ UNCHANGED faults
            \/ Fault /\ UNCHANGED etcd
         /\ marks' = marks
              \cup (IF faults' = faults THEN Unseen({n}) ELSE {<<"undeleted", n>>})
              \cup (IF InUse(n) THEN {<<"overtaken", n>>} ELSE {})
    /\ st' = [st EXCEPT ![c] = After("delete")]
    /\ UNCHANGED <<phase, initial, queue, main, owner, answered, tables, registry>>

-----------------------------------------------------------------------------
(***************************************************************************)
(* The main loop: tasks one after another, a handshake in several steps    *)
(* because it waits for etcd.                                              *)
(***************************************************************************)

TakeTask ==
    /\ phase = "loop" /\ main.at = "idle" /\ queue # <<>>
    /\ LET op == Head(queue)[1]  x == Head(queue)[2] IN
         /\ members' = CASE op = "add" -> Upsert(x)
                         [] op = "del" -> Delete(x)
                         [] op = "shake" -> members
         /\ main' = IF op = "shake" THEN [at |-> "ensure", c |-> x, l |-> 0] ELSE Idle
    /\ queue' = Tail(queue)
    /\ UNCHANGED <<phase, initial, conns, localConns, registry, etcd, faults, marks>>

\* The answer 0: nothing is entered in the tables.
Refuse == main' = Idle /\ answered' = answered \cup {main.c}

\* The ID of a new lease: one that no part of the program still holds.
Fresh == CHOOSE l \in Leases : l \notin alive \cup {main.l}

\* ensureLease
EnsureLease ==
    /\ main.at = "ensure"
    /\ \/ /\ lease # 0
          /\ main' = [main EXCEPT !.at = "put", !.l = lease]
          /\ UNCHANGED <<lease, alive, faults, answered>>
       \/ /\ lease = 0
          /\ lease' = Fresh /\ alive' = alive \cup {Fresh}
          /\ main' = [main EXCEPT !.at = "put", !.l = Fresh]
          /\ UNCHANGED <<faults, answered>>
       \/ /\ lease = 0 /\ Fault /\ Refuse
          /\ UNCHANGED <<lease, alive>>
    /\ UNCHANGED <<phase, initial, queue, st, owner, tables, registered, ka, keys, watch,
                   stream, marks>>

\* The causes that leave a node in use without its key; a new Put with the
\* current lease ends them.
Lost == {"overtaken", "unrecovered", "unremembered"}
Republished(n, remembered) == IF remembered THEN Lost \X {n} ELSE {}

\* PutNode's Put: etcd refuses a lease that no longer exists; an error may
\* also hide that the key was written.
PutNode ==
    /\ main.at = "put"
    /\ LET n == owner[main.c] IN
         \/ /\ main.l \in alive
            /\ PutKey(n, main.l)
            /\ main' = [main EXCEPT !.at = "remember"]
            /\ marks' = (marks \cup Unseen({n})) \ Republished(n, main.l = lease)
            /\ UNCHANGED <<faults, answered>>
         \/ /\ main.l \notin alive /\ Refuse
            /\ UNCHANGED <<etcd, faults, marks>>
         \/ /\ main.l \in alive /\ Fault /\ Refuse
            /\ \/ PutKey(n, main.l) /\ marks' = marks \cup Unseen({n}) \cup {<<"ambiguous", n>>}
               \/ UNCHANGED <<etcd, marks>>
    /\ UNCHANGED <<phase, initial, queue, st, owner, tables, registry>>

\* rememberNode: too late for a recovery that has copied the nodes meanwhile.
RememberNode ==
    /\ main.at = "remember"
    /\ LET n == owner[main.c] IN
         /\ registered' = registered \cup {n}
         /\ marks' = IF main.l # lease /\ ka.at # "recover"
                     THEN marks \cup {<<"unremembered", n>>} ELSE marks
    /\ main' = [main EXCEPT !.at = "enter"]
    /\ UNCHANGED <<phase, initial, queue, conns, tables, lease, ka, etcd, faults>>

\* The rest of the handshake, whether or not the connection still exists.
FinishHandshake ==
    /\ main.at = "enter"
    /\ LET n == owner[main.c] IN
         /\ members' = Upsert(n)
         /\ localConns' = [localConns EXCEPT ![n] = main.c]
         /\ marks' = IF st[main.c] = "ended" THEN marks \cup {<<"late", n>>} ELSE marks
    /\ main' = Idle
    /\ answered' = answered \cup {main.c}
    /\ UNCHANGED <<phase, initial, queue, st, owner, registry, etcd, faults>>

-----------------------------------------------------------------------------
(***************************************************************************)
(* The keepalive loop                                                      *)
(***************************************************************************)

\* keepaliveOnce fails: the lease is gone, or the call is lost.
KeepaliveFails ==
    /\ ka.at = "tick" /\ lease # 0
    /\ \/ lease \notin alive /\ UNCHANGED faults
       \/ lease \in alive /\ Fault
    /\ lease' = 0
    /\ ka' = [ka EXCEPT !.at = "recover"]
    /\ UNCHANGED <<phase, initial, queue, main, conns, tables, registered, etcd, marks>>

\* Wrong variant: only the RouterAgent itself is put again.
SelfOnly == {Self}
\* The nodes that recoverLease puts again, copied under the lock.
ToRecover == registered

Unrecovered == {<<"unrecovered", n>> : n \in {m \in registered : lease = 0 \/ keys[m] # lease}}

\* recoverLease up to the copy: nothing is put again when the main loop has
\* been granted a lease meanwhile, and a failed Grant is not retried, because
\* keepaliveOnce finds no lease and reports no error.
RecoverLease ==
    /\ ka.at = "recover"
    /\ \/ /\ lease # 0
          /\ ka' = Resting /\ marks' = marks \cup Unrecovered
          /\ UNCHANGED <<lease, alive, faults>>
       \/ /\ lease = 0
          /\ lease' = Fresh /\ alive' = alive \cup {Fresh}
          /\ ka' = [at |-> "put", todo |-> ToRecover, l |-> Fresh]
          /\ UNCHANGED <<faults, marks>>
       \/ /\ lease = 0 /\ Fault
          /\ ka' = Resting /\ marks' = marks \cup Unrecovered
          /\ UNCHANGED <<lease, alive>>
    /\ UNCHANGED <<phase, initial, queue, main, conns, tables, registered, keys, watch, stream>>

\* One Put of the recovery; the first error ends it and drops the lease.
RecoverPut ==
    /\ ka.at = "put"
    /\ \/ /\ ka.todo = {} /\ ka' = Resting
          /\ UNCHANGED <<lease, etcd, faults, marks>>
       \/ \E n \in ka.todo :
            /\ ka.l \in alive
            /\ PutKey(n, ka.l)
            /\ ka' = [ka EXCEPT !.todo = @ \ {n}]
            /\ marks' = ((marks \cup Unseen({n})) \ Republished(n, n \in registered))
                 \cup (IF n \notin registered THEN {<<"resurrected", n>>} ELSE {})
            /\ UNCHANGED <<lease, faults>>
       \/ /\ ka.todo # {}
          /\ IF ka.l \in alive THEN Fault ELSE UNCHANGED faults
          /\ lease' = 0 /\ ka' = Resting
          /\ marks' = marks \cup {<<"unrecovered", n>> : n \in registered}
          /\ UNCHANGED etcd
    /\ UNCHANGED <<phase, initial, queue, main, conns, tables, registered>>

-----------------------------------------------------------------------------
\* The key of an earlier process of this RouterAgent may not have expired yet.
Init ==
    /\ phase = "register" /\ initial = {}
    /\ queue = <<>> /\ main = Idle
    /\ st = [c \in Conns |-> "new"] /\ owner = [c \in Conns |-> Self] /\ answered = {}
    /\ localConns = [n \in Nodes |-> NoConn] /\ members = {}
    /\ lease = 0 /\ registered = {} /\ ka = Resting
    /\ keys \in {k \in [All -> {0, ForeignLease}] : \A n \in Nodes : k[n] = 0}
    /\ alive = {} /\ watch = "off" /\ stream = <<>>
    /\ faults = 0 /\ marks = {}

Start == RegisterSelf \/ DiscoverGet \/ DiscoverPost
MainLoop == TakeTask \/ EnsureLease \/ PutNode \/ RememberNode \/ FinishHandshake
Removal(c) == RemoveLocal(c) \/ RemoveMember(c) \/ ForgetNode(c) \/ DeleteNode(c)

Next ==
    \/ Start \/ StartWatch \/ WatchPost
    \/ \E c \in Conns : \/ \E n \in Nodes : Connect(c, n)
                        \/ PostFrame(c) \/ Hangup(c) \/ Removal(c)
    \/ MainLoop
    \/ KeepaliveFails \/ RecoverLease \/ RecoverPut
    \/ \E l \in Leases : Expire(l)
    \/ \E n \in Others : OtherChange(n)
    \/ CloseWatch

\* The start, the main loop and the goroutines that post frames run whenever
\* they can; a call to etcd returns.
Fairness ==
    /\ WF_vars(Start) /\ WF_vars(MainLoop)
    /\ \A c \in Conns : WF_vars(PostFrame(c))

Spec == Init /\ [][Next]_vars /\ Fairness

-----------------------------------------------------------------------------
\* Types: queue, stream and tables hold what the handlers of the RouterAgent and
\* the registry put there, the queue no more than its capacity; a key that is
\* there was put under a lease that lives.
TypeOK ==
    /\ phase \in {"register", "get", "post", "loop", "failed"}
    /\ initial \subseteq All /\ members \subseteq All /\ registered \subseteq Nodes \cup {Self}
    /\ Len(queue) <= QueueCap
    /\ Range(queue) \subseteq ({"add", "del"} \X All) \cup ({"shake"} \X Conns)
    /\ Range(stream) \subseteq {"add", "del"} \X All
    /\ main \in [at : {"idle", "ensure", "put", "remember", "enter"}, c : Conns \cup {NoConn}, l : {0} \cup Leases]
    /\ ka \in [at : {"tick", "recover", "put"}, todo : SUBSET (Nodes \cup {Self}), l : {0} \cup Leases]
    /\ st \in [Conns -> {"new", "open", "posted", "closed"} \cup Range(RemovalOrder)]
    /\ localConns \in [Nodes -> Conns \cup {NoConn}]
    /\ lease \in {0} \cup Leases /\ alive \subseteq Leases
    /\ keys \in [All -> {0, ForeignLease} \cup alive]

\* Nothing is on its way: no task, report, handshake, removal or recovery, and
\* no abandoned lease that has yet to expire.
Quiet ==
    /\ phase = "loop" /\ queue = <<>> /\ stream = <<>> /\ main = Idle /\ ka = Resting
    /\ alive = {lease} \ {0}
    /\ \A c \in Conns : st[c] \in {"new", "posted", "ended"}

Served(n) == n = Self \/ (localConns[n] # NoConn /\ Open(localConns[n]))
Marked(causes, n) == \E cause \in causes : <<cause, n>> \in marks

\* When nothing is on its way the member table lists exactly the nodes that
\* have a key in etcd, although the removal of a connection writes the table
\* beside the main loop: except for a node that changed while nobody watched
\* (between Discover's Get and Watch, or after the watch channel was closed)
\* and one whose key removeConn failed to delete.
MembersFollowEtcd ==
    Quiet => \A n \in Nodes \cup Others : ~Marked({"unseen", "undeleted"}, n) => (n \in members <=> keys[n] # 0)

\* When nothing is on its way the key of a local node that has no live
\* connection is gone ("业务 UDS 断开时删除业务节点 key"), unless its handshake was
\* finished after its connection had been removed, or failed although its key
\* was written, or the deletion failed, or a recovery put the node again from
\* a copy taken before the node was forgotten.
NoOrphanKey ==
    Quiet => \A n \in Nodes :
        keys[n] # 0 => Served(n) \/ Marked({"late", "ambiguous", "undeleted", "resurrected"}, n)

\* When nothing is on its way a node that is connected and was accepted, and
\* the RouterAgent itself, have their key under the current lease, through any
\* loss of leases: unless the removal of an earlier connection of the node
\* overtook its handshake, the recovery failed or was skipped because a
\* handshake had been granted the new lease, or the node was put before the
\* lease was lost and remembered after the recovery had copied the nodes.
ServedIsPublished ==
    Quiet => \A n \in Nodes \cup {Self} :
        Served(n) => (lease # 0 /\ keys[n] = lease) \/ Marked(Lost, n)

\* Every handshake is answered, with 1 or 0, unless the process fails to start:
\* the queue holds the tasks of the start, which nothing drains before it ends.
EveryHandshakeAnswered ==
    \A c \in Conns : (st[c] = "open") ~> (c \in answered \/ phase = "failed")
=============================================================================
