------------------------- MODULE RegistrationProofs -------------------------
(***************************************************************************)
(* The safety properties of Registration, for any processes, other nodes,  *)
(* connections, faults and capacity of the queue.  They speak of states in *)
(* which nothing is on its way; RegInv, which is inductive, says for every *)
(* state what still is:                                                    *)
(*   - the last report of a node in the stream, the queue or Discover's    *)
(*     list says whether it has a key, else the member table does          *)
(*     (Followed);                                                         *)
(*   - a key or registration has an entry, a removal that has yet to reach *)
(*     it, a handshake past it, or a mark (Accounted);                     *)
(*   - a node in service has its key under the current lease, or a         *)
(*     recovery has yet to put it, or it is marked as lost (Published).    *)
(* The last two need that a node's handshakes are handled in the order of  *)
(* its connections (Joined, Queued, Entered, InTurn), and that leases do   *)
(* not come back while anything holds them (Granted).                      *)
(***************************************************************************)
EXTENDS Registration, FiniteSetTheorems, TLAPS

\* A leaf that names no prover goes to Zenon first and then to the SMT solver.
USE ZenonT(2), SMTT(30), ZenonT(30)

-----------------------------------------------------------------------------
(* The inductive invariant *)

Tasks == ({"add", "del"} \X All) \cup ({"shake"} \X Conns)

\* The types of TypeOK, and what it leaves out: the queue and the stream are
\* sequences, a connection has an owner, an idle main loop holds nothing.
Types ==
    /\ phase \in {"register", "get", "post", "loop", "failed"}
    /\ initial \subseteq All /\ members \subseteq All /\ registered \subseteq Nodes \cup {Self}
    /\ queue \in Seq(Tasks) /\ Len(queue) <= QueueCap
    /\ stream \in Seq({"add", "del"} \X All)
    /\ main \in [at : {"idle", "ensure", "put", "remember", "enter"}, c : Conns \cup {NoConn}, l : {0} \cup Leases]
    /\ IF main.at = "idle" THEN main = Idle ELSE main.c \in Conns
    /\ ka \in [at : {"tick", "recover", "put"}, todo : SUBSET (Nodes \cup {Self}), l : {0} \cup Leases]
    /\ st \in [Conns -> {"new", "open", "posted", "closed", "table", "forget", "delete", "ended"}]
    /\ owner \in [Conns -> Nodes \cup {Self}]
    /\ localConns \in [Nodes -> Conns \cup {NoConn}]
    /\ lease \in {0} \cup Leases /\ alive \subseteq Leases
    /\ keys \in [All -> {0, ForeignLease} \cup alive]
    /\ faults \in Nat /\ faults <= MaxEvents

\* The start: nothing but the posts of Discover happens before the main loop.
Starting ==
    /\ phase # "loop" =>
         main = Idle /\ watch = "off" /\ members = {} /\ \A n \in Nodes : localConns[n] = NoConn
    /\ phase # "post" => initial = {}
    /\ phase = "register" => lease = 0 /\ alive = {} /\ registered = {} /\ ka = Resting
    /\ phase \in {"get", "post", "loop"} => Self \in registered
    /\ watch # "on" => stream = <<>>

\* The leases that anything still holds: one that is current and alive is
\* free, every other one has cost a fault.
Held == (alive \cup {lease, main.l}) \ {0}
Granted ==
    /\ ka.at = "put" => ka.l = lease /\ lease # 0
    /\ main.at \in {"put", "remember", "enter"} => main.l # 0
    /\ Cardinality(Held) <= faults + (IF lease \in alive THEN 1 ELSE 0)

\* Handshakes: the ones in the queue, and the one the main loop is at.
Waits(c, i) == i \in DOMAIN queue /\ queue[i] = <<"shake", c>>
Handled(c) == main.at # "idle" /\ main.c = c
Shaking(c) == Handled(c) \/ \E i \in DOMAIN queue : Waits(c, i)

\* Connections are numbered as they are made, by processes of this machine; a
\* node has at most one that is open.
Joined ==
    /\ \E k \in 0..MaxConns : Connected = 1..k
    /\ \A c \in Connected : owner[c] \in Nodes
    /\ \A c, d \in Conns : Open(c) /\ Open(d) /\ owner[c] = owner[d] => c = d

\* A connection has one handshake, which is posted before it can end, and
\* enters it in the local table only when it is finished.
Queued ==
    \A c \in Conns :
      /\ Shaking(c) => st[c] \in {"posted", "closed", "ended"} /\ localConns[owner[c]] # c
      /\ \A i, j \in DOMAIN queue : Waits(c, i) /\ Waits(c, j) => i = j
      /\ \A i \in DOMAIN queue : Waits(c, i) => ~Handled(c)

\* The local table holds connections of its nodes, which have not been removed,
\* unless the handshake was finished too late.
Entered ==
    \A n \in Nodes : localConns[n] # NoConn =>
      /\ owner[localConns[n]] = n
      /\ \/ st[localConns[n]] \in {"posted", "closed"}
         \/ st[localConns[n]] = "ended" /\ <<"late", n>> \in marks

\* A node's handshakes are handled in the order of its connections: while an
\* earlier one is under way the connection that is open is not entered yet.
InTurn ==
    \A c, d \in Conns : c # d /\ owner[c] = owner[d] /\ Open(c) /\ Shaking(d) =>
        /\ localConns[owner[c]] # c /\ ~Handled(c)
        /\ \A i, j \in DOMAIN queue : Waits(c, j) /\ Waits(d, i) => i < j

-----------------------------------------------------------------------------
\* The last report of the node n in s says op; s has no report of n.
Reports(n) == {<<"add", n>>, <<"del", n>>}
Says(s, n, op) ==
    \E i \in DOMAIN s : /\ s[i] = <<op, n>>
                        /\ \A j \in DOMAIN s : j > i => s[j] \notin Reports(n)
Silent(s, n) == \A i \in DOMAIN s : s[i] \notin Reports(n)

\* What the main loop will have heard last of n, if anything.
Told(n, op) == Says(stream, n, op) \/ (Silent(stream, n) /\ Says(queue, n, op))
NotTold(n) == Silent(stream, n) /\ Silent(queue, n)

Removing(n, steps) == \E c \in Conns : owner[c] = n /\ st[c] \in steps
Handling(n, steps) == main.at \in steps /\ owner[main.c] = n

\* How the member table stands to etcd for a node n: what is still to be posted
\* or applied ends in what etcd has; when there is nothing, the table lists
\* the nodes that have a key, but for one that removeConn is about to delete.
Follows(n) ==
    /\ n \in initial => keys[n] # 0 /\ NotTold(n)
    /\ \A op \in {"add", "del"} : Told(n, op) => (op = "add" <=> keys[n] # 0)
    /\ NotTold(n) /\ n \notin initial =>
         /\ keys[n] # 0 => n \in members \/ Removing(n, {"forget", "delete"})
         /\ n \in members => keys[n] # 0
    /\ Handling(n, {"remember", "enter"}) => ~NotTold(n)

Followed ==
    /\ phase \in {"register", "get"} => \A n \in Nodes \cup Others : NotTold(n)
    /\ phase \in {"post", "loop"} =>
         \A n \in Nodes \cup Others : ~Marked({"unseen", "undeleted"}, n) => Follows(n)

-----------------------------------------------------------------------------
\* Why a local node is registered, and why it has a key: it is connected, its
\* removal has yet to reach that step, a handshake is past it, or it is marked.
Accounts(n) ==
    /\ n \in registered =>
         \/ localConns[n] # NoConn
         \/ Removing(n, {"table", "forget"})
         \/ Handling(n, {"enter"})
    /\ keys[n] # 0 =>
         \/ localConns[n] # NoConn
         \/ Removing(n, {"table", "forget", "delete"})
         \/ Handling(n, {"remember", "enter"})
         \/ Marked({"late", "ambiguous", "undeleted", "resurrected"}, n)

Accounted == \A n \in Nodes : Accounts(n)

-----------------------------------------------------------------------------
\* The node has its key under the current lease, for as long as that lives.
Good(n) == lease # 0 /\ (lease \in alive => keys[n] = lease)
\* The node's handshake was accepted, or is about to be.
InService(n) ==
    \/ n = Self /\ phase \in {"get", "post", "loop"}
    \/ n \in Nodes /\ (Served(n) \/ Handling(n, {"enter"}))

\* A node in service has its key, or a recovery has yet to put it, or its key
\* is lost; a Put with the current lease that has yet to be remembered is good.
Publishes(n) ==
    \/ Marked(Lost, n)
    \/ Removing(n, {"delete"})
    \/ n \in registered /\ (Good(n) \/ ka.at = "recover" \/ (ka.at = "put" /\ n \in ka.todo))

Published ==
    \A n \in Nodes \cup {Self} :
      /\ InService(n) => Publishes(n)
      /\ Handling(n, {"remember"}) /\ main.l = lease => Good(n) \/ Marked(Lost, n)

RegInv ==
    /\ Types /\ Starting /\ Granted /\ Joined /\ Queued /\ Entered /\ InTurn
    /\ Followed /\ Accounted /\ Published

-----------------------------------------------------------------------------
(* Constants and helpers *)

\* The order in which removeConn takes its steps, as After gives it.
LEMMA Steps ==
    /\ After("table") = "forget" /\ After("forget") = "delete" /\ After("delete") = "ended"
    /\ RemovalOrder[1] = "table"
    /\ Range(RemovalOrder) = {"table", "forget", "delete", "ended"}
<1> USE DEF RemovalOrder
<1>1. DOMAIN RemovalOrder = 1..4
  OBVIOUS
<1>2. /\ (CHOOSE i \in 1..3 : RemovalOrder[i] = "table") = 1
      /\ (CHOOSE i \in 1..3 : RemovalOrder[i] = "forget") = 2
      /\ (CHOOSE i \in 1..3 : RemovalOrder[i] = "delete") = 3
  <2>1. \A i \in 1..3 : /\ RemovalOrder[i] = "table" <=> i = 1
                        /\ RemovalOrder[i] = "forget" <=> i = 2
                        /\ RemovalOrder[i] = "delete" <=> i = 3
    OBVIOUS
  <2> QED
    BY <2>1
<1>3. /\ RemovalOrder[1] = "table" /\ RemovalOrder[2] = "forget"
      /\ RemovalOrder[3] = "delete" /\ RemovalOrder[4] = "ended"
  OBVIOUS
<1>4. Range(RemovalOrder) = {RemovalOrder[i] : i \in 1..4}
  BY <1>1 DEF Range
<1>5. After("table") = RemovalOrder[1 + 1] /\ After("forget") = RemovalOrder[1 + 2]
        /\ After("delete") = RemovalOrder[1 + 3]
  BY <1>2 DEF After
<1> HIDE DEF RemovalOrder
<1>6. Range(RemovalOrder) = {"table", "forget", "delete", "ended"}
  <2>1. \A i : i \in 1..4 <=> i = 1 \/ i = 2 \/ i = 3 \/ i = 4
    OBVIOUS
  <2> QED
    BY <1>3, <1>4, <2>1
<1> QED
  BY <1>3, <1>5, <1>6

\* The numbers that stand for connections and leases, and the nodes.
LEMMA Numbers ==
    /\ Conns \subseteq Nat /\ NoConn \notin Conns /\ NoConn = 0
    /\ Leases \subseteq Nat /\ 0 \notin Leases /\ ForeignLease \notin Leases /\ ForeignLease # 0
    /\ 1 \in Leases /\ ForeignLease \in Nat
    /\ Self \notin Nodes /\ Self \notin Others /\ Nodes \cap Others = {}
    /\ All = Nodes \cup Others \cup {Self} /\ IsFiniteSet(All)
    /\ IsFiniteSet(Leases) /\ Cardinality(Leases) = MaxEvents + 1
<1>1. IsFiniteSet(Nodes \cup Others)
  BY RegistrationConstants, FS_Union
<1>2. IsFiniteSet(All)
  BY <1>1, FS_AddElement DEF All
<1>3. IsFiniteSet(Leases) /\ Cardinality(Leases) = MaxEvents + 1
  <2>1. MaxEvents + 1 \in Int /\ ~(1 > MaxEvents + 1) /\ MaxEvents + 1 - 1 + 1 = MaxEvents + 1
    BY RegistrationConstants
  <2> QED
    BY <2>1, FS_Interval DEF Leases
<1> QED
  BY <1>2, <1>3, RegistrationConstants DEF Conns, NoConn, Leases, ForeignLease, All

-----------------------------------------------------------------------------
(* Reports in a sequence *)

\* A sequence from a finite set of reports lists each of them.
LEMMA Listed ==
    ASSUME NEW S, IsFiniteSet(S)
    PROVE  /\ Listing(S) \in Seq(S) /\ {Listing(S)[i] : i \in DOMAIN Listing(S)} = S
           /\ \A i, j \in DOMAIN Listing(S) : Listing(S)[i] = Listing(S)[j] => i = j
<1> DEFINE k == Cardinality(S)
<1>1. k \in Nat /\ ExistsBijection(1..k, S)
  BY FS_CardinalityType
<1>2. IsFiniteSet(1..k) /\ Cardinality(1..k) = k
  BY <1>1, FS_Interval
<1>3. \E f \in [1..k -> S] : IsInjective(f)
  BY <1>1 DEF ExistsBijection, Bijection, Injection
<1>4. PICK f : f = Listing(S)
  OBVIOUS
<1>5. f \in [1..k -> S] /\ IsInjective(f)
  BY <1>3, <1>4 DEF Listing
<1> HIDE DEF k
<1>6. f \in Injection(1..k, S)
  BY <1>5 DEF Injection
<1>7. f \in Surjection(1..k, S)
  BY <1>1, <1>2, <1>6, FS_Injection DEF k
<1>8. {f[i] : i \in DOMAIN f} = S
  BY <1>5, <1>7 DEF Surjection
<1>9. f \in Seq(S)
  BY <1>1, <1>5
<1>10. \A i, j \in DOMAIN f : f[i] = f[j] => i = j
  BY <1>5 DEF IsInjective
<1> QED
  BY <1>4, <1>8, <1>9, <1>10

\* One more task: it is the last report of its node.
LEMMA AppendReport ==
    ASSUME NEW S, NEW s \in Seq(S), NEW e, NEW n, NEW op \in {"add", "del"}
    PROVE  /\ Silent(Append(s, e), n) <=> Silent(s, n) /\ e \notin Reports(n)
           /\ Says(Append(s, e), n, op) <=> e = <<op, n>> \/ (e \notin Reports(n) /\ Says(s, n, op))
<1>1. PICK k \in Nat : k = Len(s)
  OBVIOUS
<1>2. PICK t : t = Append(s, e)
  OBVIOUS
<1>3. /\ DOMAIN s = 1..k /\ DOMAIN t = 1..(k + 1) /\ t[k + 1] = e
      /\ \A i \in 1..k : t[i] = s[i]
  BY <1>1, <1>2
<1>4. Silent(t, n) <=> Silent(s, n) /\ e \notin Reports(n)
  <2>1. \A i : i \in 1..(k + 1) <=> i \in 1..k \/ i = k + 1
    OBVIOUS
  <2> QED
    BY <1>3, <2>1 DEF Silent
<1>5. ASSUME Says(t, n, op) PROVE e = <<op, n>> \/ (e \notin Reports(n) /\ Says(s, n, op))
  <2>1. PICK i \in 1..(k + 1) : t[i] = <<op, n>> /\ \A j \in 1..(k + 1) : j > i => t[j] \notin Reports(n)
    BY <1>3, <1>5 DEF Says
  <2>2. CASE i = k + 1
    BY <1>3, <2>1, <2>2
  <2>3. CASE i # k + 1
    <3>1. i \in 1..k /\ k + 1 > i /\ k + 1 \in 1..(k + 1) /\ \A j \in 1..k : j \in 1..(k + 1)
      BY <2>3
    <3> QED
      BY <1>3, <2>1, <3>1 DEF Says
  <2> QED
    BY <2>2, <2>3
<1>6. ASSUME e = <<op, n>> PROVE Says(t, n, op)
  <2>1. k + 1 \in 1..(k + 1) /\ \A j \in 1..(k + 1) : ~(j > k + 1)
    OBVIOUS
  <2> QED
    BY <1>3, <1>6, <2>1 DEF Says
<1>7. ASSUME e \notin Reports(n), Says(s, n, op) PROVE Says(t, n, op)
  <2>1. PICK i \in 1..k : s[i] = <<op, n>> /\ \A j \in 1..k : j > i => s[j] \notin Reports(n)
    BY <1>3, <1>7 DEF Says
  <2>2. i \in 1..(k + 1) /\ \A j \in 1..(k + 1) : j \in 1..k \/ j = k + 1
    OBVIOUS
  <2> QED
    BY <1>3, <1>7, <2>1, <2>2 DEF Says
<1> QED
  BY <1>2, <1>4, <1>5, <1>6, <1>7

\* The first task goes: it was the last report of its node if none follows.
LEMMA TailReport ==
    ASSUME NEW S, NEW s \in Seq(S), s # <<>>, NEW n, NEW op \in {"add", "del"}
    PROVE  /\ Silent(s, n) <=> Head(s) \notin Reports(n) /\ Silent(Tail(s), n)
           /\ Says(s, n, op) <=> \/ Says(Tail(s), n, op)
                                 \/ Head(s) = <<op, n>> /\ Silent(Tail(s), n)
<1>1. PICK k \in Nat : Len(s) = k + 1
  <2>1. Len(s) \in Nat /\ Len(s) > 0
    OBVIOUS
  <2>2. Len(s) - 1 \in Nat /\ Len(s) = (Len(s) - 1) + 1
    BY <2>1
  <2> QED
    BY <2>2
<1>2. PICK t : t = Tail(s)
  OBVIOUS
<1>3. /\ DOMAIN s = 1..(k + 1) /\ DOMAIN t = 1..k /\ Head(s) = s[1]
      /\ \A i \in 1..k : t[i] = s[i + 1]
  BY <1>1, <1>2
<1>4. \A i \in 1..k : i + 1 \in 1..(k + 1) /\ i + 1 > 1
  OBVIOUS
<1>5. \A j \in 1..(k + 1) : j = 1 \/ \E i \in 1..k : j = i + 1
  <2>1. \A j \in 1..(k + 1) : j # 1 => j - 1 \in 1..k /\ j = (j - 1) + 1
    OBVIOUS
  <2> QED
    BY <2>1
<1>6. \A i, j \in 1..k : j + 1 > i + 1 <=> j > i
  OBVIOUS
<1>7. 1 \in 1..(k + 1)
  OBVIOUS
<1>8. Silent(s, n) <=> s[1] \notin Reports(n) /\ Silent(t, n)
  BY <1>3, <1>4, <1>5, <1>7 DEF Silent
<1>9. ASSUME Says(s, n, op) PROVE Says(t, n, op) \/ (s[1] = <<op, n>> /\ Silent(t, n))
  <2>1. PICK j \in 1..(k + 1) : s[j] = <<op, n>> /\ \A i \in 1..(k + 1) : i > j => s[i] \notin Reports(n)
    BY <1>3, <1>9 DEF Says
  <2>2. CASE j = 1
    BY <1>3, <1>4, <2>1, <2>2 DEF Silent
  <2>3. CASE j # 1
    <3>1. PICK i \in 1..k : j = i + 1
      BY <1>5, <2>3
    <3> QED
      BY <1>3, <1>4, <1>6, <2>1, <3>1 DEF Says
  <2> QED
    BY <2>2, <2>3
<1>10. ASSUME Says(t, n, op) PROVE Says(s, n, op)
  <2>1. PICK i \in 1..k : t[i] = <<op, n>> /\ \A j \in 1..k : j > i => t[j] \notin Reports(n)
    BY <1>3, <1>10 DEF Says
  <2>2. ASSUME NEW j \in 1..(k + 1), j > i + 1 PROVE s[j] \notin Reports(n)
    <3>1. PICK m \in 1..k : j = m + 1
      <4>1. j # 1
        BY <2>2
      <4> QED
        BY <1>5, <4>1
    <3> QED
      BY <1>3, <1>6, <2>1, <2>2, <3>1
  <2> QED
    BY <1>3, <1>4, <2>1, <2>2 DEF Says
<1>11. ASSUME s[1] = <<op, n>>, Silent(t, n) PROVE Says(s, n, op)
  <2>1. ASSUME NEW j \in 1..(k + 1), j > 1 PROVE s[j] \notin Reports(n)
    <3>1. PICK m \in 1..k : j = m + 1
      <4>1. j # 1
        BY <2>1
      <4> QED
        BY <1>5, <4>1
    <3> QED
      BY <1>3, <1>11, <3>1 DEF Silent
  <2> QED
    BY <1>3, <1>7, <1>11, <2>1 DEF Says
<1> QED
  BY <1>2, <1>3, <1>8, <1>9, <1>10, <1>11

\* More reports follow: the last one of a node is among them, if they have one.
LEMMA ConcatReport ==
    ASSUME NEW S, NEW s \in Seq(S), NEW t \in Seq(S), NEW n, NEW op \in {"add", "del"}
    PROVE  /\ Silent(s \o t, n) <=> Silent(s, n) /\ Silent(t, n)
           /\ Says(s \o t, n, op) <=> Says(t, n, op) \/ (Silent(t, n) /\ Says(s, n, op))
<1>1. PICK k \in Nat, m \in Nat : k = Len(s) /\ m = Len(t)
  OBVIOUS
<1>2. PICK u : u = s \o t
  OBVIOUS
<1>3. /\ DOMAIN s = 1..k /\ DOMAIN t = 1..m /\ DOMAIN u = 1..(k + m)
      /\ \A i \in 1..k : u[i] = s[i]
      /\ \A i \in 1..m : u[i + k] = t[i]
  BY <1>1, <1>2
<1>4. /\ \A i \in 1..k : i \in 1..(k + m)
      /\ \A i \in 1..m : i + k \in 1..(k + m)
      /\ \A i \in 1..k, j \in 1..m : j + k > i /\ ~(i > j + k)
      /\ \A i, j \in 1..m : j + k > i + k <=> j > i
  OBVIOUS
<1>5. \A j \in 1..(k + m) : j \in 1..k \/ \E i \in 1..m : j = i + k
  <2>1. \A j \in 1..(k + m) : j \notin 1..k => j - k \in 1..m /\ j = (j - k) + k
    OBVIOUS
  <2> QED
    BY <2>1
<1>6. Silent(u, n) <=> Silent(s, n) /\ Silent(t, n)
  BY <1>3, <1>4, <1>5 DEF Silent
<1>7. ASSUME Says(u, n, op) PROVE Says(t, n, op) \/ (Silent(t, n) /\ Says(s, n, op))
  <2>1. PICK j \in 1..(k + m) : u[j] = <<op, n>> /\ \A i \in 1..(k + m) : i > j => u[i] \notin Reports(n)
    BY <1>3, <1>7 DEF Says
  <2>2. CASE j \in 1..k
    BY <1>3, <1>4, <2>1, <2>2 DEF Says, Silent
  <2>3. ASSUME NEW i \in 1..m, j = i + k PROVE Says(t, n, op)
    <3>1. t[i] = <<op, n>>
      BY <1>3, <2>1, <2>3
    <3>2. ASSUME NEW h \in 1..m, h > i PROVE t[h] \notin Reports(n)
      <4>1. h + k \in 1..(k + m) /\ h + k > j
        BY <1>4, <2>3, <3>2
      <4> QED
        BY <1>3, <2>1, <4>1
    <3> QED
      BY <1>3, <3>1, <3>2 DEF Says
  <2> QED
    BY <1>5, <2>2, <2>3
<1>8. ASSUME Says(t, n, op) PROVE Says(u, n, op)
  <2>1. PICK i \in 1..m : t[i] = <<op, n>> /\ \A j \in 1..m : j > i => t[j] \notin Reports(n)
    BY <1>3, <1>8 DEF Says
  <2>2. ASSUME NEW j \in 1..(k + m), j > i + k PROVE u[j] \notin Reports(n)
    <3>1. PICK h \in 1..m : j = h + k
      <4>1. j \notin 1..k
        BY <2>2
      <4> QED
        BY <1>5, <4>1
    <3>2. h > i
      BY <2>2, <3>1
    <3> QED
      BY <1>3, <2>1, <3>1, <3>2
  <2> QED
    BY <1>3, <1>4, <2>1, <2>2 DEF Says
<1>9. ASSUME Silent(t, n), Says(s, n, op) PROVE Says(u, n, op)
  <2>1. PICK i \in 1..k : s[i] = <<op, n>> /\ \A j \in 1..k : j > i => s[j] \notin Reports(n)
    BY <1>3, <1>9 DEF Says
  <2>2. \A j \in 1..(k + m) : j > i => u[j] \notin Reports(n)
    BY <1>3, <1>5, <1>9, <2>1 DEF Silent
  <2> QED
    BY <1>3, <1>4, <2>1, <2>2 DEF Says
<1> QED
  BY <1>2, <1>6, <1>7, <1>8, <1>9

\* A node has one last report at most, and none where there is no report of it.
LEMMA OneReport ==
    ASSUME NEW S, NEW s \in Seq(S), NEW n, NEW op \in {"add", "del"}
    PROVE  /\ Says(s, n, op) => ~Silent(s, n)
           /\ ~(Says(s, n, "add") /\ Says(s, n, "del"))
<1>1. ASSUME Says(s, n, op) PROVE ~Silent(s, n)
  BY <1>1 DEF Says, Silent, Reports
<1>2. ASSUME Says(s, n, "add"), Says(s, n, "del") PROVE FALSE
  <2>1. PICK i \in DOMAIN s : s[i] = <<"add", n>> /\ \A j \in DOMAIN s : j > i => s[j] \notin Reports(n)
    BY <1>2 DEF Says
  <2>2. PICK k \in DOMAIN s : s[k] = <<"del", n>> /\ \A j \in DOMAIN s : j > k => s[j] \notin Reports(n)
    BY <1>2 DEF Says
  <2>3. i # k
    BY <2>1, <2>2
  <2>4. i > k \/ k > i
    <3>1. i \in Nat /\ k \in Nat
      OBVIOUS
    <3> QED
      BY <2>3, <3>1
  <2> QED
    BY <2>1, <2>2, <2>4 DEF Reports
<1> QED
  BY <1>1, <1>2

\* What etcd reports of the nodes ns is a sequence of reports.
LEMMA ListSeq ==
    ASSUME NEW ns, IsFiniteSet(ns), NEW op
    PROVE  Listing({<<op, m>> : m \in ns}) \in Seq({<<op, m>> : m \in ns})
<1> DEFINE R == {<<op, m>> : m \in ns}
<1>1. IsFiniteSet(R)
  <2>1. [m \in ns |-> <<op, m>>] \in Surjection(ns, R)
    BY DEF Surjection
  <2> QED
    BY <2>1, FS_Surjection
<1> HIDE DEF R
<1>2. Listing(R) \in Seq(R)
  BY <1>1, Listed
<1> QED
  BY <1>2 DEF R

\* What etcd reports of the nodes ns: each of them once, and nothing else.
LEMMA ListReport ==
    ASSUME NEW ns, IsFiniteSet(ns), NEW op \in {"add", "del"}, NEW n
    PROVE  /\ Listing({<<op, m>> : m \in ns}) \in Seq({<<op, m>> : m \in ns})
           /\ Silent(Listing({<<op, m>> : m \in ns}), n) <=> n \notin ns
           /\ n \in ns => Says(Listing({<<op, m>> : m \in ns}), n, op)
<1> DEFINE R == {<<op, m>> : m \in ns}
<1>1. IsFiniteSet(R)
  <2>1. [m \in ns |-> <<op, m>>] \in Surjection(ns, R)
    BY DEF Surjection
  <2> QED
    BY <2>1, FS_Surjection
<1>2. PICK t : t = Listing(R)
  OBVIOUS
<1>3. /\ t \in Seq(R) /\ {t[i] : i \in DOMAIN t} = R
      /\ \A i, j \in DOMAIN t : t[i] = t[j] => i = j
  <2> HIDE DEF R
  <2> QED
    BY <1>1, <1>2, Listed
<1>4. \A x \in R : x \in Reports(n) <=> x = <<op, n>>
  BY DEF Reports
<1>5. <<op, n>> \in R <=> n \in ns
  OBVIOUS
<1> HIDE DEF R
<1>6. Silent(t, n) <=> n \notin ns
  BY <1>3, <1>4, <1>5 DEF Silent
<1>7. ASSUME n \in ns PROVE Says(t, n, op)
  <2>1. PICK i \in DOMAIN t : t[i] = <<op, n>>
    BY <1>3, <1>5, <1>7
  <2>2. i \in Nat
    BY <1>3
  <2>3. ASSUME NEW j \in DOMAIN t, j > i PROVE t[j] \notin Reports(n)
    <3>1. j # i
      BY <2>2, <2>3
    <3> QED
      BY <1>3, <1>4, <2>1, <3>1
  <2> QED
    BY <2>1, <2>3 DEF Says
<1> QED
  BY <1>2, <1>3, <1>6, <1>7 DEF R

\* A report reaches the stream while the watch is on: it is the last one of
\* the nodes it names, and the reports of the others stay as they were.
LEMMA ReportStep ==
    ASSUME Types, NEW op \in {"add", "del"}, NEW ns \in SUBSET All, Report(op, ns)
    PROVE  /\ stream' \in Seq({"add", "del"} \X All)
           /\ watch # "on" => stream' = stream
           /\ \A n \in Nodes \cup Others : watch = "on" /\ n \in ns =>
                ~Silent(stream', n) /\ Says(stream', n, op)
           /\ \A n \in Nodes \cup Others : watch # "on" \/ n \notin ns =>
                /\ Silent(stream', n) <=> Silent(stream, n)
                /\ \A o \in {"add", "del"} : Says(stream', n, o) <=> Says(stream, n, o)
<1> DEFINE S == {"add", "del"} \X All
<1> DEFINE R == {<<op, m>> : m \in ns \ {Self}}
<1>1. CASE watch # "on"
  BY <1>1 DEF Report, Types
<1>2. CASE watch = "on"
  <2>1. IsFiniteSet(ns \ {Self})
    BY Numbers, FS_Subset
  <2>2. PICK t : t = Listing(R)
    OBVIOUS
  <2>3. t \in Seq(R) /\ R \subseteq S
    <3>1. R \subseteq S
      OBVIOUS
    <3>2. Listing(R) \in Seq(R)
      BY <2>1, ListSeq, ZenonT(30)
    <3> QED
      BY <2>2, <3>1, <3>2
  <2>4. t \in Seq(S)
    <3> HIDE DEF R, S
    <3> QED
      BY <2>3
  <2>5. stream \in Seq(S) /\ stream' = stream \o t
    BY <1>2, <2>2 DEF Types, Report
  <2> HIDE DEF S, R
  <2>6. stream' \in Seq(S)
    BY <2>4, <2>5
  <2>7. ASSUME NEW n \in Nodes \cup Others, n \in ns
        PROVE  ~Silent(stream', n) /\ Says(stream', n, op)
    <3>1. n \in ns \ {Self}
      BY <2>7, Numbers
    <3>2. Says(t, n, op)
      BY <2>1, <2>2, <3>1, ListReport DEF R
    <3>3. Says(stream \o t, n, op)
      BY <2>4, <2>5, <3>2, ConcatReport
    <3> QED
      BY <2>5, <2>6, <3>3, OneReport
  <2>8. ASSUME NEW n \in Nodes \cup Others, n \notin ns, NEW o \in {"add", "del"}
        PROVE  /\ Silent(stream', n) <=> Silent(stream, n)
               /\ Says(stream', n, o) <=> Says(stream, n, o)
    <3>1. Silent(t, n)
      BY <2>1, <2>2, <2>8, ListReport DEF R
    <3>2. ~Says(t, n, o)
      BY <2>4, <3>1, OneReport
    <3> QED
      BY <2>4, <2>5, <3>1, <3>2, ConcatReport
  <2> QED
    BY <1>2, <2>6, <2>7, <2>8 DEF S
<1> QED
  BY <1>1, <1>2

-----------------------------------------------------------------------------
(* Faults and leases *)

\* An interference of the environment is counted, and within the bound.
LEMMA FaultCount ==
    ASSUME Types, Fault
    PROVE  faults' = faults + 1 /\ faults' \in Nat /\ faults' <= MaxEvents
<1>1. IsFiniteSet(Conns)
  BY RegistrationConstants, FS_Interval DEF Conns
<1>2. Cardinality(Connected) \in Nat
  BY <1>1, FS_Subset, FS_CardinalityType DEF Connected
<1> QED
  BY <1>2, RegistrationConstants DEF Fault, MoreEvents, Types

\* A process without a lease can be granted one that nothing holds: every
\* lease that is still held has cost a fault.
LEMMA FreshLease ==
    ASSUME Types, Granted, lease = 0
    PROVE  Fresh \in Leases /\ Fresh \notin alive /\ Fresh # main.l
<1>1. Held \subseteq Leases /\ lease \notin alive
  BY Numbers DEF Held, Types
<1>2. IsFiniteSet(Held) /\ Cardinality(Held) \in Nat
  BY <1>1, Numbers, FS_Subset, FS_CardinalityType
<1>3. Cardinality(Held) <= faults
  <2>1. Cardinality(Held) <= faults + 0
    BY <1>1 DEF Granted
  <2> QED
    BY <1>2, <2>1 DEF Types
<1>4. Cardinality(Held) # Cardinality(Leases)
  BY <1>2, <1>3, Numbers, RegistrationConstants DEF Types
<1>5. Held # Leases
  BY <1>4
<1>6. PICK l \in Leases : l \notin Held
  BY <1>1, <1>5
<1>7. l \notin alive \cup {main.l}
  BY <1>6, Numbers DEF Held
<1> QED
  BY <1>7 DEF Fresh

-----------------------------------------------------------------------------
(* Every step keeps the types *)

\* Every handler of the RouterAgent and the registry, and etcd, keep the types.
LEMMA TypesStep ==
    ASSUME Types, Starting, Granted, Next
    PROVE  Types'
<1> USE Numbers
<1>1. ASSUME Fault PROVE faults' \in Nat /\ faults' <= MaxEvents
  BY <1>1, FaultCount
<1>2. ASSUME NEW op \in {"add", "del"}, NEW ns \in SUBSET All, Report(op, ns)
      PROVE  stream' \in Seq({"add", "del"} \X All)
  BY <1>2, ReportStep
<1>3. ASSUME NEW n \in All, NEW l \in {ForeignLease} \cup alive, PutKey(n, l)
      PROVE  /\ stream' \in Seq({"add", "del"} \X All) /\ alive' \subseteq Leases
             /\ keys' \in [All -> {0, ForeignLease} \cup alive']
  <2>1. stream' \in Seq({"add", "del"} \X All)
    BY <1>2, <1>3 DEF PutKey
  <2> QED
    BY <1>3, <2>1 DEF PutKey, Types
<1>4. ASSUME NEW n \in All, DeleteKey(n)
      PROVE  /\ stream' \in Seq({"add", "del"} \X All) /\ alive' \subseteq Leases
             /\ keys' \in [All -> {0, ForeignLease} \cup alive']
  <2>1. {n} \cap {m \in All : keys[m] # 0} \in SUBSET All
    OBVIOUS
  <2>2. stream' \in Seq({"add", "del"} \X All)
    BY <1>2, <1>4, <2>1 DEF DeleteKey
  <2> QED
    BY <1>4, <2>2 DEF DeleteKey, Types
<1>5. ASSUME NEW e \in Tasks, ~Full, queue' = Append(queue, e)
      PROVE  queue' \in Seq(Tasks) /\ Len(queue') <= QueueCap
  BY <1>5, RegistrationConstants DEF Types, Full
<1>6. Nodes \subseteq All /\ Others \subseteq All /\ Self \in All
  BY DEF All
<1>11. CASE RegisterSelf
  <2>1. /\ lease' \in {0} \cup Leases /\ alive' \subseteq Leases
        /\ keys' \in [All -> {0, ForeignLease} \cup alive']
    <3>1. \/ lease' = 1 /\ alive' = alive \cup {1} /\ keys' = [keys EXCEPT ![Self] = 1]
          \/ UNCHANGED <<lease, alive, keys>>
      BY <1>11 DEF RegisterSelf
    <3>2. CASE UNCHANGED <<lease, alive, keys>>
      BY <3>2 DEF Types
    <3>3. CASE lease' = 1 /\ alive' = alive \cup {1} /\ keys' = [keys EXCEPT ![Self] = 1]
      BY <1>6, <3>3 DEF Types
    <3> QED
      BY <3>1, <3>2, <3>3
  <2>2. registered' \subseteq Nodes \cup {Self} /\ phase' \in {"get", "failed"}
    BY <1>11 DEF RegisterSelf, Types
  <2>3. faults' \in Nat /\ faults' <= MaxEvents
    BY <1>1, <1>11 DEF RegisterSelf, Types
  <2> QED
    BY <1>11, <2>1, <2>2, <2>3 DEF RegisterSelf, Types, conns, tables
<1>12. CASE DiscoverGet
  BY <1>1, <1>12 DEF DiscoverGet, Types, conns, tables, registry, etcd
<1>13. CASE DiscoverPost
  <2>1. ASSUME NEW n \in initial, ~Full, queue' = Append(queue, <<"add", n>>)
        PROVE  queue' \in Seq(Tasks) /\ Len(queue') <= QueueCap
    <3>1. <<"add", n>> \in Tasks
      BY <2>1 DEF Tasks, Types
    <3> QED
      BY <1>5, <2>1, <3>1
  <2>2. queue' \in Seq(Tasks) /\ Len(queue') <= QueueCap
    BY <1>13, <2>1 DEF DiscoverPost, Types
  <2>3. phase' \in {"post", "loop"} /\ initial' \subseteq All
    BY <1>13 DEF DiscoverPost, Types
  <2> QED
    BY <1>13, <2>2, <2>3 DEF DiscoverPost, Types, conns, tables, registry, etcd
<1>14. CASE StartWatch
  BY <1>14 DEF StartWatch, Types, conns, tables, registry
<1>15. CASE WatchPost
  <2>1. Head(stream) \in {"add", "del"} \X All /\ Tail(stream) \in Seq({"add", "del"} \X All)
    BY <1>15 DEF WatchPost, Types
  <2>2. queue' \in Seq(Tasks) /\ Len(queue') <= QueueCap
    BY <1>5, <1>15, <2>1 DEF WatchPost, Tasks
  <2> QED
    BY <1>15, <2>1, <2>2 DEF WatchPost, Types, conns, tables, registry
<1>16. ASSUME NEW c \in Conns, NEW n \in Nodes, Connect(c, n) PROVE Types'
  BY <1>16 DEF Connect, Types, tables, registry, etcd
<1>17. ASSUME NEW c \in Conns, PostFrame(c) PROVE Types'
  <2>1. queue' \in Seq(Tasks) /\ Len(queue') <= QueueCap
    BY <1>5, <1>17 DEF PostFrame, Tasks
  <2> QED
    BY <1>17, <2>1 DEF PostFrame, Types, tables, registry, etcd
<1>18. ASSUME NEW c \in Conns, Hangup(c) PROVE Types'
  BY <1>18 DEF Hangup, Types, tables, registry, etcd
<1>19. ASSUME NEW c \in Conns, RemoveLocal(c) PROVE Types'
  <2>1. st' \in [Conns -> {"new", "open", "posted", "closed", "table", "forget", "delete", "ended"}]
    BY <1>19, Steps DEF RemoveLocal, Types
  <2>2. localConns' \in [Nodes -> Conns \cup {NoConn}]
    BY <1>19 DEF RemoveLocal, Types
  <2> QED
    BY <1>19, <2>1, <2>2 DEF RemoveLocal, Types, registry, etcd
<1>20. ASSUME NEW c \in Conns, RemoveMember(c) PROVE Types'
  BY <1>20, Steps DEF RemoveMember, Delete, Types, registry, etcd
<1>21. ASSUME NEW c \in Conns, ForgetNode(c) PROVE Types'
  BY <1>21, Steps DEF ForgetNode, Forget, Types, tables, etcd
<1>22. ASSUME NEW c \in Conns, DeleteNode(c) PROVE Types'
  <2>1. owner[c] \in All
    BY <1>6, <1>22 DEF Types
  <2>2. /\ stream' \in Seq({"add", "del"} \X All) /\ alive' \subseteq Leases
        /\ keys' \in [All -> {0, ForeignLease} \cup alive']
        /\ faults' \in Nat /\ faults' <= MaxEvents
    BY <1>1, <1>4, <1>22, <2>1 DEF DeleteNode, Types, etcd
  <2>3. st' \in [Conns -> {"new", "open", "posted", "closed", "table", "forget", "delete", "ended"}]
    BY <1>22, Steps DEF DeleteNode, Types
  <2> QED
    BY <1>22, <2>2, <2>3 DEF DeleteNode, Types, tables, registry
<1>23. CASE TakeTask
  <2>1. Head(queue) \in Tasks /\ queue' \in Seq(Tasks) /\ Len(queue') <= QueueCap
    BY <1>23, RegistrationConstants DEF TakeTask, Types
  <2>2. PICK op, x : /\ Head(queue) = <<op, x>>
                     /\ \/ op \in {"add", "del"} /\ x \in All
                        \/ op = "shake" /\ x \in Conns
    BY <2>1 DEF Tasks
  <2>3. /\ members' = CASE op = "add" -> Upsert(x) [] op = "del" -> Delete(x) [] op = "shake" -> members
        /\ main' = IF op = "shake" THEN [at |-> "ensure", c |-> x, l |-> 0] ELSE Idle
    BY <1>23, <2>2 DEF TakeTask
  <2>4. members' \subseteq All
    BY <2>2, <2>3 DEF Upsert, Delete, Types
  <2>5. main' \in [at : {"idle", "ensure", "put", "remember", "enter"}, c : Conns \cup {NoConn}, l : {0} \cup Leases]
          /\ IF main'.at = "idle" THEN main' = Idle ELSE main'.c \in Conns
    BY <2>2, <2>3 DEF Idle
  <2> QED
    BY <1>23, <2>1, <2>4, <2>5 DEF TakeTask, Types, conns, registry, etcd
<1>24. CASE EnsureLease
  <2>1. lease = 0 => Fresh \in Leases
    BY FreshLease
  <2>2. Refuse => main' = Idle
    BY DEF Refuse
  <2>3. main' \in [at : {"idle", "ensure", "put", "remember", "enter"}, c : Conns \cup {NoConn}, l : {0} \cup Leases]
          /\ IF main'.at = "idle" THEN main' = Idle ELSE main'.c \in Conns
    <3>1. \/ main' = Idle
          \/ \E l \in Leases : main' = [main EXCEPT !.at = "put", !.l = l]
      BY <1>24, <2>1, <2>2 DEF EnsureLease, Types
    <3>2. main.at = "ensure"
      BY <1>24 DEF EnsureLease
    <3>3. /\ main \in [at : {"idle", "ensure", "put", "remember", "enter"}, c : Conns \cup {NoConn}, l : {0} \cup Leases]
          /\ main.c \in Conns
      BY <3>2 DEF Types
    <3>4. CASE main' = Idle
      BY <3>4 DEF Idle
    <3>5. ASSUME NEW l \in Leases, main' = [main EXCEPT !.at = "put", !.l = l]
          PROVE  /\ main' \in [at : {"idle", "ensure", "put", "remember", "enter"}, c : Conns \cup {NoConn}, l : {0} \cup Leases]
                 /\ main'.at # "idle" /\ main'.c \in Conns
      BY <3>3, <3>5
    <3> QED
      BY <3>1, <3>4, <3>5
  <2>4. lease' \in {0} \cup Leases /\ alive' \subseteq Leases /\ alive \subseteq alive'
    BY <1>24, <2>1 DEF EnsureLease, Types
  <2>5. faults' \in Nat /\ faults' <= MaxEvents
    BY <1>1, <1>24 DEF EnsureLease, Types
  <2> QED
    BY <1>24, <2>3, <2>4, <2>5 DEF EnsureLease, Types, tables
<1>25. CASE PutNode
  <2>1. owner[main.c] \in All
    BY <1>6, <1>25 DEF Types, PutNode
  <2>2. main.at = "put" /\ main' \in {Idle, [main EXCEPT !.at = "remember"]}
    BY <1>25 DEF PutNode, Refuse
  <2>3. main' \in [at : {"idle", "ensure", "put", "remember", "enter"}, c : Conns \cup {NoConn}, l : {0} \cup Leases]
          /\ IF main'.at = "idle" THEN main' = Idle ELSE main'.c \in Conns
    BY <2>2 DEF Types, Idle
  <2>4. faults' \in Nat /\ faults' <= MaxEvents
    BY <1>1, <1>25 DEF PutNode, Types
  <2>5. \/ PutKey(owner[main.c], main.l) /\ main.l \in alive
        \/ UNCHANGED etcd
    BY <1>25 DEF PutNode
  <2>6. /\ stream' \in Seq({"add", "del"} \X All) /\ alive' \subseteq Leases
        /\ keys' \in [All -> {0, ForeignLease} \cup alive']
    BY <1>3, <2>1, <2>5 DEF Types, etcd
  <2> QED
    BY <1>25, <2>3, <2>4, <2>6 DEF PutNode, Types, tables, registry
<1>26. CASE RememberNode
  <2>1. owner[main.c] \in Nodes \cup {Self} /\ registered' = registered \cup {owner[main.c]}
    BY <1>26 DEF RememberNode, Types
  <2> QED
    BY <1>26, <2>1 DEF RememberNode, Types, conns, tables, etcd
<1>27. CASE FinishHandshake
  <2>1. /\ owner[main.c] \in All /\ main.c \in Conns /\ members' = members \cup {owner[main.c]}
        /\ localConns' = [localConns EXCEPT ![owner[main.c]] = main.c] /\ main' = Idle
    BY <1>6, <1>27 DEF FinishHandshake, Upsert, Types
  <2>2. members' \subseteq All /\ localConns' \in [Nodes -> Conns \cup {NoConn}]
    BY <2>1 DEF Types
  <2> QED
    BY <1>27, <2>1, <2>2 DEF FinishHandshake, Types, Idle, registry, etcd
<1>28. CASE KeepaliveFails
  BY <1>1, <1>28 DEF KeepaliveFails, Types, conns, tables, etcd
<1>29. CASE RecoverLease
  <2>1. lease = 0 => Fresh \in Leases
    BY FreshLease
  <2>2. lease' \in {0} \cup Leases /\ alive' \subseteq Leases /\ alive \subseteq alive'
    BY <1>29, <2>1, ZenonT(30) DEF RecoverLease, Types
  <2>3. ka' \in [at : {"tick", "recover", "put"}, todo : SUBSET (Nodes \cup {Self}), l : {0} \cup Leases]
    BY <1>29, <2>1 DEF RecoverLease, Types, Resting, ToRecover
  <2>4. faults' \in Nat /\ faults' <= MaxEvents
    BY <1>1, <1>29 DEF RecoverLease, Types
  <2> QED
    BY <1>29, <2>2, <2>3, <2>4 DEF RecoverLease, Types, conns, tables
<1>30. CASE RecoverPut
  <2>1. \/ ka' = Resting /\ UNCHANGED etcd
        \/ \E n \in ka.todo : ka.l \in alive /\ PutKey(n, ka.l) /\ ka' = [ka EXCEPT !.todo = @ \ {n}]
    BY <1>30 DEF RecoverPut
  <2>2. /\ stream' \in Seq({"add", "del"} \X All) /\ alive' \subseteq Leases
        /\ keys' \in [All -> {0, ForeignLease} \cup alive']
    <3>1. CASE UNCHANGED etcd
      BY <3>1 DEF etcd, Types
    <3>2. ASSUME NEW n \in ka.todo, ka.l \in alive, PutKey(n, ka.l)
          PROVE  /\ stream' \in Seq({"add", "del"} \X All) /\ alive' \subseteq Leases
                 /\ keys' \in [All -> {0, ForeignLease} \cup alive']
      <4>1. n \in All
        BY <1>6 DEF Types
      <4> QED
        BY <1>3, <3>2, <4>1
    <3> QED
      BY <2>1, <3>1, <3>2
  <2>3. ka' \in [at : {"tick", "recover", "put"}, todo : SUBSET (Nodes \cup {Self}), l : {0} \cup Leases]
    BY <2>1 DEF Types, Resting
  <2>4. lease' \in {0} \cup Leases /\ faults' \in Nat /\ faults' <= MaxEvents
    BY <1>1, <1>30, ZenonT(30) DEF RecoverPut, Types
  <2> QED
    BY <1>30, <2>2, <2>3, <2>4 DEF RecoverPut, Types, conns, tables
<1>31. ASSUME NEW l \in Leases, Expire(l) PROVE Types'
  <2>1. {n \in All : keys[n] = l} \in SUBSET All
    OBVIOUS
  <2>2. stream' \in Seq({"add", "del"} \X All)
    BY <1>2, <1>31, <2>1 DEF Expire
  <2>3. alive' \subseteq Leases /\ keys' \in [All -> {0, ForeignLease} \cup alive']
    BY <1>31 DEF Expire, Types
  <2>4. faults' \in Nat /\ faults' <= MaxEvents
    BY <1>1, <1>31 DEF Expire, Types
  <2> QED
    BY <1>31, <2>2, <2>3, <2>4 DEF Expire, Types, conns, tables, registry
<1>32. ASSUME NEW n \in Others, OtherChange(n) PROVE Types'
  <2>1. /\ stream' \in Seq({"add", "del"} \X All) /\ alive' \subseteq Leases
        /\ keys' \in [All -> {0, ForeignLease} \cup alive']
    BY <1>3, <1>4, <1>6, <1>32 DEF OtherChange
  <2>2. faults' \in Nat /\ faults' <= MaxEvents
    BY <1>1, <1>32 DEF OtherChange
  <2> QED
    BY <1>32, <2>1, <2>2 DEF OtherChange, Types, conns, tables, registry
<1>33. CASE CloseWatch
  BY <1>1, <1>33 DEF CloseWatch, Types, conns, tables, registry
<1> QED
  BY <1>11, <1>12, <1>13, <1>14, <1>15, <1>16, <1>17, <1>18, <1>19, <1>20, <1>21, <1>22, <1>23,
     <1>24, <1>25, <1>26, <1>27, <1>28, <1>29, <1>30, <1>31, <1>32, <1>33
  DEF Next, Start, MainLoop, Removal

-----------------------------------------------------------------------------
(* The start of the process *)

\* Before the main loop runs nothing changes but what the start itself does
\* and what connections post; the RouterAgent stays among its registered nodes.
LEMMA StartingStep ==
    ASSUME Types, Starting, Joined, Next
    PROVE  Starting'
<1>1. ASSUME NEW op, NEW ns, Report(op, ns), watch' = watch PROVE watch' # "on" => stream' = <<>>
  BY <1>1 DEF Report, Starting
<1>2. ASSUME NEW n, NEW l, PutKey(n, l)
      PROVE  watch' = watch /\ alive' = alive /\ (watch' # "on" => stream' = <<>>)
  BY <1>1, <1>2 DEF PutKey
<1>3. ASSUME NEW n, DeleteKey(n)
      PROVE  watch' = watch /\ alive' = alive /\ (watch' # "on" => stream' = <<>>)
  BY <1>1, <1>3 DEF DeleteKey
<1>4. phase # "loop" => main.at = "idle"
  BY DEF Starting, Idle
<1>11. CASE RegisterSelf
  BY <1>11 DEF RegisterSelf, Starting, tables
<1>12. CASE DiscoverGet
  BY <1>12 DEF DiscoverGet, Starting, tables, registry, etcd
<1>13. CASE DiscoverPost
  BY <1>13 DEF DiscoverPost, Starting, tables, registry, etcd
<1>14. CASE StartWatch
  BY <1>14 DEF StartWatch, Starting, tables, registry
<1>15. CASE WatchPost
  BY <1>15 DEF WatchPost, Starting, tables, registry
<1>16. ASSUME NEW c \in Conns, NEW n \in Nodes, Connect(c, n) PROVE Starting'
  BY <1>16 DEF Connect, Starting, tables, registry, etcd
<1>17. ASSUME NEW c \in Conns, PostFrame(c) PROVE Starting'
  BY <1>17 DEF PostFrame, Starting, tables, registry, etcd
<1>18. ASSUME NEW c \in Conns, Hangup(c) PROVE Starting'
  BY <1>18 DEF Hangup, Starting, tables, registry, etcd
<1>19. ASSUME NEW c \in Conns, RemoveLocal(c) PROVE Starting'
  <2>1. \A n \in Nodes : localConns'[n] \in {localConns[n], NoConn}
    BY <1>19 DEF RemoveLocal, Types
  <2> QED
    BY <1>19, <2>1 DEF RemoveLocal, Starting, registry, etcd
<1>20. ASSUME NEW c \in Conns, RemoveMember(c) PROVE Starting'
  BY <1>20 DEF RemoveMember, Delete, Starting, registry, etcd
<1>21. ASSUME NEW c \in Conns, ForgetNode(c) PROVE Starting'
  <2>1. owner[c] # Self
    BY <1>21, Numbers DEF ForgetNode, Joined, Connected
  <2> QED
    BY <1>21, <2>1 DEF ForgetNode, Forget, Starting, tables, etcd
<1>22. ASSUME NEW c \in Conns, DeleteNode(c) PROVE Starting'
  <2>1. watch' = watch /\ alive' = alive /\ (watch' # "on" => stream' = <<>>)
    BY <1>3, <1>22 DEF DeleteNode, Starting, etcd
  <2> QED
    BY <1>22, <2>1 DEF DeleteNode, Starting, tables, registry
<1>23. CASE TakeTask
  BY <1>23 DEF TakeTask, Starting, conns, registry, etcd
<1>24. CASE EnsureLease
  <2>1. phase = "loop"
    BY <1>4, <1>24 DEF EnsureLease
  <2> QED
    BY <1>24, <2>1 DEF EnsureLease, Starting
<1>25. CASE PutNode
  <2>1. phase = "loop"
    BY <1>4, <1>25 DEF PutNode
  <2>2. watch' = watch /\ (watch' # "on" => stream' = <<>>)
    BY <1>2, <1>25 DEF PutNode, Starting, etcd
  <2> QED
    BY <1>25, <2>1, <2>2 DEF PutNode, Starting, registry
<1>26. CASE RememberNode
  <2>1. phase = "loop"
    BY <1>4, <1>26 DEF RememberNode
  <2> QED
    BY <1>26, <2>1 DEF RememberNode, Starting, etcd
<1>27. CASE FinishHandshake
  <2>1. phase = "loop"
    BY <1>4, <1>27 DEF FinishHandshake
  <2> QED
    BY <1>27, <2>1 DEF FinishHandshake, Starting, registry, etcd
<1>28. CASE KeepaliveFails
  BY <1>28 DEF KeepaliveFails, Starting, tables, etcd
<1>29. CASE RecoverLease
  <2>1. phase # "register"
    BY <1>29 DEF RecoverLease, Starting, Resting
  <2> QED
    BY <1>29, <2>1 DEF RecoverLease, Starting, tables
<1>30. CASE RecoverPut
  <2>1. phase # "register"
    BY <1>30 DEF RecoverPut, Starting, Resting
  <2>2. watch' = watch /\ (watch' # "on" => stream' = <<>>)
    BY <1>2, <1>30 DEF RecoverPut, Starting, etcd
  <2> QED
    BY <1>30, <2>1, <2>2 DEF RecoverPut, Starting, tables
<1>31. ASSUME NEW l \in Leases, Expire(l) PROVE Starting'
  <2>1. watch' # "on" => stream' = <<>>
    BY <1>1, <1>31 DEF Expire
  <2> QED
    BY <1>31, <2>1 DEF Expire, Starting, tables, registry
<1>32. ASSUME NEW n \in Others, OtherChange(n) PROVE Starting'
  <2>1. watch' = watch /\ alive' = alive /\ (watch' # "on" => stream' = <<>>)
    BY <1>2, <1>3, <1>32 DEF OtherChange
  <2> QED
    BY <1>32, <2>1 DEF OtherChange, Starting, tables, registry
<1>33. CASE CloseWatch
  BY <1>33 DEF CloseWatch, Starting, tables, registry
<1> QED
  BY <1>11, <1>12, <1>13, <1>14, <1>15, <1>16, <1>17, <1>18, <1>19, <1>20, <1>21, <1>22, <1>23,
     <1>24, <1>25, <1>26, <1>27, <1>28, <1>29, <1>30, <1>31, <1>32, <1>33
  DEF Next, Start, MainLoop, Removal

-----------------------------------------------------------------------------
(* Leases *)

\* No lease is taken up, and one that the process loses costs a fault.
LEMMA HeldKept ==
    ASSUME Types, Types', Granted, Held' \subseteq Held, faults' >= faults,
           lease \in alive /\ lease' \notin alive' => faults' = faults + 1
    PROVE  Cardinality(Held') <= faults' + (IF lease' \in alive' THEN 1 ELSE 0)
<1>1. Held \subseteq Leases
  <2>1. main.l \in {0} \cup Leases /\ lease \in {0} \cup Leases /\ alive \subseteq Leases
    BY DEF Types
  <2> QED
    BY <2>1 DEF Held
<1>2. IsFiniteSet(Held)
  BY <1>1, Numbers, FS_Subset
<1>3. Cardinality(Held) \in Nat /\ Cardinality(Held') \in Nat /\ Cardinality(Held') <= Cardinality(Held)
  <2>1. PICK H : H = Held'
    OBVIOUS
  <2>2. H \subseteq Held
    BY <2>1
  <2>3. IsFiniteSet(H) /\ Cardinality(H) <= Cardinality(Held)
    BY <1>2, <2>2, FS_Subset
  <2> QED
    BY <1>2, <2>1, <2>3, FS_CardinalityType
<1>4. Cardinality(Held) <= faults + (IF lease \in alive THEN 1 ELSE 0)
  BY DEF Granted
<1>5. faults \in Nat /\ faults' \in Nat
  BY DEF Types
<1> QED
  BY <1>3, <1>4, <1>5

\* A process without a lease is granted one.
LEMMA HeldGrows ==
    ASSUME Types, Granted, lease = 0, NEW l \in Leases, lease' = l, l \in alive',
           Held' \subseteq Held \cup {l}, faults' = faults
    PROVE  Cardinality(Held') <= faults' + (IF lease' \in alive' THEN 1 ELSE 0)
<1>1. Held \subseteq Leases /\ lease \notin alive
  BY Numbers DEF Held, Types
<1>2. IsFiniteSet(Held) /\ Cardinality(Held) \in Nat
  BY <1>1, Numbers, FS_Subset, FS_CardinalityType
<1>3. /\ IsFiniteSet(Held \cup {l})
      /\ Cardinality(Held \cup {l}) = Cardinality(Held) \/ Cardinality(Held \cup {l}) = Cardinality(Held) + 1
  BY <1>2, FS_AddElement
<1>4. Cardinality(Held') \in Nat /\ Cardinality(Held') <= Cardinality(Held \cup {l})
  BY <1>3, FS_Subset, FS_CardinalityType
<1>5. Cardinality(Held) <= faults + 0
  BY <1>1 DEF Granted
<1>6. lease' \in alive' /\ faults \in Nat
  BY DEF Types
<1>7. Cardinality(Held') <= faults + 1
  BY <1>2, <1>3, <1>4, <1>5, <1>6
<1> QED
  BY <1>6, <1>7

\* A lease is renewed, recovered and used only while the process holds it.
LEMMA GrantedStep ==
    ASSUME Types, Types', Starting, Granted, Next
    PROVE  Granted'
<1> DEFINE Bounded == Cardinality(Held) <= faults + (IF lease \in alive THEN 1 ELSE 0)
<1> USE Numbers
<1>1. ASSUME UNCHANGED <<ka, lease, main, alive>>, faults' = faults \/ Fault PROVE Granted'
  <2>1. faults' >= faults /\ faults \in Nat
    BY <1>1, FaultCount DEF Types
  <2>2. Held' \subseteq Held
    BY <1>1 DEF Held
  <2>3. Bounded'
    BY <1>1, <2>1, <2>2, HeldKept
  <2> QED
    BY <1>1, <2>3 DEF Granted
<1>2. faults \in Nat /\ faults >= faults
  BY DEF Types
<1>11. CASE RegisterSelf
  <2>1. CASE UNCHANGED <<lease, alive>>
    BY <1>1, <1>11, <2>1 DEF RegisterSelf
  <2>2. CASE lease' = 1 /\ alive' = alive \cup {1} /\ faults' = faults
    <3>1. lease = 0 /\ ka = Resting /\ main = Idle /\ UNCHANGED <<ka, main>>
      BY <1>11 DEF RegisterSelf, Starting
    <3>2. Held' \subseteq Held \cup {1}
      BY <2>2, <3>1 DEF Held
    <3>3. Bounded'
      BY <2>2, <3>1, <3>2, HeldGrows
    <3> QED
      BY <3>1, <3>3 DEF Granted, Resting, Idle
  <2> QED
    BY <1>11, <2>1, <2>2 DEF RegisterSelf
<1>12. CASE DiscoverGet
  BY <1>1, <1>12 DEF DiscoverGet, registry, etcd
<1>13. CASE DiscoverPost
  BY <1>1, <1>13 DEF DiscoverPost, registry, etcd
<1>14. CASE StartWatch
  BY <1>1, <1>14 DEF StartWatch, registry
<1>15. CASE WatchPost
  BY <1>1, <1>15 DEF WatchPost, registry
<1>16. ASSUME NEW c \in Conns, NEW n \in Nodes, Connect(c, n) PROVE Granted'
  BY <1>1, <1>16 DEF Connect, registry, etcd
<1>17. ASSUME NEW c \in Conns, PostFrame(c) PROVE Granted'
  BY <1>1, <1>17 DEF PostFrame, registry, etcd
<1>18. ASSUME NEW c \in Conns, Hangup(c) PROVE Granted'
  BY <1>1, <1>18 DEF Hangup, registry, etcd
<1>19. ASSUME NEW c \in Conns, RemoveLocal(c) PROVE Granted'
  BY <1>1, <1>19 DEF RemoveLocal, registry, etcd
<1>20. ASSUME NEW c \in Conns, RemoveMember(c) PROVE Granted'
  BY <1>1, <1>20 DEF RemoveMember, registry, etcd
<1>21. ASSUME NEW c \in Conns, ForgetNode(c) PROVE Granted'
  BY <1>1, <1>21 DEF ForgetNode, etcd
<1>22. ASSUME NEW c \in Conns, DeleteNode(c) PROVE Granted'
  BY <1>1, <1>22 DEF DeleteNode, DeleteKey, registry, etcd
<1>23. CASE TakeTask
  <2>1. UNCHANGED <<ka, lease, alive, faults>> /\ main = Idle /\ main'.l = 0 /\ main'.at \in {"ensure", "idle"}
    BY <1>23 DEF TakeTask, Types, Idle, registry, etcd
  <2>2. Held' \subseteq Held
    BY <2>1 DEF Held
  <2>3. Bounded'
    BY <1>2, <2>1, <2>2, HeldKept
  <2> QED
    BY <2>1, <2>3 DEF Granted
<1>24. CASE EnsureLease
  <2>1. UNCHANGED ka /\ main \in [at : {"idle", "ensure", "put", "remember", "enter"}, c : Conns \cup {NoConn}, l : {0} \cup Leases]
    BY <1>24 DEF EnsureLease, Types
  <2>2. CASE lease # 0
    <3>1. UNCHANGED <<lease, alive, faults>> /\ main'.l = lease
      BY <1>24, <2>1, <2>2 DEF EnsureLease
    <3>2. Held' \subseteq Held
      BY <3>1 DEF Held
    <3>3. Bounded'
      BY <1>2, <3>1, <3>2, HeldKept
    <3> QED
      BY <2>1, <2>2, <3>1, <3>3 DEF Granted
  <2>3. CASE lease = 0 /\ lease' = Fresh /\ alive' = alive \cup {Fresh} /\ faults' = faults
                /\ main' = [main EXCEPT !.at = "put", !.l = Fresh]
    <3>1. PICK l \in Leases : l = Fresh
      BY <2>3, FreshLease
    <3>2. lease' = l /\ l \in alive' /\ main'.l = l
      BY <2>1, <2>3, <3>1
    <3>3. Held' \subseteq Held \cup {l}
      BY <2>3, <3>1, <3>2 DEF Held
    <3>4. Bounded'
      BY <2>3, <3>2, <3>3, HeldGrows
    <3> QED
      BY <2>1, <2>3, <3>2, <3>4 DEF Granted
  <2>4. CASE UNCHANGED <<lease, alive>> /\ Fault /\ main' = Idle
    <3>1. faults' >= faults
      BY <2>4, FaultCount DEF Types
    <3>2. Held' \subseteq Held
      BY <2>4 DEF Held, Idle
    <3>3. Bounded'
      BY <2>4, <3>1, <3>2, HeldKept
    <3> QED
      BY <2>1, <2>4, <3>3 DEF Granted, Idle
  <2> QED
    BY <1>24, <2>2, <2>3, <2>4 DEF EnsureLease, Refuse
<1>25. CASE PutNode
  <2>1. /\ UNCHANGED <<ka, lease, alive>> /\ (faults' = faults \/ Fault) /\ main.at = "put"
        /\ main' \in {Idle, [main EXCEPT !.at = "remember"]}
    BY <1>25 DEF PutNode, PutKey, Refuse, registry, etcd
  <2>2. faults' >= faults
    BY <1>2, <2>1, FaultCount
  <2>3. main' = Idle \/ main'.l = main.l
    BY <2>1 DEF Types
  <2>4. Held' \subseteq Held
    BY <2>1, <2>3 DEF Held, Idle
  <2>5. Bounded'
    BY <2>1, <2>2, <2>4, HeldKept
  <2> QED
    BY <2>1, <2>3, <2>5 DEF Granted, Idle
<1>26. CASE RememberNode
  <2>1. UNCHANGED <<ka, lease, alive, faults>> /\ main.at = "remember" /\ main'.l = main.l
    BY <1>26 DEF RememberNode, Types, etcd
  <2>2. Held' \subseteq Held
    BY <2>1 DEF Held
  <2>3. Bounded'
    BY <1>2, <2>1, <2>2, HeldKept
  <2> QED
    BY <2>1, <2>3 DEF Granted
<1>27. CASE FinishHandshake
  <2>1. UNCHANGED <<ka, lease, alive, faults>> /\ main' = Idle
    BY <1>27 DEF FinishHandshake, registry, etcd
  <2>2. Held' \subseteq Held
    BY <2>1 DEF Held, Idle
  <2>3. Bounded'
    BY <1>2, <2>1, <2>2, HeldKept
  <2> QED
    BY <2>1, <2>3 DEF Granted, Idle
<1>28. CASE KeepaliveFails
  <2>1. UNCHANGED <<main, alive>> /\ lease' = 0 /\ ka'.at # "put" /\ (lease \in alive => Fault)
          /\ (lease \notin alive => faults' = faults)
    BY <1>28 DEF KeepaliveFails, Types, etcd
  <2>2. faults' >= faults /\ (lease \in alive => faults' = faults + 1)
    BY <1>2, <2>1, FaultCount
  <2>3. Held' \subseteq Held
    BY <2>1 DEF Held
  <2>4. Bounded'
    BY <2>1, <2>2, <2>3, HeldKept
  <2> QED
    BY <2>1, <2>4 DEF Granted
<1>29. CASE RecoverLease
  <2>1. CASE UNCHANGED <<lease, alive, main>> /\ ka' = Resting /\ (faults' = faults \/ Fault)
    <3>1. faults' >= faults
      BY <1>2, <2>1, FaultCount
    <3>2. Held' \subseteq Held
      BY <2>1 DEF Held
    <3>3. Bounded'
      BY <2>1, <3>1, <3>2, HeldKept
    <3> QED
      BY <2>1, <3>3 DEF Granted, Resting
  <2>2. CASE lease = 0 /\ lease' = Fresh /\ alive' = alive \cup {Fresh} /\ UNCHANGED <<main, faults>>
                /\ ka' = [at |-> "put", todo |-> ToRecover, l |-> Fresh]
    <3>1. PICK l \in Leases : l = Fresh
      BY <2>2, FreshLease
    <3>2. lease' = l /\ l \in alive' /\ ka'.l = l
      BY <2>2, <3>1
    <3>3. Held' \subseteq Held \cup {l}
      BY <2>2, <3>1 DEF Held
    <3>4. Bounded'
      BY <2>2, <3>2, <3>3, HeldGrows
    <3> QED
      BY <2>2, <3>2, <3>4 DEF Granted
  <2> QED
    BY <1>29, <2>1, <2>2 DEF RecoverLease
<1>30. CASE RecoverPut
  <2>1. ka.l = lease /\ UNCHANGED <<main, alive>>
    BY <1>30 DEF RecoverPut, PutKey, Granted, etcd
  <2>2. CASE lease' = lease /\ faults' = faults /\ (ka'.at = "put" => ka'.l = ka.l)
    <3>1. Held' \subseteq Held
      BY <2>1, <2>2 DEF Held
    <3>2. Bounded'
      BY <1>2, <2>1, <2>2, <3>1, HeldKept
    <3> QED
      BY <1>30, <2>1, <2>2, <3>2 DEF Granted, RecoverPut
  <2>3. CASE lease' = 0 /\ ka' = Resting /\ IF ka.l \in alive THEN Fault ELSE UNCHANGED faults
    <3>1. faults' >= faults /\ (lease \in alive => faults' = faults + 1)
      BY <1>2, <2>1, <2>3, FaultCount
    <3>2. Held' \subseteq Held
      BY <2>1, <2>3 DEF Held
    <3>3. Bounded'
      BY <2>1, <2>3, <3>1, <3>2, HeldKept
    <3> QED
      BY <2>1, <2>3, <3>3 DEF Granted, Resting
  <2>4. \A n : ka' = [ka EXCEPT !.todo = @ \ {n}] => ka'.l = ka.l
    BY DEF Types
  <2>5. \/ /\ lease' = lease /\ faults' = faults
           /\ ka' = Resting \/ \E n : ka' = [ka EXCEPT !.todo = @ \ {n}]
        \/ lease' = 0 /\ ka' = Resting /\ IF ka.l \in alive THEN Fault ELSE UNCHANGED faults
    BY <1>30 DEF RecoverPut
  <2>6. Resting.at # "put"
    BY DEF Resting
  <2> QED
    BY <2>2, <2>3, <2>4, <2>5, <2>6
<1>31. ASSUME NEW l \in Leases, Expire(l) PROVE Granted'
  <2>1. UNCHANGED <<ka, lease, main>> /\ alive' = alive \ {l} /\ IF l = lease THEN Fault ELSE UNCHANGED faults
    BY <1>31 DEF Expire, registry
  <2>2. faults' >= faults /\ (l = lease => faults' = faults + 1)
    BY <1>2, <2>1, FaultCount
  <2>3. Held' \subseteq Held
    BY <2>1 DEF Held
  <2>4. lease \in alive /\ lease' \notin alive' => l = lease
    BY <2>1
  <2>5. Bounded'
    BY <2>2, <2>3, <2>4, HeldKept
  <2> QED
    BY <2>1, <2>5 DEF Granted
<1>32. ASSUME NEW n \in Others, OtherChange(n) PROVE Granted'
  BY <1>1, <1>32 DEF OtherChange, PutKey, DeleteKey, registry
<1>33. CASE CloseWatch
  BY <1>1, <1>33 DEF CloseWatch, registry
<1> QED
  BY <1>11, <1>12, <1>13, <1>14, <1>15, <1>16, <1>17, <1>18, <1>19, <1>20, <1>21, <1>22, <1>23,
     <1>24, <1>25, <1>26, <1>27, <1>28, <1>29, <1>30, <1>31, <1>32, <1>33
  DEF Next, Start, MainLoop, Removal

-----------------------------------------------------------------------------
(* Connections and their handshakes *)

\* Which handshakes wait after a task was posted.
LEMMA WaitsAppend ==
    ASSUME Types, NEW e, queue' = Append(queue, e), NEW c, NEW i
    PROVE  Waits(c, i)' <=> Waits(c, i) \/ (i = Len(queue) + 1 /\ e = <<"shake", c>>)
<1>1. PICK k \in Nat : k = Len(queue)
  BY DEF Types
<1>2. PICK q : q = Append(queue, e)
  OBVIOUS
<1>3. /\ DOMAIN queue = 1..k /\ DOMAIN q = 1..(k + 1) /\ q[k + 1] = e
      /\ \A j \in 1..k : q[j] = queue[j]
  BY <1>1, <1>2 DEF Types
<1>4. i \in 1..(k + 1) <=> i \in 1..k \/ i = k + 1
  OBVIOUS
<1>5. k + 1 \notin 1..k
  OBVIOUS
<1>6. Waits(c, i)' <=> i \in DOMAIN q /\ q[i] = <<"shake", c>>
  BY <1>2 DEF Waits
<1> QED
  BY <1>1, <1>3, <1>4, <1>5, <1>6 DEF Waits

\* Which handshakes wait after the main loop has taken a task.
LEMMA WaitsTail ==
    ASSUME Types, queue # <<>>, queue' = Tail(queue), NEW c, NEW i
    PROVE  Waits(c, i)' <=> i \in Nat \ {0} /\ Waits(c, i + 1)
<1>1. PICK k \in Nat : Len(queue) = k + 1
  <2>1. Len(queue) \in Nat /\ Len(queue) > 0
    BY DEF Types
  <2>2. Len(queue) - 1 \in Nat /\ Len(queue) = (Len(queue) - 1) + 1
    BY <2>1
  <2> QED
    BY <2>2
<1>2. PICK q : q = Tail(queue)
  OBVIOUS
<1>3. /\ DOMAIN queue = 1..(k + 1) /\ DOMAIN q = 1..k
      /\ \A j \in 1..k : q[j] = queue[j + 1]
  BY <1>1, <1>2 DEF Types
<1>4. i \in 1..k <=> i \in Nat \ {0} /\ i + 1 \in 1..(k + 1)
  OBVIOUS
<1>5. Waits(c, i)' <=> i \in DOMAIN q /\ q[i] = <<"shake", c>>
  BY <1>2 DEF Waits
<1> QED
  BY <1>3, <1>4, <1>5 DEF Waits

\* A task is taken: its handshake was the first one that waited.
LEMMA WaitsHead ==
    ASSUME Types, queue # <<>>, NEW c
    PROVE  1 \in DOMAIN queue /\ (Waits(c, 1) <=> Head(queue) = <<"shake", c>>)
<1>1. Len(queue) \in Nat /\ Len(queue) > 0 /\ DOMAIN queue = 1..Len(queue) /\ Head(queue) = queue[1]
  BY DEF Types
<1> QED
  BY <1>1 DEF Waits

\* What a step may do to a connection that exists: it moves on, one state at a time.
Moves(a, b) ==
    \/ b = a
    \/ a = "open" /\ b = "posted"
    \/ a = "posted" /\ b = "closed"
    \/ a = "closed" /\ b \in {"table", "ended"}
    \/ a = "table" /\ b = "forget"
    \/ a = "forget" /\ b = "delete"
    \/ a = "delete" /\ b = "ended"

\* Only the goroutine of a connection moves it on, and only a process that
\* connects makes one.
LEMMA ConnStep ==
    ASSUME Types, Next
    PROVE  \/ \E c \in Conns, n \in Nodes : Connect(c, n)
           \/ owner' = owner /\ \A c \in Conns : Moves(st[c], st'[c])
<1>1. ASSUME UNCHANGED <<st, owner>> PROVE owner' = owner /\ \A c \in Conns : Moves(st[c], st'[c])
  BY <1>1 DEF Moves
<1>2. ASSUME NEW c \in Conns, NEW s, owner' = owner, st' = [st EXCEPT ![c] = s], Moves(st[c], s)
      PROVE  owner' = owner /\ \A d \in Conns : Moves(st[d], st'[d])
  <2>1. \A d \in Conns : st'[d] = IF d = c THEN s ELSE st[d]
    BY <1>2 DEF Types
  <2> QED
    BY <1>2, <2>1 DEF Moves
<1>3. CASE Start \/ StartWatch \/ WatchPost
  BY <1>1, <1>3 DEF Start, RegisterSelf, DiscoverGet, DiscoverPost, StartWatch, WatchPost, conns
<1>4. CASE MainLoop
  BY <1>1, <1>4 DEF MainLoop, TakeTask, EnsureLease, PutNode, RememberNode, FinishHandshake, conns
<1>5. CASE KeepaliveFails \/ RecoverLease \/ RecoverPut
  BY <1>1, <1>5 DEF KeepaliveFails, RecoverLease, RecoverPut, conns
<1>6. CASE (\E l \in Leases : Expire(l)) \/ (\E n \in Others : OtherChange(n)) \/ CloseWatch
  BY <1>1, <1>6 DEF Expire, OtherChange, CloseWatch, conns
<1>7. ASSUME NEW c \in Conns, PostFrame(c) \/ Hangup(c) \/ Removal(c)
      PROVE  owner' = owner /\ \A d \in Conns : Moves(st[d], st'[d])
  <2>1. owner' = owner
    BY <1>7 DEF PostFrame, Hangup, Removal, RemoveLocal, RemoveMember, ForgetNode, DeleteNode
  <2>2. \E s : st' = [st EXCEPT ![c] = s] /\ Moves(st[c], s)
    <3>1. CASE PostFrame(c) \/ Hangup(c)
      BY <3>1 DEF PostFrame, Hangup, Moves
    <3>2. CASE RemoveLocal(c)
      BY <3>2, Steps DEF RemoveLocal, Moves
    <3>3. CASE RemoveMember(c) \/ ForgetNode(c) \/ DeleteNode(c)
      BY <3>3, Steps DEF RemoveMember, ForgetNode, DeleteNode, Moves
    <3> QED
      BY <1>7, <3>1, <3>2, <3>3 DEF Removal
  <2> QED
    BY <1>2, <2>1, <2>2
<1> QED
  BY <1>3, <1>4, <1>5, <1>6, <1>7 DEF Next

\* A mark of an event that no later Put makes good stays.
LEMMA MarksStay ==
    ASSUME Next, NEW cause, cause \notin Lost, NEW n, <<cause, n>> \in marks
    PROVE  <<cause, n>> \in marks'
<1>1. \A m, b : <<cause, n>> \notin Republished(m, b)
  BY DEF Republished
<1>2. CASE Start \/ StartWatch \/ WatchPost
  BY <1>2 DEF Start, RegisterSelf, DiscoverGet, DiscoverPost, StartWatch, WatchPost
<1>3. CASE MainLoop
  BY <1>1, <1>3 DEF MainLoop, TakeTask, EnsureLease, PutNode, RememberNode, FinishHandshake
<1>4. CASE KeepaliveFails \/ RecoverLease \/ RecoverPut
  BY <1>1, <1>4 DEF KeepaliveFails, RecoverLease, RecoverPut
<1>5. CASE (\E l \in Leases : Expire(l)) \/ (\E m \in Others : OtherChange(m)) \/ CloseWatch
  BY <1>5 DEF Expire, OtherChange, CloseWatch
<1>6. ASSUME NEW c \in Conns, PostFrame(c) \/ Hangup(c) \/ Removal(c) \/ \E m \in Nodes : Connect(c, m)
      PROVE  <<cause, n>> \in marks'
  BY <1>6 DEF PostFrame, Hangup, Removal, RemoveLocal, RemoveMember, ForgetNode, DeleteNode, Connect
<1> QED
  BY <1>2, <1>3, <1>4, <1>5, <1>6 DEF Next

\* A new connection takes the next number, which was not in use.
LEMMA NewConn ==
    ASSUME Types, Joined, NEW c \in Conns, NEW n \in Nodes, Connect(c, n)
    PROVE  /\ st[c] = "new" /\ st'[c] = "open" /\ owner'[c] = n
           /\ \A d \in Conns : d # c => st'[d] = st[d] /\ owner'[d] = owner[d]
           /\ \E k \in 0..MaxConns : Connected' = 1..k
<1>1. PICK k \in 0..MaxConns : Connected = 1..k
  BY DEF Joined
<1>2. k \in Nat /\ MaxConns \in Nat /\ Cardinality(1..k) = k
  BY FS_Interval, RegistrationConstants
<1>3. c = k + 1
  BY <1>1, <1>2 DEF Connect
<1>4. c \notin Connected /\ k + 1 \in 0..MaxConns
  BY <1>1, <1>2, <1>3 DEF Conns
<1>5. /\ st'[c] = "open" /\ owner'[c] = n
      /\ \A d \in Conns : d # c => st'[d] = st[d] /\ owner'[d] = owner[d]
  BY DEF Connect, Types
<1>6. Connected' = Connected \cup {c}
  BY <1>5 DEF Connected
<1>7. Connected' = 1..(k + 1)
  <2>1. 1..(k + 1) = (1..k) \cup {k + 1}
    BY <1>2
  <2> QED
    BY <1>1, <1>3, <1>6, <2>1
<1> QED
  BY <1>4, <1>5, <1>7 DEF Connected

\* Connections are made one after another, one per node at a time.
LEMMA JoinedStep ==
    ASSUME Types, Joined, Next
    PROVE  Joined'
<1>1. ASSUME NEW c \in Conns, NEW n \in Nodes, Connect(c, n) PROVE Joined'
  <2>1. /\ st[c] = "new" /\ st'[c] = "open" /\ owner'[c] = n
        /\ \A d \in Conns : d # c => st'[d] = st[d] /\ owner'[d] = owner[d]
        /\ \E k \in 0..MaxConns : Connected' = 1..k
    BY <1>1, NewConn
  <2>2. \A d \in Connected' : owner'[d] \in Nodes
    BY <2>1 DEF Joined, Connected
  <2>3. \A d \in Conns : d # c /\ Open(d)' => Open(d) /\ owner'[d] # n
    BY <1>1, <2>1 DEF Connect, Open
  <2>4. \A d, e \in Conns : Open(d)' /\ Open(e)' /\ owner'[d] = owner'[e] => d = e
    BY <2>1, <2>3 DEF Joined
  <2> QED
    BY <2>1, <2>2, <2>4 DEF Joined
<1>2. CASE owner' = owner /\ \A c \in Conns : Moves(st[c], st'[c])
  <2>1. Connected' = Connected
    BY <1>2 DEF Connected, Moves
  <2>2. \A c \in Conns : Open(c)' => Open(c)
    BY <1>2 DEF Open, Moves
  <2> QED
    BY <1>2, <2>1, <2>2 DEF Joined
<1> QED
  BY <1>1, <1>2, ConnStep

\* What connects, posts, enters or removes a connection, and what takes a task;
\* every other step leaves the handshakes and the local table alone.
Apart == ~ \/ \E c \in Conns : \/ \E n \in Nodes : Connect(c, n)
                               \/ PostFrame(c) \/ RemoveLocal(c)
           \/ TakeTask \/ FinishHandshake

\* Those other steps start no handshake and enter no connection.
LEMMA OtherStep ==
    ASSUME Types, Next, Apart
    PROVE  /\ owner' = owner /\ localConns' = localConns
           /\ \A c \in Conns : \/ st'[c] = st[c]
                               \/ st[c] = "posted" /\ st'[c] = "closed"
                               \/ st[c] \in {"table", "forget", "delete"} /\ st'[c] \in {"forget", "delete", "ended"}
           /\ \A c \in Conns : Handled(c)' => Handled(c)
           /\ \A c \in Conns : \A i : Waits(c, i)' <=> Waits(c, i)
<1> DEFINE Stay == /\ owner' = owner /\ localConns' = localConns /\ st' = st
           Rest == \A c \in Conns : Handled(c)' => Handled(c)
           Wait == \A c \in Conns : \A i : Waits(c, i)' <=> Waits(c, i)
<1>1. ASSUME main' = main \/ main' = Idle PROVE Rest
  BY <1>1 DEF Handled, Idle
<1>2. ASSUME queue' = queue PROVE Wait
  BY <1>2 DEF Waits
<1>3. ASSUME NEW e, \A c : e # <<"shake", c>>, queue' = Append(queue, e) PROVE Wait
  BY <1>3, WaitsAppend
<1>4. CASE RegisterSelf \/ DiscoverGet \/ StartWatch \/ CloseWatch \/ KeepaliveFails \/ RecoverLease \/ RecoverPut
  <2>1. Stay /\ main' = main /\ queue' = queue
    BY <1>4 DEF RegisterSelf, DiscoverGet, StartWatch, CloseWatch, KeepaliveFails, RecoverLease,
                RecoverPut, conns, tables
  <2> QED
    BY <1>1, <1>2, <2>1
<1>5. CASE (\E l \in Leases : Expire(l)) \/ (\E n \in Others : OtherChange(n))
  <2>1. Stay /\ main' = main /\ queue' = queue
    BY <1>5 DEF Expire, OtherChange, conns, tables
  <2> QED
    BY <1>1, <1>2, <2>1
<1>6. CASE DiscoverPost
  <2>1. Stay /\ main' = main
    BY <1>6 DEF DiscoverPost, conns, tables
  <2>2. queue' = queue \/ \E n \in initial : queue' = Append(queue, <<"add", n>>)
    BY <1>6 DEF DiscoverPost
  <2>3. \A n, c : <<"add", n>> # <<"shake", c>>
    OBVIOUS
  <2> QED
    BY <1>1, <1>2, <1>3, <2>1, <2>2, <2>3
<1>7. CASE WatchPost
  <2>1. Stay /\ main' = main /\ queue' = Append(queue, Head(stream))
    BY <1>7 DEF WatchPost, conns, tables
  <2>2. Head(stream) \in {"add", "del"} \X All
    BY <1>7 DEF WatchPost, Types
  <2>3. \A c : Head(stream) # <<"shake", c>>
    BY <2>2
  <2> QED
    BY <1>1, <1>3, <2>1, <2>3
<1>8. CASE EnsureLease \/ PutNode \/ RememberNode
  <2>1. Stay /\ queue' = queue
    BY <1>8 DEF EnsureLease, PutNode, RememberNode, conns, tables
  <2>2. main.at # "idle"
    BY <1>8 DEF EnsureLease, PutNode, RememberNode
  <2>3. main'.c = main.c \/ main' = Idle
    <3>1. CASE EnsureLease
      BY <3>1 DEF EnsureLease, Refuse, Types
    <3>2. CASE PutNode
      BY <3>2 DEF PutNode, Refuse, Types
    <3>3. CASE RememberNode
      BY <3>3 DEF RememberNode, Types
    <3> QED
      BY <1>8, <3>1, <3>2, <3>3
  <2>4. Rest
    BY <2>2, <2>3 DEF Handled, Idle
  <2> QED
    BY <1>2, <2>1, <2>4
<1>9. ASSUME NEW c \in Conns, Hangup(c) \/ RemoveMember(c) \/ ForgetNode(c) \/ DeleteNode(c)
      PROVE  /\ owner' = owner /\ localConns' = localConns /\ main' = main /\ queue' = queue
             /\ \A d \in Conns : \/ st'[d] = st[d]
                                 \/ st[d] = "posted" /\ st'[d] = "closed"
                                 \/ st[d] \in {"table", "forget", "delete"} /\ st'[d] \in {"forget", "delete", "ended"}
  <2>1. owner' = owner /\ localConns' = localConns /\ main' = main /\ queue' = queue
    BY <1>9 DEF Hangup, RemoveMember, ForgetNode, DeleteNode, tables
  <2>2. \E s : /\ st' = [st EXCEPT ![c] = s]
               /\ \/ st[c] = "posted" /\ s = "closed"
                  \/ st[c] \in {"table", "forget", "delete"} /\ s \in {"forget", "delete", "ended"}
    BY <1>9, Steps DEF Hangup, RemoveMember, ForgetNode, DeleteNode
  <2> QED
    BY <2>1, <2>2 DEF Types
<1>10. \/ RegisterSelf \/ DiscoverGet \/ StartWatch \/ CloseWatch \/ KeepaliveFails \/ RecoverLease \/ RecoverPut
       \/ (\E l \in Leases : Expire(l)) \/ (\E n \in Others : OtherChange(n)) \/ DiscoverPost \/ WatchPost
       \/ EnsureLease \/ PutNode \/ RememberNode
       \/ \E c \in Conns : Hangup(c) \/ RemoveMember(c) \/ ForgetNode(c) \/ DeleteNode(c)
  BY DEF Next, Apart, Start, MainLoop, Removal
<1> QED
  BY <1>1, <1>2, <1>4, <1>5, <1>6, <1>7, <1>8, <1>9, <1>10

\* The connection that is entered is not one whose handshake is under way.
LEMMA QueuedStep ==
    ASSUME Types, Joined, Queued, Entered, Next
    PROVE  Queued'
<1>1. \A c \in Conns : Shaking(c) <=> Handled(c) \/ \E i : Waits(c, i)
  BY DEF Shaking, Waits
<1>2. \A c \in Conns : Shaking(c)' <=> Handled(c)' \/ \E i : Waits(c, i)'
  BY DEF Shaking, Waits
<1>3. \A c \in Conns : /\ Shaking(c) => st[c] \in {"posted", "closed", "ended"} /\ localConns[owner[c]] # c
                       /\ \A i, j : Waits(c, i) /\ Waits(c, j) => i = j
                       /\ \A i : Waits(c, i) => ~Handled(c)
  BY DEF Queued, Waits
<1>4. SUFFICES ASSUME NEW c \in Conns
      PROVE  /\ Shaking(c)' => st'[c] \in {"posted", "closed", "ended"} /\ localConns'[owner'[c]] # c
             /\ \A i, j : Waits(c, i)' /\ Waits(c, j)' => i = j
             /\ \A i : Waits(c, i)' => ~Handled(c)'
  BY DEF Queued
<1>5. ASSUME NEW d \in Conns, NEW n \in Nodes, Connect(d, n)
      PROVE  /\ Shaking(c)' => st'[c] \in {"posted", "closed", "ended"} /\ localConns'[owner'[c]] # c
             /\ \A i, j : Waits(c, i)' /\ Waits(c, j)' => i = j
             /\ \A i : Waits(c, i)' => ~Handled(c)'
  <2>1. localConns' = localConns /\ (Handled(c)' <=> Handled(c)) /\ \A i : Waits(c, i)' <=> Waits(c, i)
    BY <1>5 DEF Connect, tables, Handled, Waits
  <2>2. st[d] = "new" /\ (c # d => st'[c] = st[c] /\ owner'[c] = owner[c])
    BY <1>5, NewConn
  <2> QED
    BY <1>1, <1>2, <1>3, <2>1, <2>2
<1>6. ASSUME NEW d \in Conns, PostFrame(d)
      PROVE  /\ Shaking(c)' => st'[c] \in {"posted", "closed", "ended"} /\ localConns'[owner'[c]] # c
             /\ \A i, j : Waits(c, i)' /\ Waits(c, j)' => i = j
             /\ \A i : Waits(c, i)' => ~Handled(c)'
  <2>1. /\ localConns' = localConns /\ owner' = owner /\ (Handled(c)' <=> Handled(c))
        /\ st[d] = "open" /\ st'[d] = "posted" /\ (c # d => st'[c] = st[c])
    BY <1>6 DEF PostFrame, tables, Handled, Types
  <2>2. \A i : Waits(c, i)' <=> Waits(c, i) \/ (i = Len(queue) + 1 /\ c = d)
    <3>1. queue' = Append(queue, <<"shake", d>>)
      BY <1>6 DEF PostFrame
    <3>2. \A i : Waits(c, i)' <=> Waits(c, i) \/ (i = Len(queue) + 1 /\ <<"shake", d>> = <<"shake", c>>)
      BY <3>1, WaitsAppend
    <3>3. <<"shake", d>> = <<"shake", c>> <=> c = d
      OBVIOUS
    <3> QED
      BY <3>2, <3>3
  <2>3. ~Shaking(d)
    BY <1>3, <2>1
  <2>4. localConns[owner[d]] # d
    <3>1. owner[d] \in Nodes
      BY <2>1 DEF Joined, Connected
    <3>2. ASSUME localConns[owner[d]] = d PROVE FALSE
      <4>1. localConns[owner[d]] # NoConn
        BY <3>2, Numbers
      <4>2. st[localConns[owner[d]]] \in {"posted", "closed", "ended"}
        BY <3>1, <4>1 DEF Entered
      <4> QED
        BY <2>1, <3>2, <4>2
    <3> QED
      BY <3>2
  <2>5. CASE c = d
    BY <1>1, <2>1, <2>2, <2>3, <2>4, <2>5
  <2>6. CASE c # d
    BY <1>1, <1>2, <1>3, <2>1, <2>2, <2>6
  <2> QED
    BY <2>5, <2>6
<1>7. ASSUME NEW d \in Conns, RemoveLocal(d)
      PROVE  /\ Shaking(c)' => st'[c] \in {"posted", "closed", "ended"} /\ localConns'[owner'[c]] # c
             /\ \A i, j : Waits(c, i)' /\ Waits(c, j)' => i = j
             /\ \A i : Waits(c, i)' => ~Handled(c)'
  <2>1. owner' = owner /\ (Handled(c)' <=> Handled(c)) /\ \A i : Waits(c, i)' <=> Waits(c, i)
    BY <1>7 DEF RemoveLocal, Handled, Waits
  <2>2. ASSUME Shaking(c) PROVE st'[c] \in {"posted", "closed", "ended"} /\ localConns'[owner[c]] # c
    <3>1. st[c] \in {"posted", "closed", "ended"} /\ localConns[owner[c]] # c
      BY <1>3, <2>2
    <3>2. st'[c] = st[c] \/ (c = d /\ st'[c] = "ended")
      BY <1>7, <3>1 DEF RemoveLocal, Types
    <3>3. localConns'[owner[c]] \in {localConns[owner[c]], NoConn}
      <4>1. owner[c] \in Nodes
        BY <3>1 DEF Joined, Connected
      <4> QED
        BY <1>7, <4>1 DEF RemoveLocal, Types
    <3> QED
      BY <3>1, <3>2, <3>3, Numbers
  <2> QED
    BY <1>1, <1>2, <1>3, <2>1, <2>2
<1>8. CASE TakeTask
  <2>1. UNCHANGED <<st, owner, localConns>> /\ main.at = "idle" /\ queue # <<>> /\ queue' = Tail(queue)
    BY <1>8 DEF TakeTask, conns
  <2>2. \A i : Waits(c, i)' <=> i \in Nat \ {0} /\ Waits(c, i + 1)
    BY <2>1, WaitsTail
  <2>3. Handled(c)' => Waits(c, 1)
    <3>1. Head(queue) \in Tasks
      BY <2>1 DEF Types
    <3>2. ASSUME Handled(c)' PROVE Head(queue) = <<"shake", c>>
      <4>1. main' = IF Head(queue)[1] = "shake" THEN [at |-> "ensure", c |-> Head(queue)[2], l |-> 0] ELSE Idle
        BY <1>8 DEF TakeTask
      <4>2. Head(queue)[1] = "shake" /\ Head(queue)[2] = c
        BY <3>2, <4>1 DEF Handled, Idle
      <4> QED
        BY <3>1, <4>2 DEF Tasks
    <3> QED
      BY <2>1, <3>2, WaitsHead
  <2>4. Shaking(c)' => Shaking(c)
    BY <1>1, <1>2, <2>2, <2>3
  <2>5. ASSUME NEW i, NEW j, Waits(c, i)', Waits(c, j)' PROVE i = j
    <3>1. i + 1 = j + 1 /\ i \in Nat /\ j \in Nat
      BY <1>3, <2>2, <2>5
    <3> QED
      BY <3>1
  <2>6. ASSUME NEW i, Waits(c, i)', Handled(c)' PROVE FALSE
    <3>1. i \in Nat \ {0} /\ i + 1 = 1
      BY <1>3, <2>2, <2>3, <2>6
    <3> QED
      BY <3>1
  <2> QED
    BY <1>3, <2>1, <2>4, <2>5, <2>6
<1>9. CASE FinishHandshake
  <2>1. /\ UNCHANGED <<st, owner, queue>> /\ main.at = "enter" /\ ~Handled(c)'
        /\ localConns' = [localConns EXCEPT ![owner[main.c]] = main.c]
    BY <1>9 DEF FinishHandshake, Handled, Idle
  <2>2. \A i : Waits(c, i)' <=> Waits(c, i)
    BY <2>1 DEF Waits
  <2>3. ASSUME NEW i, Waits(c, i) PROVE localConns'[owner[c]] # c
    <3>1. c # main.c /\ localConns[owner[c]] # c
      BY <1>1, <1>3, <2>1, <2>3 DEF Handled
    <3>2. localConns'[owner[c]] \in {localConns[owner[c]], main.c}
      BY <2>1 DEF Types
    <3> QED
      BY <3>1, <3>2
  <2> QED
    BY <1>1, <1>2, <1>3, <2>1, <2>2, <2>3
<1>10. CASE Apart
  <2>1. /\ owner' = owner /\ localConns' = localConns
        /\ \/ st'[c] = st[c]
           \/ st[c] = "posted" /\ st'[c] = "closed"
           \/ st[c] \in {"table", "forget", "delete"} /\ st'[c] \in {"forget", "delete", "ended"}
        /\ Handled(c)' => Handled(c)
        /\ \A i : Waits(c, i)' <=> Waits(c, i)
    BY <1>10, OtherStep
  <2> QED
    BY <1>1, <1>2, <1>3, <2>1
<1> QED
  BY <1>5, <1>6, <1>7, <1>8, <1>9, <1>10 DEF Apart

\* LocalConnSet keeps to connections that are there: removeConn takes out the
\* node of its own connection only.
LEMMA EnteredStep ==
    ASSUME Types, Joined, Queued, Entered, Next
    PROVE  Entered'
<1>1. SUFFICES ASSUME NEW n \in Nodes, localConns'[n] # NoConn
      PROVE  /\ owner'[localConns'[n]] = n
             /\ \/ st'[localConns'[n]] \in {"posted", "closed"}
                \/ st'[localConns'[n]] = "ended" /\ <<"late", n>> \in marks'
  BY DEF Entered
<1>2. PICK d : d = localConns'[n]
  OBVIOUS
<1>3. <<"late", n>> \in marks => <<"late", n>> \in marks'
  BY MarksStay DEF Lost
<1>4. SUFFICES /\ owner'[d] = n
               /\ \/ st'[d] \in {"posted", "closed"}
                  \/ st'[d] = "ended" /\ <<"late", n>> \in marks'
  BY <1>2
<1>5. ASSUME localConns[n] = d
      PROVE  /\ d \in Conns /\ owner[d] = n
             /\ st[d] \in {"posted", "closed"} \/ (st[d] = "ended" /\ <<"late", n>> \in marks)
  <2>1. d \in Conns
    BY <1>1, <1>2, <1>5 DEF Types
  <2>2. localConns[n] # NoConn
    BY <1>1, <1>2, <1>5
  <2> QED
    BY <1>5, <2>1, <2>2 DEF Entered
<1>6. ASSUME NEW c \in Conns, NEW m \in Nodes, Connect(c, m)
      PROVE  /\ owner'[d] = n
             /\ \/ st'[d] \in {"posted", "closed"}
                \/ st'[d] = "ended" /\ <<"late", n>> \in marks'
  <2>1. localConns[n] = d
    BY <1>2, <1>6 DEF Connect, tables
  <2>2. st[c] = "new" /\ \A e \in Conns : e # c => st'[e] = st[e] /\ owner'[e] = owner[e]
    BY <1>6, NewConn
  <2> QED
    BY <1>3, <1>5, <2>1, <2>2
<1>7. ASSUME NEW c \in Conns, PostFrame(c)
      PROVE  /\ owner'[d] = n
             /\ \/ st'[d] \in {"posted", "closed"}
                \/ st'[d] = "ended" /\ <<"late", n>> \in marks'
  <2>1. localConns[n] = d /\ owner' = owner /\ st[c] = "open"
    BY <1>2, <1>7 DEF PostFrame, tables
  <2>2. \A e \in Conns : e # c => st'[e] = st[e]
    BY <1>7 DEF PostFrame, Types
  <2> QED
    BY <1>3, <1>5, <2>1, <2>2
<1>8. ASSUME NEW c \in Conns, RemoveLocal(c)
      PROVE  /\ owner'[d] = n
             /\ \/ st'[d] \in {"posted", "closed"}
                \/ st'[d] = "ended" /\ <<"late", n>> \in marks'
  <2>1. owner' = owner /\ \A e \in Conns : e # c => st'[e] = st[e]
    BY <1>8 DEF RemoveLocal, Types
  <2>2. localConns[n] = d
    BY <1>1, <1>2, <1>8 DEF RemoveLocal, Types
  <2>3. d # c
    <3>1. ASSUME d = c PROVE FALSE
      <4>1. owner[c] = n /\ localConns[owner[c]] = c
        BY <1>5, <2>2, <3>1
      <4>2. localConns'[n] = NoConn
        BY <1>8, <4>1 DEF RemoveLocal, Types
      <4> QED
        BY <1>1, <4>2
    <3> QED
      BY <3>1
  <2> QED
    BY <1>3, <1>5, <2>1, <2>2, <2>3
<1>9. CASE TakeTask
  <2>1. localConns[n] = d /\ owner' = owner /\ st' = st
    BY <1>2, <1>9 DEF TakeTask, conns
  <2> QED
    BY <1>3, <1>5, <2>1
<1>10. CASE FinishHandshake
  <2>1. /\ owner' = owner /\ st' = st /\ main.at = "enter" /\ main.c \in Conns
        /\ localConns' = [localConns EXCEPT ![owner[main.c]] = main.c]
        /\ marks' = IF st[main.c] = "ended" THEN marks \cup {<<"late", owner[main.c]>>} ELSE marks
    BY <1>10 DEF FinishHandshake, Types
  <2>2. CASE owner[main.c] = n
    <3>1. d = main.c
      BY <1>2, <2>1, <2>2 DEF Types
    <3>2. Shaking(main.c)
      BY <2>1 DEF Shaking, Handled
    <3>3. st[main.c] \in {"posted", "closed", "ended"}
      BY <2>1, <3>2 DEF Queued
    <3> QED
      BY <2>1, <2>2, <3>1, <3>3
  <2>3. CASE owner[main.c] # n
    <3>1. localConns[n] = d
      BY <1>2, <2>1, <2>3 DEF Types
    <3> QED
      BY <1>3, <1>5, <2>1, <3>1
  <2> QED
    BY <2>2, <2>3
<1>11. CASE Apart
  <2>1. /\ owner' = owner /\ localConns[n] = d
        /\ \A c \in Conns : \/ st'[c] = st[c]
                            \/ st[c] = "posted" /\ st'[c] = "closed"
                            \/ st[c] \in {"table", "forget", "delete"} /\ st'[c] \in {"forget", "delete", "ended"}
    BY <1>2, <1>11, OtherStep
  <2> QED
    BY <1>3, <1>5, <2>1
<1> QED
  BY <1>6, <1>7, <1>8, <1>9, <1>10, <1>11 DEF Apart

\* The main loop handles the handshakes of a node in the order in which its
\* processes connected.
LEMMA InTurnStep ==
    ASSUME Types, Joined, Queued, Entered, InTurn, Next
    PROVE  InTurn'
<1>1. \A c \in Conns : Shaking(c) <=> Handled(c) \/ \E i : Waits(c, i)
  BY DEF Shaking, Waits
<1>2. \A c \in Conns : Shaking(c)' <=> Handled(c)' \/ \E i : Waits(c, i)'
  BY DEF Shaking, Waits
<1>3. \A c, d \in Conns : c # d /\ owner[c] = owner[d] /\ Open(c) /\ Shaking(d) =>
        /\ localConns[owner[c]] # c /\ ~Handled(c)
        /\ \A i, j : Waits(c, j) /\ Waits(d, i) => i < j
  BY DEF InTurn, Waits
<1>4. SUFFICES ASSUME NEW c \in Conns, NEW d \in Conns, c # d, owner'[c] = owner'[d], Open(c)', Shaking(d)'
      PROVE  /\ localConns'[owner'[c]] # c /\ ~Handled(c)'
             /\ \A i, j : Waits(c, j)' /\ Waits(d, i)' => i < j
  BY DEF InTurn
<1> DEFINE Goal == /\ localConns'[owner'[c]] # c /\ ~Handled(c)'
                   /\ \A i, j : Waits(c, j)' /\ Waits(d, i)' => i < j
<1>5. ASSUME owner' = owner, Open(c), Shaking(d), Handled(c)' => Handled(c),
             localConns' = localConns, \A e \in {c, d} : \A i : Waits(e, i)' => Waits(e, i)
      PROVE  Goal
  BY <1>3, <1>4, <1>5
<1>6. ASSUME NEW e \in Conns, NEW n \in Nodes, Connect(e, n) PROVE Goal
  <2>1. /\ localConns' = localConns
        /\ \A x \in Conns : (Handled(x)' <=> Handled(x)) /\ \A i : Waits(x, i)' <=> Waits(x, i)
    BY <1>6 DEF Connect, tables, Handled, Waits
  <2>2. st[e] = "new" /\ owner'[e] = n /\ \A x \in Conns : x # e => st'[x] = st[x] /\ owner'[x] = owner[x]
    BY <1>6, NewConn
  <2>3. ~Shaking(e)
    BY <2>2 DEF Queued
  <2>4. Shaking(d) /\ d # e
    BY <1>1, <1>2, <1>4, <2>1, <2>3
  <2>5. CASE c = e
    <3>1. localConns[n] # e
      <4>1. ASSUME localConns[n] = e PROVE FALSE
        <5>1. localConns[n] # NoConn
          BY <4>1, Numbers
        <5>2. st[localConns[n]] \in {"posted", "closed", "ended"}
          BY <5>1 DEF Entered
        <5> QED
          BY <2>2, <4>1, <5>2
      <4> QED
        BY <4>1
    <3> QED
      BY <1>1, <2>1, <2>2, <2>3, <2>5, <3>1
  <2>6. CASE c # e
    <3>1. owner'[c] = owner[c] /\ owner'[d] = owner[d] /\ Open(c)
      BY <1>4, <2>2, <2>4, <2>6 DEF Open
    <3> QED
      BY <1>3, <1>4, <2>1, <2>4, <3>1
  <2> QED
    BY <2>5, <2>6
<1>7. ASSUME NEW e \in Conns, PostFrame(e) PROVE Goal
  <2>1. /\ localConns' = localConns /\ owner' = owner /\ st[e] = "open"
        /\ \A x \in Conns : Open(x)' <=> Open(x)
        /\ \A x \in Conns : Handled(x)' <=> Handled(x)
    <3>1. /\ localConns' = localConns /\ owner' = owner /\ st[e] = "open" /\ main' = main
          /\ st' = [st EXCEPT ![e] = "posted"]
      BY <1>7 DEF PostFrame, tables
    <3>2. \A x \in Conns : Handled(x)' <=> Handled(x)
      BY <3>1 DEF Handled
    <3>3. \A x \in Conns : st'[x] = IF x = e THEN "posted" ELSE st[x]
      BY <3>1 DEF Types
    <3>4. \A x \in Conns : Open(x)' <=> Open(x)
      BY <3>1, <3>3 DEF Open
    <3> QED
      BY <3>1, <3>2, <3>4
  <2>2. queue' = Append(queue, <<"shake", e>>) /\ \A x : <<"shake", e>> = <<"shake", x>> <=> x = e
    BY <1>7 DEF PostFrame
  <2>3. \A x, i : Waits(x, i)' <=> Waits(x, i) \/ (i = Len(queue) + 1 /\ x = e)
    <3>1. \A x, i : Waits(x, i)' <=> Waits(x, i) \/ (i = Len(queue) + 1 /\ <<"shake", e>> = <<"shake", x>>)
      BY <2>2, WaitsAppend
    <3> QED
      BY <2>2, <3>1
  <2>4. Open(e) /\ Open(c)
    BY <1>4, <2>1 DEF Open
  <2>5. d # e
    BY <1>4, <2>1, <2>4 DEF Joined
  <2>6. Shaking(d)
    BY <1>1, <1>2, <1>4, <2>1, <2>3, <2>5
  <2>7. CASE c = e
    <3>1. \A j : ~Waits(e, j)
      <4>1. ~Shaking(e)
        BY <2>1 DEF Queued
      <4> QED
        BY <1>1, <4>1
    <3>2. ASSUME NEW i, NEW j, Waits(c, j)', Waits(d, i)' PROVE i < j
      <4>1. j = Len(queue) + 1 /\ Waits(d, i)
        BY <2>3, <2>5, <2>7, <3>1, <3>2
      <4>2. i \in 1..Len(queue) /\ Len(queue) \in Nat
        BY <4>1 DEF Waits, Types
      <4> QED
        BY <4>1, <4>2
    <3> QED
      BY <1>3, <1>4, <2>1, <2>4, <2>6, <3>2
  <2>8. CASE c # e
    BY <1>5, <2>1, <2>3, <2>4, <2>5, <2>6, <2>8
  <2> QED
    BY <2>7, <2>8
<1>8. ASSUME NEW e \in Conns, RemoveLocal(e) PROVE Goal
  <2>1. /\ owner' = owner /\ (Open(c)' => Open(c))
        /\ \A x \in Conns : (Handled(x)' <=> Handled(x)) /\ \A i : Waits(x, i)' <=> Waits(x, i)
    BY <1>8, Steps DEF RemoveLocal, Handled, Waits, Open, Types
  <2>2. Open(c) /\ Shaking(d)
    BY <1>1, <1>2, <1>4, <2>1
  <2>3. owner[c] \in Nodes
    BY <2>2 DEF Joined, Connected, Open
  <2>4. localConns'[owner[c]] \in {localConns[owner[c]], NoConn}
    BY <1>8, <2>3 DEF RemoveLocal, Types
  <2> QED
    BY <1>3, <1>4, <2>1, <2>2, <2>4, Numbers
<1>9. CASE TakeTask
  <2>1. UNCHANGED <<st, owner, localConns>> /\ main.at = "idle" /\ queue # <<>> /\ queue' = Tail(queue)
    BY <1>9 DEF TakeTask, conns
  <2>2. \A x, i : Waits(x, i)' <=> i \in Nat \ {0} /\ Waits(x, i + 1)
    BY <2>1, WaitsTail
  <2>3. ASSUME NEW x \in Conns, Handled(x)' PROVE Waits(x, 1)
    <3>1. Head(queue) \in Tasks
      BY <2>1 DEF Types
    <3>2. main' = IF Head(queue)[1] = "shake" THEN [at |-> "ensure", c |-> Head(queue)[2], l |-> 0] ELSE Idle
      BY <1>9 DEF TakeTask
    <3>3. Head(queue)[1] = "shake" /\ Head(queue)[2] = x
      BY <2>3, <3>2 DEF Handled, Idle
    <3>4. Head(queue) = <<"shake", x>>
      BY <3>1, <3>3 DEF Tasks
    <3> QED
      BY <2>1, <3>4, WaitsHead
  <2>4. Open(c) /\ owner[c] = owner[d]
    BY <1>4, <2>1 DEF Open
  <2>5. Shaking(d)
    BY <1>1, <1>2, <1>4, <2>2, <2>3
  <2>6. \A i, j : Waits(c, j) /\ Waits(d, i) => i < j
    BY <1>3, <1>4, <2>4, <2>5
  <2>7. ~Handled(c)'
    <3>1. ASSUME Handled(c)' PROVE FALSE
      <4>1. Waits(c, 1)
        BY <2>3, <3>1
      <4>2. ~Handled(d)'
        BY <1>4, <3>1 DEF Handled
      <4>3. PICK i : Waits(d, i)'
        BY <1>2, <1>4, <4>2
      <4>4. i \in Nat \ {0} /\ Waits(d, i + 1)
        BY <2>2, <4>3
      <4>5. i + 1 < 1
        BY <2>6, <4>1, <4>4
      <4> QED
        BY <4>4, <4>5
    <3> QED
      BY <3>1
  <2>8. ASSUME NEW i, NEW j, Waits(c, j)', Waits(d, i)' PROVE i < j
    <3>1. i + 1 < j + 1 /\ i \in Nat /\ j \in Nat
      BY <2>2, <2>6, <2>8
    <3> QED
      BY <3>1
  <2> QED
    BY <1>3, <1>4, <2>1, <2>4, <2>5, <2>7, <2>8
<1>10. CASE FinishHandshake
  <2>1. /\ UNCHANGED <<st, owner, queue>> /\ main.at = "enter" /\ main' = Idle
        /\ localConns' = [localConns EXCEPT ![owner[main.c]] = main.c]
    BY <1>10 DEF FinishHandshake
  <2>2. \A x \in Conns : ~Handled(x)' /\ \A i : Waits(x, i)' <=> Waits(x, i)
    BY <2>1 DEF Waits, Handled, Idle
  <2>3. Open(c) /\ owner[c] = owner[d] /\ Shaking(d)
    BY <1>1, <1>2, <1>4, <2>1, <2>2 DEF Open
  <2>4. localConns[owner[c]] # c /\ ~Handled(c) /\ \A i, j : Waits(c, j) /\ Waits(d, i) => i < j
    BY <1>3, <1>4, <2>3
  <2>5. owner[c] \in Nodes
    BY <2>3 DEF Joined, Connected, Open
  <2>6. localConns'[owner[c]] \in {localConns[owner[c]], main.c}
    BY <2>1, <2>5 DEF Types
  <2>7. main.c # c
    BY <2>1, <2>4 DEF Handled
  <2> QED
    BY <2>1, <2>2, <2>4, <2>6, <2>7
<1>11. CASE Apart
  <2>1. /\ owner' = owner /\ localConns' = localConns
        /\ \/ st'[c] = st[c]
           \/ st[c] = "posted" /\ st'[c] = "closed"
           \/ st[c] \in {"table", "forget", "delete"} /\ st'[c] \in {"forget", "delete", "ended"}
        /\ \A x \in Conns : (Handled(x)' => Handled(x)) /\ \A i : Waits(x, i)' <=> Waits(x, i)
    BY <1>11, OtherStep
  <2>2. Open(c) /\ Shaking(d)
    BY <1>1, <1>2, <1>4, <2>1 DEF Open
  <2> QED
    BY <1>5, <2>1, <2>2
<1> QED
  BY <1>6, <1>7, <1>8, <1>9, <1>10, <1>11 DEF Apart

-----------------------------------------------------------------------------
(* The member table follows etcd *)

\* A change in etcd while the watch is on is the last thing the main loop will
\* have heard of the node; while it is not, the node is marked.
LEMMA Heard ==
    ASSUME Types, Starting, NEW op \in {"add", "del"}, NEW ns \in SUBSET All, Report(op, ns),
           UNCHANGED <<watch, queue, phase>>, phase \in {"post", "loop"}, Unseen(ns) \subseteq marks',
           NEW n \in Nodes \cup Others, ~Marked({"unseen", "undeleted"}, n)'
    PROVE  /\ n \in ns => /\ initial = {} /\ ~NotTold(n)'
                          /\ \A o \in {"add", "del"} : Told(n, o)' => o = op
           /\ n \notin ns => /\ NotTold(n)' <=> NotTold(n)
                             /\ \A o \in {"add", "del"} : Told(n, o)' <=> Told(n, o)
<1>1. /\ stream' \in Seq({"add", "del"} \X All)
      /\ watch = "on" /\ n \in ns => ~Silent(stream', n) /\ Says(stream', n, op)
      /\ watch # "on" \/ n \notin ns =>
           /\ Silent(stream', n) <=> Silent(stream, n)
           /\ \A o \in {"add", "del"} : Says(stream', n, o) <=> Says(stream, n, o)
  BY ReportStep
<1>2. ASSUME n \in ns PROVE watch = "on"
  <2>1. ASSUME watch # "on" PROVE FALSE
    <3>1. n \in ns \ {Self}
      BY <1>2, Numbers
    <3>2. <<"unseen", n>> \in Unseen(ns)
      BY <2>1, <3>1 DEF Unseen
    <3> QED
      BY <3>2 DEF Marked
  <2> QED
    BY <2>1
<1>3. ASSUME n \in ns
      PROVE  initial = {} /\ ~NotTold(n)' /\ \A o \in {"add", "del"} : Told(n, o)' => o = op
  <2>1. ~Silent(stream', n) /\ Says(stream', n, op)
    BY <1>1, <1>2, <1>3
  <2>2. initial = {}
    BY <1>2, <1>3 DEF Starting
  <2>3. \A o \in {"add", "del"} : Says(stream', n, o) => o = op
    BY <1>1, <2>1, OneReport
  <2> QED
    BY <2>1, <2>2, <2>3 DEF NotTold, Told
<1>4. ASSUME n \notin ns
      PROVE  /\ NotTold(n)' <=> NotTold(n)
             /\ \A o \in {"add", "del"} : Told(n, o)' <=> Told(n, o)
  BY <1>1, <1>4 DEF NotTold, Told
<1> QED
  BY <1>3, <1>4

\* Posting a report of the watch to the main loop changes nothing in what the
\* main loop will have heard last.
LEMMA Posted ==
    ASSUME Types, WatchPost, NEW n
    PROVE  /\ NotTold(n)' <=> NotTold(n)
           /\ \A o \in {"add", "del"} : Told(n, o)' <=> Told(n, o)
<1>1. PICK h, t : h = Head(stream) /\ t = Tail(stream)
  OBVIOUS
<1>2. stream # <<>> /\ queue' = Append(queue, h) /\ stream' = t
  BY <1>1 DEF WatchPost
<1>3. /\ Silent(stream, n) <=> h \notin Reports(n) /\ Silent(t, n)
      /\ \A o \in {"add", "del"} : Says(stream, n, o) <=> Says(t, n, o) \/ (h = <<o, n>> /\ Silent(t, n))
  BY <1>1, <1>2, TailReport DEF Types
<1>4. /\ Silent(queue', n) <=> Silent(queue, n) /\ h \notin Reports(n)
      /\ \A o \in {"add", "del"} : Says(queue', n, o) <=> h = <<o, n>> \/ (h \notin Reports(n) /\ Says(queue, n, o))
  BY <1>2, AppendReport DEF Types
<1>5. NotTold(n)' <=> NotTold(n)
  BY <1>2, <1>3, <1>4 DEF NotTold
<1>6. ASSUME NEW o \in {"add", "del"} PROVE Told(n, o)' <=> Told(n, o)
  <2>1. h = <<o, n>> => h \in Reports(n)
    BY DEF Reports
  <2> QED
    BY <1>2, <1>3, <1>4, <2>1 DEF Told
<1> QED
  BY <1>5, <1>6

\* A handshake that is posted is no report.
LEMMA ShakeIsNoReport ==
    ASSUME Types, NEW c, queue' = Append(queue, <<"shake", c>>), stream' = stream, NEW n
    PROVE  /\ NotTold(n)' <=> NotTold(n)
           /\ \A o \in {"add", "del"} : Told(n, o)' <=> Told(n, o)
<1>1. <<"shake", c>> \notin Reports(n) /\ \A o \in {"add", "del"} : <<"shake", c>> # <<o, n>>
  BY DEF Reports
<1>2. /\ Silent(queue', n) <=> Silent(queue, n)
      /\ \A o \in {"add", "del"} : Says(queue', n, o) <=> Says(queue, n, o)
  BY <1>1, AppendReport DEF Types
<1> QED
  BY <1>2 DEF NotTold, Told

\* A node keeps following etcd through a step that changes nothing about it.
LEMMA StillFollows ==
    ASSUME NEW n, Follows(n), NotTold(n)' <=> NotTold(n),
           \A o \in {"add", "del"} : Told(n, o)' <=> Told(n, o),
           n \in initial' <=> n \in initial, keys'[n] # 0 <=> keys[n] # 0, n \in members' <=> n \in members,
           Removing(n, {"forget", "delete"}) => Removing(n, {"forget", "delete"})',
           Handling(n, {"remember", "enter"})' => Handling(n, {"remember", "enter"})
    PROVE  Follows(n)'
BY DEF Follows

\* A node follows etcd through a change of keys that is reported.
LEMMA KeyFollows ==
    ASSUME Types, Starting, NEW op \in {"add", "del"}, NEW ns \in SUBSET All, Report(op, ns),
           UNCHANGED <<watch, queue, phase, initial, members>>, phase \in {"post", "loop"},
           Unseen(ns) \subseteq marks', NEW n \in Nodes \cup Others,
           ~Marked({"unseen", "undeleted"}, n)', Follows(n),
           n \in ns => (op = "add" <=> keys'[n] # 0),
           n \notin ns => (keys'[n] # 0 <=> keys[n] # 0),
           Removing(n, {"forget", "delete"}) => Removing(n, {"forget", "delete"})' \/ keys'[n] = 0,
           n \notin ns /\ Handling(n, {"remember", "enter"})' => Handling(n, {"remember", "enter"})
    PROVE  Follows(n)'
<1>1. CASE n \in ns
  <2>1. initial' = {} /\ ~NotTold(n)' /\ \A o \in {"add", "del"} : Told(n, o)' => o = op
    BY <1>1, Heard
  <2> QED
    BY <1>1, <2>1 DEF Follows
<1>2. CASE n \notin ns
  <2>1. (NotTold(n)' <=> NotTold(n)) /\ \A o \in {"add", "del"} : Told(n, o)' <=> Told(n, o)
    BY <1>2, Heard
  <2> QED
    BY <1>2, <2>1 DEF Follows
<1> QED
  BY <1>1, <1>2

\* Before Discover has read the keys nothing is reported.
LEMMA NothingTold ==
    ASSUME Types, Starting, Starting', Followed, Next, phase' \in {"register", "get"},
           NEW n \in Nodes \cup Others
    PROVE  NotTold(n)'
<1>1. phase \in {"register", "get"}
  <2>1. CASE Start \/ StartWatch \/ WatchPost
    BY <2>1 DEF Start, RegisterSelf, DiscoverGet, DiscoverPost, StartWatch, WatchPost
  <2>2. CASE MainLoop
    BY <2>2 DEF MainLoop, TakeTask, EnsureLease, PutNode, RememberNode, FinishHandshake
  <2>3. CASE KeepaliveFails \/ RecoverLease \/ RecoverPut
    BY <2>3 DEF KeepaliveFails, RecoverLease, RecoverPut
  <2>4. CASE (\E l \in Leases : Expire(l)) \/ (\E m \in Others : OtherChange(m)) \/ CloseWatch
    BY <2>4 DEF Expire, OtherChange, CloseWatch
  <2>5. ASSUME NEW c \in Conns, PostFrame(c) \/ Hangup(c) \/ Removal(c) \/ \E m \in Nodes : Connect(c, m)
        PROVE  phase \in {"register", "get"}
    BY <2>5 DEF PostFrame, Hangup, Removal, RemoveLocal, RemoveMember, ForgetNode, DeleteNode, Connect
  <2> QED
    BY <2>1, <2>2, <2>3, <2>4, <2>5 DEF Next
<1>2. stream = <<>> /\ stream' = <<>> /\ main.at = "idle"
  BY <1>1 DEF Starting, Idle
<1>3. queue' = queue \/ \E c \in Conns : queue' = Append(queue, <<"shake", c>>)
  <2>1. CASE Start \/ StartWatch \/ WatchPost
    BY <1>1, <1>2, <2>1 DEF Start, RegisterSelf, DiscoverGet, DiscoverPost, StartWatch, WatchPost
  <2>2. CASE MainLoop
    BY <1>1, <1>2, <2>2 DEF MainLoop, TakeTask, EnsureLease, PutNode, RememberNode, FinishHandshake
  <2>3. CASE KeepaliveFails \/ RecoverLease \/ RecoverPut
    BY <2>3 DEF KeepaliveFails, RecoverLease, RecoverPut
  <2>4. CASE (\E l \in Leases : Expire(l)) \/ (\E m \in Others : OtherChange(m)) \/ CloseWatch
    BY <2>4 DEF Expire, OtherChange, CloseWatch
  <2>5. ASSUME NEW c \in Conns, PostFrame(c) \/ Hangup(c) \/ Removal(c) \/ \E m \in Nodes : Connect(c, m)
        PROVE  queue' = queue \/ queue' = Append(queue, <<"shake", c>>)
    BY <2>5 DEF PostFrame, Hangup, Removal, RemoveLocal, RemoveMember, ForgetNode, DeleteNode, Connect
  <2> QED
    BY <2>1, <2>2, <2>3, <2>4, <2>5 DEF Next
<1>4. NotTold(n)
  BY <1>1 DEF Followed
<1>5. CASE queue' = queue
  BY <1>2, <1>4, <1>5 DEF NotTold
<1>6. CASE \E c \in Conns : queue' = Append(queue, <<"shake", c>>)
  BY <1>2, <1>4, <1>6, ShakeIsNoReport
<1> QED
  BY <1>3, <1>5, <1>6

\* The nodes that Discover read are posted as reports.
LEMMA DiscoverFollows ==
    ASSUME Types, Starting, DiscoverPost, NEW n \in Nodes \cup Others, Follows(n)
    PROVE  Follows(n)'
<1>1. /\ UNCHANGED <<main, st, owner, members, keys, stream>>
      /\ phase = "post" /\ main.at = "idle" /\ stream = <<>>
  BY DEF DiscoverPost, Starting, Idle, conns, tables, etcd
<1>2. /\ Removing(n, {"forget", "delete"}) <=> Removing(n, {"forget", "delete"})'
      /\ Handling(n, {"remember", "enter"})' <=> Handling(n, {"remember", "enter"})
      /\ ~Handling(n, {"remember", "enter"})
  BY <1>1 DEF Removing, Handling
<1>3. CASE initial = {}
  <2>1. UNCHANGED <<initial, queue>>
    BY <1>3 DEF DiscoverPost
  <2>2. (NotTold(n)' <=> NotTold(n)) /\ \A o \in {"add", "del"} : Told(n, o)' <=> Told(n, o)
    BY <1>1, <2>1 DEF NotTold, Told
  <2> QED
    BY <1>1, <1>2, <2>1, <2>2, StillFollows
<1>4. ASSUME NEW m \in initial, queue' = Append(queue, <<"add", m>>), initial' = initial \ {m}
      PROVE  Follows(n)'
  <2>1. /\ Silent(queue', n) <=> Silent(queue, n) /\ <<"add", m>> \notin Reports(n)
        /\ \A o \in {"add", "del"} : Says(queue', n, o) <=>
              <<"add", m>> = <<o, n>> \/ (<<"add", m>> \notin Reports(n) /\ Says(queue, n, o))
    BY <1>4, AppendReport DEF Types
  <2>2. <<"add", m>> \in Reports(n) <=> m = n
    BY DEF Reports
  <2>3. \A o \in {"add", "del"} : <<"add", m>> = <<o, n>> <=> m = n /\ o = "add"
    OBVIOUS
  <2>4. Silent(stream, n) /\ Silent(stream', n) /\ \A o : ~Says(stream, n, o) /\ ~Says(stream', n, o)
    BY <1>1 DEF Silent, Says
  <2>5. CASE m = n
    <3>1. ~NotTold(n)' /\ \A o \in {"add", "del"} : Told(n, o)' => o = "add"
      BY <2>1, <2>2, <2>3, <2>4, <2>5 DEF NotTold, Told
    <3>2. keys'[n] # 0 /\ n \notin initial'
      BY <1>1, <1>4, <2>5 DEF Follows
    <3> QED
      BY <3>1, <3>2 DEF Follows
  <2>6. CASE m # n
    <3>1. (NotTold(n)' <=> NotTold(n)) /\ \A o \in {"add", "del"} : Told(n, o)' <=> Told(n, o)
      BY <2>1, <2>2, <2>3, <2>4, <2>6 DEF NotTold, Told
    <3>2. n \in initial' <=> n \in initial
      BY <1>4, <2>6
    <3> QED
      BY <1>1, <1>2, <3>1, <3>2, StillFollows
  <2> QED
    BY <2>5, <2>6
<1> QED
  BY <1>3, <1>4 DEF DiscoverPost

\* The main loop applies a report to the member table: when it was the last
\* one, the table agrees with etcd about its node.
LEMMA TakeFollows ==
    ASSUME Types, Starting, TakeTask, NEW n \in Nodes \cup Others, Follows(n)
    PROVE  Follows(n)'
<1>1. /\ UNCHANGED <<st, owner, keys, stream, initial>> /\ queue # <<>> /\ queue' = Tail(queue)
      /\ initial = {}
  BY DEF TakeTask, Starting, conns, etcd
<1>2. ~Handling(n, {"remember", "enter"})' /\ (Removing(n, {"forget", "delete"}) <=> Removing(n, {"forget", "delete"})')
  BY <1>1 DEF TakeTask, Handling, Removing, Idle
<1>3. Head(queue) \in Tasks
  BY <1>1 DEF Types
<1>4. PICK op, x : /\ Head(queue) = <<op, x>>
                   /\ \/ op \in {"add", "del"} /\ x \in All
                      \/ op = "shake" /\ x \in Conns
  BY <1>3 DEF Tasks
<1>5. members' = CASE op = "add" -> Upsert(x) [] op = "del" -> Delete(x) [] op = "shake" -> members
  BY <1>4 DEF TakeTask
<1>6. /\ Silent(queue, n) <=> <<op, x>> \notin Reports(n) /\ Silent(queue', n)
      /\ \A o \in {"add", "del"} : Says(queue, n, o) <=>
            Says(queue', n, o) \/ (<<op, x>> = <<o, n>> /\ Silent(queue', n))
  BY <1>1, <1>4, TailReport DEF Types
<1>7. <<op, x>> \in Reports(n) <=> op \in {"add", "del"} /\ x = n
  BY DEF Reports
<1>8. \A o \in {"add", "del"} : <<op, x>> = <<o, n>> <=> op = o /\ x = n
  OBVIOUS
<1>9. CASE op \in {"add", "del"} /\ x = n
  <2>1. \A o \in {"add", "del"} : Told(n, o)' => Told(n, o)
    BY <1>1, <1>6 DEF Told
  <2>2. ASSUME NotTold(n)' PROVE (keys[n] # 0 => n \in members') /\ (n \in members' => keys[n] # 0)
    <3>1. Told(n, op)
      BY <1>1, <1>6, <1>8, <1>9, <2>2 DEF Told, NotTold
    <3>2. op = "add" <=> keys[n] # 0
      BY <1>9, <3>1 DEF Follows
    <3>3. (op = "add" => n \in members') /\ (op = "del" => n \notin members')
      BY <1>5, <1>9 DEF Upsert, Delete
    <3> QED
      BY <1>9, <3>2, <3>3
  <2> QED
    BY <1>1, <1>2, <2>1, <2>2 DEF Follows
<1>10. CASE ~(op \in {"add", "del"} /\ x = n)
  <2>1. (NotTold(n)' <=> NotTold(n)) /\ \A o \in {"add", "del"} : Told(n, o)' <=> Told(n, o)
    BY <1>1, <1>6, <1>7, <1>8, <1>10 DEF NotTold, Told
  <2>2. n \in members' <=> n \in members
    BY <1>4, <1>5, <1>10 DEF Upsert, Delete
  <2> QED
    BY <1>1, <1>2, <2>1, <2>2, StillFollows
<1> QED
  BY <1>9, <1>10

\* The watch is closed: what it had not posted is marked.
LEMMA CloseFollows ==
    ASSUME Types, CloseWatch, NEW n \in Nodes \cup Others, ~Marked({"unseen", "undeleted"}, n)', Follows(n)
    PROVE  Follows(n)'
<1>1. UNCHANGED <<st, owner, main, keys, initial, members, queue>> /\ stream' = <<>>
        /\ marks' = marks \cup {<<"unseen", stream[i][2]>> : i \in 1..Len(stream)}
  BY DEF CloseWatch, conns, tables
<1>2. Silent(stream, n)
  <2>1. SUFFICES ASSUME NEW i \in DOMAIN stream, stream[i] \in Reports(n) PROVE FALSE
    BY DEF Silent
  <2>2. i \in 1..Len(stream) /\ stream[i][2] = n
    BY <2>1 DEF Reports, Types
  <2>3. <<"unseen", n>> \in marks'
    BY <1>1, <2>2
  <2> QED
    BY <2>3 DEF Marked
<1>3. Silent(stream', n) /\ \A o : ~Says(stream', n, o)
  BY <1>1 DEF Silent, Says
<1>4. \A o \in {"add", "del"} : ~Says(stream, n, o)
  BY <1>2, OneReport DEF Types
<1>5. (NotTold(n)' <=> NotTold(n)) /\ \A o \in {"add", "del"} : Told(n, o)' <=> Told(n, o)
  BY <1>1, <1>2, <1>3, <1>4 DEF NotTold, Told
<1>6. /\ Removing(n, {"forget", "delete"}) <=> Removing(n, {"forget", "delete"})'
      /\ Handling(n, {"remember", "enter"})' <=> Handling(n, {"remember", "enter"})
  BY <1>1 DEF Removing, Handling
<1> QED
  BY <1>1, <1>5, <1>6, StillFollows

\* Discover reads the keys before anything was reported.
LEMMA GetFollows ==
    ASSUME Types, Starting, Followed, DiscoverGet, phase' = "post", NEW n \in Nodes \cup Others
    PROVE  Follows(n)'
<1>1. /\ phase = "get" /\ UNCHANGED <<queue, stream, keys, members, main>>
      /\ initial' = {m \in All \ {Self} : keys[m] # 0} /\ members = {} /\ main = Idle
  BY DEF DiscoverGet, Starting, tables, etcd
<1>2. NotTold(n)'
  BY <1>1 DEF Followed, NotTold
<1>3. \A op \in {"add", "del"} : ~Told(n, op)'
  <2>1. queue' \in Seq(Tasks) /\ stream' \in Seq({"add", "del"} \X All)
    BY <1>1 DEF Types
  <2>2. Silent(queue', n) /\ Silent(stream', n)
    BY <1>2 DEF NotTold
  <2>3. \A op \in {"add", "del"} : ~Says(queue', n, op) /\ ~Says(stream', n, op)
    BY <2>1, <2>2, OneReport
  <2> QED
    BY <2>3 DEF Told
<1>4. n \in initial' <=> keys'[n] # 0
  BY <1>1, Numbers
<1>5. n \notin members' /\ ~Handling(n, {"remember", "enter"})'
  BY <1>1 DEF Handling, Idle
<1> QED
  BY <1>2, <1>3, <1>4, <1>5 DEF Follows

\* The goroutine of a connection, which writes the member table beside the
\* main loop, leaves it following etcd: what it takes out it is about to delete.
LEMMA ConnFollows ==
    ASSUME Types, Starting, Joined, Queued, phase \in {"post", "loop"}, NEW c \in Conns,
           PostFrame(c) \/ Hangup(c) \/ Removal(c) \/ \E m \in Nodes : Connect(c, m),
           NEW n \in Nodes \cup Others, ~Marked({"unseen", "undeleted"}, n)', Follows(n)
    PROVE  Follows(n)'
<1> DEFINE Busy == Handling(n, {"remember", "enter"})
           Gone == Removing(n, {"forget", "delete"})
           SameTold == (NotTold(n)' <=> NotTold(n)) /\ \A o \in {"add", "del"} : Told(n, o)' <=> Told(n, o)
<1>1. ASSUME UNCHANGED <<queue, stream>> PROVE SameTold
  BY <1>1 DEF NotTold, Told
<1>2. ASSUME UNCHANGED <<main, owner>> PROVE Busy' <=> Busy
  BY <1>2 DEF Handling
<1>3. ASSUME NEW s, owner' = owner, st' = [st EXCEPT ![c] = s], owner[c] # n \/ st[c] \notin {"forget", "delete"} \/ s = "delete"
      PROVE  Gone => Gone'
  <2>1. \A d \in Conns : st'[d] = IF d = c THEN s ELSE st[d]
    BY <1>3 DEF Types
  <2> QED
    BY <1>3, <2>1 DEF Removing
<1>4. ASSUME NEW m \in Nodes, Connect(c, m) PROVE Follows(n)'
  <2>1. UNCHANGED <<initial, queue, main, members, keys, stream>>
    BY <1>4 DEF Connect, tables, etcd
  <2>2. st[c] = "new" /\ \A d \in Conns : d # c => st'[d] = st[d] /\ owner'[d] = owner[d]
    BY <1>4, NewConn
  <2>3. Gone => Gone'
    BY <2>2 DEF Removing
  <2>4. ASSUME Busy' PROVE Busy
    <3>1. main.at # "idle" /\ main.c \in Conns
      BY <2>1, <2>4 DEF Handling, Types
    <3>2. Shaking(main.c)
      BY <3>1 DEF Shaking, Handled
    <3>3. main.c # c
      BY <2>2, <3>1, <3>2 DEF Queued
    <3> QED
      BY <2>1, <2>2, <2>4, <3>1, <3>3 DEF Handling
  <2> QED
    BY <1>1, <2>1, <2>3, <2>4, StillFollows
<1>5. CASE PostFrame(c)
  <2>1. UNCHANGED <<initial, main, owner, members, keys, stream>>
          /\ st[c] = "open" /\ st' = [st EXCEPT ![c] = "posted"] /\ queue' = Append(queue, <<"shake", c>>)
    BY <1>5 DEF PostFrame, tables, etcd
  <2>2. SameTold
    BY <2>1, ShakeIsNoReport
  <2>3. Gone => Gone'
    BY <1>3, <2>1
  <2> QED
    BY <1>2, <2>1, <2>2, <2>3, StillFollows
<1>6. CASE Hangup(c)
  <2>1. UNCHANGED <<initial, queue, main, owner, members, keys, stream>>
          /\ st[c] = "posted" /\ st' = [st EXCEPT ![c] = "closed"]
    BY <1>6 DEF Hangup, tables, etcd
  <2>2. Gone => Gone'
    BY <1>3, <2>1
  <2> QED
    BY <1>1, <1>2, <2>1, <2>2, StillFollows
<1>7. CASE RemoveLocal(c)
  <2>1. UNCHANGED <<initial, queue, main, owner, members, keys, stream>>
          /\ st[c] = "closed" /\ \E s : st' = [st EXCEPT ![c] = s]
    BY <1>7 DEF RemoveLocal, etcd
  <2>2. Gone => Gone'
    BY <1>3, <2>1
  <2> QED
    BY <1>1, <1>2, <2>1, <2>2, StillFollows
<1>8. CASE RemoveMember(c)
  <2>1. UNCHANGED <<initial, queue, main, owner, keys, stream>> /\ members' = members \ {owner[c]}
          /\ st[c] = "table" /\ st' = [st EXCEPT ![c] = "forget"]
    BY <1>8, Steps DEF RemoveMember, Delete, etcd
  <2>2. Gone => Gone'
    BY <1>3, <2>1
  <2>3. owner[c] = n => Gone'
    BY <2>1 DEF Removing, Types
  <2>4. SameTold /\ (Busy' <=> Busy)
    BY <1>1, <1>2, <2>1
  <2> QED
    BY <2>1, <2>2, <2>3, <2>4 DEF Follows
<1>9. CASE ForgetNode(c)
  <2>1. UNCHANGED <<initial, queue, main, owner, members, keys, stream>>
          /\ st' = [st EXCEPT ![c] = "delete"]
    BY <1>9, Steps DEF ForgetNode, tables, etcd
  <2>2. Gone => Gone'
    BY <1>3, <2>1
  <2> QED
    BY <1>1, <1>2, <2>1, <2>2, StillFollows
<1>10. CASE DeleteNode(c)
  <2>1. UNCHANGED <<initial, phase, queue, main, owner, members>> /\ st' = [st EXCEPT ![c] = "ended"]
    BY <1>10, Steps DEF DeleteNode, tables
  <2>2. owner[c] \in All
    BY DEF Types, All
  <2>3. owner[c] # n => (Gone => Gone')
    BY <1>3, <2>1
  <2>4. Busy' <=> Busy
    BY <1>2, <2>1
  <2>5. CASE Fault /\ UNCHANGED etcd
    <3>1. faults' # faults
      BY <2>5, FaultCount DEF Types
    <3>2. <<"undeleted", owner[c]>> \in marks'
      BY <1>10, <3>1 DEF DeleteNode
    <3>3. owner[c] # n
      BY <3>2 DEF Marked
    <3> QED
      BY <1>1, <2>1, <2>3, <2>4, <2>5, <3>3, StillFollows DEF etcd
  <2>6. CASE DeleteKey(owner[c]) /\ UNCHANGED faults
    <3>1. PICK ns \in SUBSET All : ns = {owner[c]} \cap {m \in All : keys[m] # 0}
      OBVIOUS
    <3>2. Report("del", ns) /\ watch' = watch /\ keys' = [keys EXCEPT ![owner[c]] = 0]
      BY <2>6, <3>1 DEF DeleteKey
    <3>3. Unseen(ns) \subseteq marks'
      <4>1. Unseen({owner[c]}) \subseteq marks'
        BY <1>10, <2>6 DEF DeleteNode
      <4>2. Unseen(ns) \subseteq Unseen({owner[c]})
        BY <3>1 DEF Unseen
      <4> QED
        BY <4>1, <4>2
    <3>4. (n = owner[c] => keys'[n] = 0) /\ (n # owner[c] => keys'[n] = keys[n])
      BY <2>2, <3>2, Numbers DEF Types
    <3>5. (n \in ns => n = owner[c]) /\ (n \notin ns => (keys'[n] # 0 <=> keys[n] # 0))
      BY <2>2, <3>1, <3>4, Numbers
    <3>6. Gone => Gone' \/ keys'[n] = 0
      BY <2>3, <3>4
    <3> QED
      BY <2>1, <2>4, <3>2, <3>3, <3>4, <3>5, <3>6, KeyFollows
  <2> QED
    BY <1>10, <2>5, <2>6 DEF DeleteNode
<1> QED
  BY <1>4, <1>5, <1>6, <1>7, <1>8, <1>9, <1>10 DEF Removal

\* A handshake enters a node in the member table after its Put was reported.
LEMMA MainFollows ==
    ASSUME Types, Starting, Joined, phase = "loop", MainLoop, NEW n \in Nodes \cup Others,
           ~Marked({"unseen", "undeleted"}, n)', Follows(n)
    PROVE  Follows(n)'
<1> DEFINE Busy == Handling(n, {"remember", "enter"})
           Gone == Removing(n, {"forget", "delete"})
           SameTold == (NotTold(n)' <=> NotTold(n)) /\ \A o \in {"add", "del"} : Told(n, o)' <=> Told(n, o)
<1>1. ASSUME UNCHANGED <<queue, stream>> PROVE SameTold
  BY <1>1 DEF NotTold, Told
<1>2. ASSUME UNCHANGED <<st, owner>> PROVE Gone' <=> Gone
  BY <1>2 DEF Removing
<1>3. CASE TakeTask
  BY <1>3, TakeFollows
<1>4. CASE EnsureLease
  <2>1. UNCHANGED <<initial, queue, st, owner, members, keys, stream>>
    BY <1>4 DEF EnsureLease, tables
  <2>2. main' = Idle \/ main'.at = "put"
    BY <1>4 DEF EnsureLease, Refuse, Types
  <2>3. ~Busy'
    BY <2>2 DEF Idle, Handling
  <2> QED
    BY <1>1, <1>2, <2>1, <2>3, StillFollows
<1>5. CASE PutNode
  <2>1. UNCHANGED <<initial, phase, queue, st, owner, members>> /\ main.at = "put" /\ main.c \in Conns
          /\ main' \in {Idle, [main EXCEPT !.at = "remember"]}
    BY <1>5 DEF PutNode, Refuse, Types, tables
  <2>2. Busy' => owner[main.c] = n
    BY <2>1 DEF Handling, Idle, Types
  <2>3. CASE UNCHANGED etcd /\ Refuse
    <3>1. ~Busy'
      BY <2>3 DEF Refuse, Handling, Idle
    <3> QED
      BY <1>1, <1>2, <2>1, <2>3, <3>1, StillFollows DEF etcd
  <2>4. CASE main.l \in alive /\ PutKey(owner[main.c], main.l) /\ Unseen({owner[main.c]}) \subseteq marks'
    <3>1. PICK ns \in SUBSET All : ns = {owner[main.c]}
      <4>1. owner[main.c] \in All
        BY <2>1 DEF Types, All
      <4> QED
        BY <4>1
    <3>2. Report("add", ns) /\ watch' = watch /\ keys' = [keys EXCEPT ![owner[main.c]] = main.l]
      BY <2>4, <3>1 DEF PutKey
    <3>3. main.l # 0
      BY <2>4, Numbers DEF Types
    <3>4. (n \in ns => keys'[n] # 0) /\ (n \notin ns => keys'[n] = keys[n])
      BY <3>1, <3>2, <3>3, Numbers DEF Types
    <3>5. Gone' <=> Gone
      BY <1>2, <2>1
    <3> QED
      BY <2>1, <2>2, <2>4, <3>1, <3>2, <3>4, <3>5, KeyFollows
  <2>5. \A b : Unseen({owner[main.c]}) \cap Republished(owner[main.c], b) = {}
    BY DEF Unseen, Republished, Lost
  <2> QED
    BY <1>5, <2>3, <2>4, <2>5 DEF PutNode
<1>6. CASE RememberNode
  <2>1. UNCHANGED <<initial, queue, st, owner, members, keys, stream>> /\ main.at = "remember"
    BY <1>6 DEF RememberNode, conns, tables, etcd
  <2>2. Busy' => Busy
    BY <1>6 DEF RememberNode, Handling, Types, conns
  <2> QED
    BY <1>1, <1>2, <2>1, <2>2, StillFollows
<1>7. CASE FinishHandshake
  <2>1. UNCHANGED <<initial, queue, st, owner, keys, stream>> /\ main.at = "enter"
          /\ members' = members \cup {owner[main.c]} /\ main' = Idle
    BY <1>7 DEF FinishHandshake, Upsert, etcd
  <2>2. ~Busy'
    BY <2>1 DEF Handling, Idle
  <2>3. n = owner[main.c] => Busy
    BY <2>1 DEF Handling
  <2>4. SameTold /\ (Gone' <=> Gone)
    BY <1>1, <1>2, <2>1
  <2> QED
    BY <2>1, <2>2, <2>3, <2>4 DEF Follows
<1> QED
  BY <1>3, <1>4, <1>5, <1>6, <1>7 DEF MainLoop

\* The reports of a step of etcd or of a recovery keep the member table following.
LEMMA EtcdFollows ==
    ASSUME Types, Starting, phase \in {"post", "loop"}, NEW n \in Nodes \cup Others,
           ~Marked({"unseen", "undeleted"}, n)', Follows(n),
           \/ KeepaliveFails \/ RecoverLease \/ RecoverPut
           \/ \E l \in Leases : Expire(l)
           \/ \E m \in Others : OtherChange(m)
    PROVE  Follows(n)'
<1> DEFINE Busy == Handling(n, {"remember", "enter"})
           Gone == Removing(n, {"forget", "delete"})
<1>1. /\ UNCHANGED <<initial, phase, queue, main, st, owner, members>>
      /\ (Busy' <=> Busy) /\ (Gone' <=> Gone)
  <2>1. UNCHANGED <<initial, phase, queue, main, st, owner, members>>
    BY DEF KeepaliveFails, RecoverLease, RecoverPut, Expire, OtherChange, conns, tables
  <2> QED
    BY <2>1 DEF Handling, Removing
<1>2. ASSUME UNCHANGED <<keys, stream>> PROVE Follows(n)'
  <2>1. (NotTold(n)' <=> NotTold(n)) /\ \A o \in {"add", "del"} : Told(n, o)' <=> Told(n, o)
    BY <1>1, <1>2 DEF NotTold, Told
  <2> QED
    BY <1>1, <1>2, <2>1, StillFollows
<1>3. ASSUME NEW m \in All, NEW l, l # 0, PutKey(m, l), Unseen({m}) \subseteq marks' PROVE Follows(n)'
  <2>1. PICK ns \in SUBSET All : ns = {m}
    OBVIOUS
  <2>2. Report("add", ns) /\ watch' = watch /\ keys' = [keys EXCEPT ![m] = l]
    BY <1>3, <2>1 DEF PutKey
  <2>3. (n \in ns => keys'[n] # 0) /\ (n \notin ns => keys'[n] = keys[n])
    BY <1>3, <2>1, <2>2, Numbers DEF Types
  <2> QED
    BY <1>1, <1>3, <2>1, <2>2, <2>3, KeyFollows
<1>4. ASSUME NEW ns \in SUBSET All, Report("del", ns), watch' = watch, Unseen(ns) \subseteq marks',
             \A m \in ns : keys'[m] = 0, \A m \in All \ ns : keys'[m] = keys[m]
      PROVE  Follows(n)'
  <2>1. n \in All
    BY DEF All
  <2>2. (n \in ns => keys'[n] = 0) /\ (n \notin ns => (keys'[n] # 0 <=> keys[n] # 0))
    BY <1>4, <2>1
  <2> QED
    BY <1>1, <1>4, <2>2, KeyFollows
<1>5. CASE KeepaliveFails \/ RecoverLease
  BY <1>2, <1>5 DEF KeepaliveFails, RecoverLease, etcd
<1>6. CASE RecoverPut
  <2>1. CASE UNCHANGED etcd
    BY <1>2, <2>1 DEF etcd
  <2>2. ASSUME NEW m \in ka.todo, ka.l \in alive, PutKey(m, ka.l),
               (marks \cup Unseen({m})) \ Republished(m, m \in registered) \subseteq marks'
        PROVE  Follows(n)'
    <3>1. m \in All /\ ka.l # 0
      BY <2>2, Numbers DEF Types, All
    <3>2. Unseen({m}) \cap Republished(m, m \in registered) = {}
      BY DEF Unseen, Republished, Lost
    <3>3. Unseen({m}) \subseteq marks'
      BY <2>2, <3>2
    <3> QED
      BY <1>3, <2>2, <3>1, <3>3
  <2> QED
    BY <1>6, <2>1, <2>2 DEF RecoverPut
<1>7. ASSUME NEW l \in Leases, Expire(l) PROVE Follows(n)'
  <2>1. PICK ns \in SUBSET All : ns = {m \in All : keys[m] = l}
    OBVIOUS
  <2>2. /\ keys' = [m \in All |-> IF m \in ns THEN 0 ELSE keys[m]]
        /\ Report("del", ns) /\ watch' = watch /\ Unseen(ns) \subseteq marks'
    BY <1>7, <2>1 DEF Expire
  <2>3. (\A m \in ns : keys'[m] = 0) /\ \A m \in All \ ns : keys'[m] = keys[m]
    BY <2>2
  <2> QED
    BY <1>4, <2>2, <2>3
<1>8. ASSUME NEW m \in Others, OtherChange(m) PROVE Follows(n)'
  <2>1. m \in All /\ Unseen({m}) \subseteq marks'
    BY <1>8 DEF OtherChange, All
  <2>2. CASE keys[m] = 0 /\ PutKey(m, ForeignLease)
    BY <1>3, <2>1, <2>2, Numbers
  <2>3. CASE keys[m] # 0 /\ DeleteKey(m)
    <3>1. PICK ns \in SUBSET All : ns = {m}
      BY <2>1
    <3>2. {m} \cap {x \in All : keys[x] # 0} = ns
      BY <2>1, <2>3, <3>1
    <3>3. Report("del", ns) /\ watch' = watch /\ keys' = [keys EXCEPT ![m] = 0] /\ Unseen(ns) \subseteq marks'
      BY <2>1, <2>3, <3>1, <3>2 DEF DeleteKey
    <3>4. (\A x \in ns : keys'[x] = 0) /\ \A x \in All \ ns : keys'[x] = keys[x]
      BY <2>1, <3>1, <3>3 DEF Types
    <3> QED
      BY <1>4, <3>3, <3>4
  <2> QED
    BY <1>8, <2>2, <2>3 DEF OtherChange
<1> QED
  BY <1>5, <1>6, <1>7, <1>8

\* Every step keeps the member table following etcd.
LEMMA FollowedStep ==
    ASSUME Types, Starting, Starting', Joined, Queued, Followed, Next
    PROVE  Followed'
<1>1. ASSUME phase' \in {"register", "get"}, NEW n \in Nodes \cup Others PROVE NotTold(n)'
  BY <1>1, NothingTold
<1>2. ASSUME phase' \in {"post", "loop"}, NEW n \in Nodes \cup Others, ~Marked({"unseen", "undeleted"}, n)'
      PROVE  Follows(n)'
  <2>1. CASE RegisterSelf
    BY <1>2, <2>1 DEF RegisterSelf
  <2>2. CASE DiscoverGet
    BY <1>2, <2>2, GetFollows DEF DiscoverGet
  <2>3. ASSUME phase \in {"post", "loop"} PROVE Follows(n)
    <3>1. "unseen" \notin Lost /\ "undeleted" \notin Lost
      BY DEF Lost
    <3>2. ~Marked({"unseen", "undeleted"}, n)
      BY <1>2, <3>1, MarksStay DEF Marked
    <3> QED
      BY <2>3, <3>2 DEF Followed
  <2>4. CASE DiscoverPost
    <3>1. phase = "post"
      BY <2>4 DEF DiscoverPost
    <3> QED
      BY <2>3, <2>4, <3>1, DiscoverFollows
  <2>5. CASE StartWatch
    <3>1. UNCHANGED <<phase, initial, queue, main, st, owner, members, keys, stream>>
      BY <2>5 DEF StartWatch, conns, tables
    <3>2. /\ Removing(n, {"forget", "delete"}) <=> Removing(n, {"forget", "delete"})'
          /\ Handling(n, {"remember", "enter"})' <=> Handling(n, {"remember", "enter"})
          /\ NotTold(n)' <=> NotTold(n)
          /\ \A o \in {"add", "del"} : Told(n, o)' <=> Told(n, o)
      BY <3>1 DEF Removing, Handling, NotTold, Told
    <3> QED
      BY <1>2, <2>3, <3>1, <3>2, StillFollows
  <2>6. CASE WatchPost
    <3>1. UNCHANGED <<phase, initial, main, st, owner, members, keys>>
      BY <2>6 DEF WatchPost, conns, tables
    <3>2. /\ Removing(n, {"forget", "delete"}) <=> Removing(n, {"forget", "delete"})'
          /\ Handling(n, {"remember", "enter"})' <=> Handling(n, {"remember", "enter"})
      BY <3>1 DEF Removing, Handling
    <3>3. /\ NotTold(n)' <=> NotTold(n)
          /\ \A o \in {"add", "del"} : Told(n, o)' <=> Told(n, o)
      BY <2>6, Posted
    <3> QED
      BY <1>2, <2>3, <3>1, <3>2, <3>3, StillFollows
  <2>7. ASSUME NEW c \in Conns, PostFrame(c) \/ Hangup(c) \/ Removal(c) \/ \E m \in Nodes : Connect(c, m)
        PROVE  Follows(n)'
    <3>1. phase' = phase
      BY <2>7 DEF PostFrame, Hangup, Removal, RemoveLocal, RemoveMember, ForgetNode, DeleteNode, Connect
    <3> QED
      BY <1>2, <2>3, <2>7, <3>1, ConnFollows
  <2>8. CASE MainLoop
    <3>1. phase' = phase
      BY <2>8 DEF MainLoop, TakeTask, EnsureLease, PutNode, RememberNode, FinishHandshake
    <3>2. phase = "loop"
      BY <2>8 DEF MainLoop, TakeTask, EnsureLease, PutNode, RememberNode, FinishHandshake, Starting, Idle
    <3> QED
      BY <1>2, <2>3, <2>8, <3>2, MainFollows
  <2>9. CASE KeepaliveFails \/ RecoverLease \/ RecoverPut \/ (\E l \in Leases : Expire(l))
               \/ \E m \in Others : OtherChange(m)
    <3>1. phase' = phase
      BY <2>9 DEF KeepaliveFails, RecoverLease, RecoverPut, Expire, OtherChange
    <3> QED
      BY <1>2, <2>3, <2>9, <3>1, EtcdFollows
  <2>10. CASE CloseWatch
    <3>1. phase' = phase
      BY <2>10 DEF CloseWatch
    <3> QED
      BY <1>2, <2>3, <2>10, <3>1, CloseFollows
  <2> QED
    BY <2>1, <2>2, <2>4, <2>5, <2>6, <2>7, <2>8, <2>9, <2>10 DEF Next, Start
<1> QED
  BY <1>1, <1>2 DEF Followed

-----------------------------------------------------------------------------
(* Keys and registered nodes are accounted for *)

\* While a connection is made nothing else is: the handshake that the main
\* loop handles belongs to an earlier one.
LEMMA ConnectApart ==
    ASSUME Types, Joined, Queued, NEW c \in Conns, NEW m \in Nodes, Connect(c, m), NEW n,
           NEW steps, "idle" \notin steps
    PROVE  /\ Handling(n, steps)' <=> Handling(n, steps)
           /\ \A s : "new" \notin s /\ "open" \notin s => (Removing(n, s)' <=> Removing(n, s))
<1>1. st[c] = "new" /\ st'[c] = "open" /\ \A d \in Conns : d # c => st'[d] = st[d] /\ owner'[d] = owner[d]
  BY NewConn
<1>2. main' = main
  BY DEF Connect
<1>3. ASSUME main.at # "idle" PROVE main.c \in Conns /\ main.c # c
  <2>1. main.c \in Conns
    BY <1>3 DEF Types
  <2>2. Shaking(main.c)
    BY <1>3 DEF Shaking, Handled
  <2> QED
    BY <1>1, <2>1, <2>2 DEF Queued
<1>4. Handling(n, steps)' <=> Handling(n, steps)
  BY <1>1, <1>2, <1>3 DEF Handling
<1>5. \A s : "new" \notin s /\ "open" \notin s => (Removing(n, s)' <=> Removing(n, s))
  BY <1>1 DEF Removing
<1> QED
  BY <1>4, <1>5

\* A connection that moves on, and stays at one of the steps s if it was at one,
\* takes no node out of those whose removal is at one of them.
LEMMA RemovingMoves ==
    ASSUME Types, NEW c \in Conns, NEW t, st' = [st EXCEPT ![c] = t], owner' = owner,
           NEW s, st[c] \in s => t \in s, NEW n
    PROVE  Removing(n, s) => Removing(n, s)'
<1>1. \A d \in Conns : st'[d] = IF d = c THEN t ELSE st[d]
  BY DEF Types
<1> QED
  BY <1>1 DEF Removing

\* A node stays accounted for through a step that takes no reason away.
LEMMA StillAccounts ==
    ASSUME Next, NEW n, Accounts(n), n \in registered' => n \in registered, keys'[n] # 0 => keys[n] # 0,
           localConns[n] # NoConn => localConns'[n] # NoConn,
           \A s \in {{"table", "forget"}, {"table", "forget", "delete"}} : Removing(n, s) => Removing(n, s)',
           \A s \in {{"enter"}, {"remember", "enter"}} : Handling(n, s) => Handling(n, s)'
    PROVE  Accounts(n)'
<1>1. Marked({"late", "ambiguous", "undeleted", "resurrected"}, n) =>
        Marked({"late", "ambiguous", "undeleted", "resurrected"}, n)'
  BY MarksStay DEF Marked, Lost
<1> QED
  BY <1>1 DEF Accounts

\* Whatever registers a node or puts its key also sees to it that removeConn
\* will forget and delete it, but for the cases that are marked.
LEMMA AccountedStep ==
    ASSUME Types, Types', Starting, Granted, Joined, Queued, Accounted, Next
    PROVE  Accounted'
<1>1. SUFFICES ASSUME NEW n \in Nodes PROVE Accounts(n)'
  BY DEF Accounted
<1>2. Accounts(n) /\ n \in All /\ n # Self
  BY Numbers DEF Accounted
<1> DEFINE Stays == \A s \in {{"table", "forget"}, {"table", "forget", "delete"}} : Removing(n, s) => Removing(n, s)'
           Busy == \A s \in {{"enter"}, {"remember", "enter"}} : Handling(n, s) => Handling(n, s)'
<1>3. ASSUME UNCHANGED <<st, owner>> PROVE Stays
  BY <1>3 DEF Removing
<1>4. ASSUME UNCHANGED <<main, owner>> PROVE Busy
  BY <1>4 DEF Handling
<1>5. ASSUME NEW c \in Conns, NEW t, st' = [st EXCEPT ![c] = t], owner' = owner,
             st[c] \notin {"table", "forget", "delete"} \/ (st[c] = "table" /\ t = "forget")
      PROVE  Stays
  BY <1>5, RemovingMoves
<1>6. CASE Start \/ StartWatch \/ WatchPost
  <2>1. UNCHANGED <<st, owner, main, localConns>>
    BY <1>6 DEF Start, RegisterSelf, DiscoverGet, DiscoverPost, StartWatch, WatchPost, conns, tables
  <2>2. n \in registered' => n \in registered
    BY <1>2, <1>6 DEF Start, RegisterSelf, DiscoverGet, DiscoverPost, StartWatch, WatchPost, registry
  <2>3. keys'[n] = keys[n]
    BY <1>2, <1>6 DEF Start, RegisterSelf, DiscoverGet, DiscoverPost, StartWatch, WatchPost, etcd, Types
  <2> QED
    BY <1>2, <1>3, <1>4, <2>1, <2>2, <2>3, StillAccounts
<1>7. ASSUME NEW c \in Conns, NEW m \in Nodes, Connect(c, m) PROVE Accounts(n)'
  <2>1. UNCHANGED <<localConns, registered, keys>>
    BY <1>7 DEF Connect, tables, registry, etcd
  <2>2. Stays /\ Busy
    BY <1>7, ConnectApart
  <2> QED
    BY <1>2, <2>1, <2>2, StillAccounts
<1>8. ASSUME NEW c \in Conns, PostFrame(c) \/ Hangup(c) PROVE Accounts(n)'
  <2>1. UNCHANGED <<localConns, registered, keys, main, owner>>
    BY <1>8 DEF PostFrame, Hangup, tables, registry, etcd
  <2>2. st[c] \in {"open", "posted"} /\ \E t : st' = [st EXCEPT ![c] = t]
    BY <1>8 DEF PostFrame, Hangup
  <2>3. Stays
    BY <1>5, <2>1, <2>2
  <2> QED
    BY <1>2, <1>4, <2>1, <2>3, StillAccounts
<1>9. ASSUME NEW c \in Conns, RemoveLocal(c) PROVE Accounts(n)'
  <2>1. UNCHANGED <<registered, keys, main, owner>> /\ st[c] = "closed" /\ \E t : st' = [st EXCEPT ![c] = t]
    BY <1>9 DEF RemoveLocal, registry, etcd
  <2>2. Stays
    BY <1>5, <2>1
  <2>3. CASE localConns'[n] = localConns[n]
    BY <1>2, <1>4, <2>1, <2>2, <2>3, StillAccounts
  <2>4. CASE localConns'[n] # localConns[n]
    <3>1. owner[c] = n /\ st' = [st EXCEPT ![c] = "table"]
      BY <1>9, <2>4, Steps DEF RemoveLocal, Types
    <3>2. Removing(n, {"table", "forget"})' /\ Removing(n, {"table", "forget", "delete"})'
      BY <2>1, <3>1 DEF Removing, Types
    <3> QED
      BY <3>2 DEF Accounts
  <2> QED
    BY <2>3, <2>4
<1>10. ASSUME NEW c \in Conns, RemoveMember(c) PROVE Accounts(n)'
  <2>1. UNCHANGED <<localConns, registered, keys, main, owner>> /\ st[c] = "table" /\ st' = [st EXCEPT ![c] = "forget"]
    BY <1>10, Steps DEF RemoveMember, registry, etcd
  <2>2. Stays
    BY <1>5, <2>1
  <2> QED
    BY <1>2, <1>4, <2>1, <2>2, StillAccounts
<1>11. ASSUME NEW c \in Conns, ForgetNode(c) PROVE Accounts(n)'
  <2>1. /\ UNCHANGED <<localConns, keys, main, owner>> /\ registered' = registered \ {owner[c]}
        /\ st[c] = "forget" /\ st' = [st EXCEPT ![c] = "delete"]
    BY <1>11, Steps DEF ForgetNode, Forget, tables, etcd
  <2>2. \A d \in Conns : st'[d] = IF d = c THEN "delete" ELSE st[d]
    BY <2>1 DEF Types
  <2>3. Removing(n, {"table", "forget", "delete"}) => Removing(n, {"table", "forget", "delete"})'
    BY <2>1, <2>2 DEF Removing
  <2>4. owner[c] # n => (Removing(n, {"table", "forget"}) => Removing(n, {"table", "forget"})')
    BY <2>1, <2>2 DEF Removing
  <2>5. CASE owner[c] # n
    BY <1>2, <1>4, <2>1, <2>3, <2>4, <2>5, StillAccounts
  <2>6. CASE owner[c] = n
    <3>1. n \notin registered'
      BY <2>1, <2>6
    <3>2. Marked({"late", "ambiguous", "undeleted", "resurrected"}, n) =>
            Marked({"late", "ambiguous", "undeleted", "resurrected"}, n)'
      BY <1>11 DEF ForgetNode, Marked
    <3>3. Handling(n, {"remember", "enter"}) => Handling(n, {"remember", "enter"})'
      BY <1>4, <2>1
    <3> QED
      BY <1>2, <2>1, <2>3, <3>1, <3>2, <3>3 DEF Accounts
  <2> QED
    BY <2>5, <2>6
<1>12. ASSUME NEW c \in Conns, DeleteNode(c) PROVE Accounts(n)'
  <2>1. /\ UNCHANGED <<localConns, registered, main, owner>>
        /\ st[c] = "delete" /\ st' = [st EXCEPT ![c] = "ended"]
    BY <1>12, Steps DEF DeleteNode, tables, registry
  <2>2. \A d \in Conns : st'[d] = IF d = c THEN "ended" ELSE st[d]
    BY <2>1 DEF Types
  <2>3. Removing(n, {"table", "forget"}) => Removing(n, {"table", "forget"})'
    BY <2>1, <2>2 DEF Removing
  <2>4. owner[c] # n => (Removing(n, {"table", "forget", "delete"}) => Removing(n, {"table", "forget", "delete"})')
    BY <2>1, <2>2 DEF Removing
  <2>5. \/ DeleteKey(owner[c])
        \/ UNCHANGED keys /\ <<"undeleted", owner[c]>> \in marks'
    <3>1. Fault => faults' # faults
      BY FaultCount DEF Types
    <3> QED
      BY <1>12, <3>1 DEF DeleteNode, etcd
  <2>6. owner[c] # n => keys'[n] = keys[n]
    BY <1>2, <2>5 DEF DeleteKey, Types
  <2>7. CASE owner[c] # n
    BY <1>2, <1>4, <2>1, <2>3, <2>4, <2>6, <2>7, StillAccounts
  <2>8. CASE owner[c] = n
    <3>1. keys'[n] = 0 \/ Marked({"late", "ambiguous", "undeleted", "resurrected"}, n)'
      BY <1>2, <2>5, <2>8 DEF DeleteKey, Marked, Types
    <3>2. Handling(n, {"enter"}) => Handling(n, {"enter"})'
      BY <1>4, <2>1
    <3> QED
      BY <1>2, <2>1, <2>3, <3>1, <3>2 DEF Accounts
  <2> QED
    BY <2>7, <2>8
<1>13. CASE TakeTask \/ EnsureLease
  <2>1. UNCHANGED <<localConns, registered, keys, st, owner>> /\ main.at \in {"idle", "ensure"}
    BY <1>13 DEF TakeTask, EnsureLease, conns, registry, etcd, tables
  <2>2. Busy
    BY <2>1 DEF Handling
  <2> QED
    BY <1>2, <1>3, <2>1, <2>2, StillAccounts
<1>14. CASE PutNode
  <2>1. UNCHANGED <<localConns, registered, st, owner>> /\ main.at = "put" /\ main.c \in Conns
    BY <1>14 DEF PutNode, registry, tables, Types
  <2>2. Busy
    BY <2>1 DEF Handling
  <2>3. CASE keys'[n] = keys[n]
    BY <1>2, <1>3, <2>1, <2>2, <2>3, StillAccounts
  <2>4. CASE keys'[n] # keys[n]
    <3>1. owner[main.c] = n
      BY <1>2, <1>14, <2>4 DEF PutNode, PutKey, etcd, Types
    <3>2. \/ main' = [main EXCEPT !.at = "remember"]
          \/ <<"ambiguous", owner[main.c]>> \in marks'
      BY <1>14, <2>4 DEF PutNode, etcd
    <3>3. \/ Handling(n, {"remember", "enter"})'
          \/ Marked({"late", "ambiguous", "undeleted", "resurrected"}, n)'
      BY <2>1, <3>1, <3>2 DEF Handling, Marked, Types
    <3>4. (Removing(n, {"table", "forget"}) => Removing(n, {"table", "forget"})') /\ ~Handling(n, {"enter"})
      BY <1>3, <2>1 DEF Handling
    <3> QED
      BY <1>2, <2>1, <3>3, <3>4 DEF Accounts
  <2> QED
    BY <2>3, <2>4
<1>15. CASE RememberNode
  <2>1. /\ UNCHANGED <<localConns, keys, st, owner>> /\ main.at = "remember"
        /\ registered' = registered \cup {owner[main.c]} /\ main' = [main EXCEPT !.at = "enter"]
    BY <1>15 DEF RememberNode, conns, tables, etcd
  <2>2. main'.at = "enter" /\ main'.c = main.c
    BY <2>1 DEF Types
  <2>3. Busy
    BY <2>1, <2>2 DEF Handling
  <2>4. CASE owner[main.c] # n
    BY <1>2, <1>3, <2>1, <2>3, <2>4, StillAccounts
  <2>5. CASE owner[main.c] = n
    <3>1. Handling(n, {"enter"})' /\ Handling(n, {"remember", "enter"})'
      BY <2>1, <2>2, <2>5 DEF Handling
    <3> QED
      BY <3>1 DEF Accounts
  <2> QED
    BY <2>4, <2>5
<1>16. CASE FinishHandshake
  <2>1. /\ UNCHANGED <<registered, keys, st, owner>> /\ main.c \in Conns
        /\ localConns' = [localConns EXCEPT ![owner[main.c]] = main.c]
    BY <1>16 DEF FinishHandshake, registry, etcd, Types
  <2>2. CASE owner[main.c] = n
    <3>1. localConns'[n] # NoConn
      BY <2>1, <2>2, Numbers DEF Types
    <3> QED
      BY <3>1 DEF Accounts
  <2>3. CASE owner[main.c] # n
    <3>1. localConns'[n] = localConns[n] /\ Busy
      BY <2>1, <2>3 DEF Types, Handling
    <3> QED
      BY <1>2, <1>3, <2>1, <3>1, StillAccounts
  <2> QED
    BY <2>2, <2>3
<1>17. CASE KeepaliveFails \/ RecoverLease \/ CloseWatch
  <2>1. UNCHANGED <<localConns, registered, keys, st, owner, main>>
    BY <1>17 DEF KeepaliveFails, RecoverLease, CloseWatch, conns, tables, registry, etcd
  <2> QED
    BY <1>2, <1>3, <1>4, <2>1, StillAccounts
<1>18. CASE RecoverPut
  <2>1. UNCHANGED <<localConns, registered, st, owner, main>>
    BY <1>18 DEF RecoverPut, conns, tables
  <2>2. CASE keys'[n] = keys[n]
    BY <1>2, <1>3, <1>4, <2>1, <2>2, StillAccounts
  <2>3. CASE keys'[n] # keys[n]
    <3>1. PICK m \in ka.todo : /\ PutKey(m, ka.l)
                               /\ (IF m \notin registered THEN {<<"resurrected", m>>} ELSE {}) \subseteq marks'
      BY <1>18, <2>3 DEF RecoverPut, etcd
    <3>2. m = n
      BY <1>2, <2>3, <3>1 DEF PutKey, Types
    <3>3. Stays /\ Busy
      BY <1>3, <1>4, <2>1
    <3>4. CASE n \notin registered
      <4>1. Marked({"late", "ambiguous", "undeleted", "resurrected"}, n)'
        BY <3>1, <3>2, <3>4 DEF Marked
      <4> QED
        BY <2>1, <3>4, <4>1 DEF Accounts
    <3>5. CASE n \in registered
      <4>1. /\ Removing(n, {"table", "forget"})' => Removing(n, {"table", "forget", "delete"})'
            /\ Handling(n, {"enter"})' => Handling(n, {"remember", "enter"})'
        BY DEF Removing, Handling
      <4> QED
        BY <1>2, <2>1, <3>3, <3>5, <4>1 DEF Accounts
    <3> QED
      BY <3>4, <3>5
  <2> QED
    BY <2>2, <2>3
<1>19. CASE (\E l \in Leases : Expire(l)) \/ (\E m \in Others : OtherChange(m))
  <2>1. UNCHANGED <<localConns, registered, st, owner, main>>
    BY <1>19 DEF Expire, OtherChange, conns, tables, registry
  <2>2. keys'[n] # 0 => keys[n] # 0
    <3>1. ASSUME NEW l \in Leases, Expire(l) PROVE keys'[n] \in {0, keys[n]}
      BY <1>2, <3>1 DEF Expire
    <3>2. ASSUME NEW m \in Others, OtherChange(m) PROVE keys'[n] = keys[n]
      BY <1>2, <3>2, Numbers DEF OtherChange, PutKey, DeleteKey, Types
    <3> QED
      BY <1>19, <3>1, <3>2
  <2> QED
    BY <1>2, <1>3, <1>4, <2>1, <2>2, StillAccounts
<1> QED
  BY <1>6, <1>7, <1>8, <1>9, <1>10, <1>11, <1>12, <1>13, <1>14, <1>15, <1>16, <1>17, <1>18, <1>19
  DEF Next, MainLoop, Removal

-----------------------------------------------------------------------------
(* Nodes in service are published *)

\* The node whose handshake is under way is not in service yet.
LEMMA NotServed ==
    ASSUME Types, Joined, Queued, Entered, InTurn, main.at # "idle"
    PROVE  owner[main.c] \in Nodes /\ ~Served(owner[main.c])
<1>1. main.c \in Conns /\ Shaking(main.c)
  BY DEF Types, Shaking, Handled
<1>2. st[main.c] # "new" /\ localConns[owner[main.c]] # main.c
  BY <1>1 DEF Queued
<1>3. owner[main.c] \in Nodes
  BY <1>1, <1>2 DEF Joined, Connected
<1>4. ASSUME localConns[owner[main.c]] # NoConn, Open(localConns[owner[main.c]]) PROVE FALSE
  <2>1. PICK d \in Conns : d = localConns[owner[main.c]]
    BY <1>3, <1>4 DEF Types
  <2>2. owner[d] = owner[main.c]
    BY <1>3, <1>4, <2>1 DEF Entered
  <2> QED
    BY <1>1, <1>2, <1>4, <2>1, <2>2 DEF InTurn
<1> QED
  BY <1>3, <1>4, Numbers DEF Served

\* A node stays published through a step that takes nothing away.
LEMMA StillPublishes ==
    ASSUME NEW n, Publishes(n), Marked(Lost, n) => Marked(Lost, n)',
           Removing(n, {"delete"}) => Removing(n, {"delete"})',
           n \in registered => n \in registered' /\ (Good(n) => Good(n)'), UNCHANGED ka
    PROVE  Publishes(n)'
BY DEF Publishes

\* Marks that a step adds to keep what was marked.
LEMMA MoreMarks ==
    ASSUME marks \subseteq marks', NEW causes, NEW n, Marked(causes, n)
    PROVE  Marked(causes, n)'
BY DEF Marked

\* The start and the connections publish and withdraw nothing before DeleteNode,
\* which marks a node that is in use again.
LEMMA ConnPublishes ==
    ASSUME Types, Starting, Joined, Queued, Entered, Published, Next, NEW c \in Conns,
           PostFrame(c) \/ Hangup(c) \/ Removal(c) \/ \E m \in Nodes : Connect(c, m)
    PROVE  Published'
<1> DEFINE Put(n) == Handling(n, {"remember"}) /\ main.l = lease
<1>1. SUFFICES ASSUME NEW n \in Nodes \cup {Self}
      PROVE  (InService(n)' => Publishes(n)') /\ (Put(n)' => Good(n)' \/ Marked(Lost, n)')
  BY DEF Published
<1>2. (InService(n) => Publishes(n)) /\ (Put(n) => Good(n) \/ Marked(Lost, n))
  BY DEF Published
<1>3. ASSUME UNCHANGED <<lease, alive, keys>> PROVE Good(n)' <=> Good(n)
  BY <1>3 DEF Good
<1>4. marks \subseteq marks'
  BY DEF PostFrame, Hangup, Removal, RemoveLocal, RemoveMember, ForgetNode, DeleteNode, Connect
<1>5. Marked(Lost, n) => Marked(Lost, n)'
  BY <1>4, MoreMarks
<1>6. UNCHANGED <<phase, main, ka, lease>>
  BY DEF PostFrame, Hangup, Removal, RemoveLocal, RemoveMember, ForgetNode, DeleteNode, Connect, registry
<1>7. ASSUME UNCHANGED owner, \A d \in Conns : Open(d)' => Open(d), \A m \in Nodes : localConns'[m] \in {localConns[m], NoConn}
      PROVE  (InService(n)' => InService(n)) /\ (Put(n)' => Put(n))
  <2>1. n \in Nodes /\ Served(n)' => Served(n)
    BY <1>7, Numbers DEF Served, Types
  <2>2. Handling(n, {"enter"})' => Handling(n, {"enter"})
    BY <1>6, <1>7 DEF Handling
  <2> QED
    BY <1>6, <1>7, <2>1, <2>2 DEF InService, Handling
<1>8. ASSUME NEW t, UNCHANGED owner, st' = [st EXCEPT ![c] = t], t \in {"open", "posted"} => Open(c)
      PROVE  \A d \in Conns : Open(d)' => Open(d)
  <2>1. \A d \in Conns : st'[d] = IF d = c THEN t ELSE st[d]
    BY <1>8 DEF Types
  <2> QED
    BY <1>8, <2>1 DEF Open
<1>9. ASSUME NEW m \in Nodes, Connect(c, m)
      PROVE  (InService(n)' => Publishes(n)') /\ (Put(n)' => Good(n)' \/ Marked(Lost, n)')
  <2>1. UNCHANGED <<localConns, registered, keys, alive>>
    BY <1>9 DEF Connect, tables, registry, etcd
  <2>2. (Handling(n, {"enter"})' <=> Handling(n, {"enter"})) /\ (Handling(n, {"remember"})' <=> Handling(n, {"remember"}))
    BY <1>9, ConnectApart
  <2>3. Removing(n, {"delete"})' <=> Removing(n, {"delete"})
    BY <1>9, ConnectApart
  <2>4. n \in Nodes /\ Served(n)' => Served(n)
    <3>1. SUFFICES ASSUME n \in Nodes, Served(n)' PROVE Served(n)
      OBVIOUS
    <3>2. localConns[n] # NoConn /\ Open(localConns[n])'
      BY <2>1, <3>1, Numbers DEF Served
    <3>3. PICK d \in Conns : d = localConns[n]
      BY <3>1, <3>2 DEF Types
    <3>4. st[d] # "new"
      BY <3>1, <3>2, <3>3 DEF Entered
    <3>5. st'[d] = st[d]
      BY <1>9, <3>4, NewConn
    <3>6. localConns' [n] = d /\ Open(d)'
      BY <2>1, <3>2, <3>3 DEF Open
    <3> QED
      BY <3>2, <3>3, <3>5, <3>6 DEF Served, Open
  <2>5. Good(n)' <=> Good(n)
    BY <1>3, <1>6, <2>1
  <2>6. (InService(n)' => InService(n)) /\ (Put(n)' => Put(n))
    BY <1>6, <2>2, <2>4 DEF InService, Handling
  <2> QED
    BY <1>2, <1>5, <1>6, <2>1, <2>3, <2>5, <2>6, StillPublishes
<1>10. CASE PostFrame(c) \/ Hangup(c) \/ RemoveLocal(c) \/ RemoveMember(c)
  <2>1. UNCHANGED <<registered, keys, alive, owner>>
    BY <1>10 DEF PostFrame, Hangup, RemoveLocal, RemoveMember, registry, etcd
  <2>2. \E t : /\ st' = [st EXCEPT ![c] = t] /\ st[c] # "delete"
               /\ t \in {"open", "posted"} => Open(c)
    BY <1>10, Steps DEF PostFrame, Hangup, RemoveLocal, RemoveMember, Open
  <2>3. \A m \in Nodes : localConns'[m] \in {localConns[m], NoConn}
    BY <1>10 DEF PostFrame, Hangup, RemoveLocal, RemoveMember, tables, Types
  <2>4. Removing(n, {"delete"}) => Removing(n, {"delete"})'
    BY <2>1, <2>2, RemovingMoves
  <2>5. \A d \in Conns : Open(d)' => Open(d)
    BY <1>8, <2>1, <2>2
  <2>6. (InService(n)' => InService(n)) /\ (Put(n)' => Put(n))
    BY <1>7, <2>1, <2>3, <2>5
  <2>7. Good(n)' <=> Good(n)
    BY <1>3, <1>6, <2>1
  <2> QED
    BY <1>2, <1>5, <1>6, <2>1, <2>4, <2>6, <2>7, StillPublishes
<1>11. CASE ForgetNode(c)
  <2>1. /\ UNCHANGED <<localConns, keys, alive, owner>> /\ registered' = registered \ {owner[c]}
        /\ st[c] = "forget" /\ st' = [st EXCEPT ![c] = "delete"]
    BY <1>11, Steps DEF ForgetNode, Forget, tables, etcd
  <2>2. Removing(n, {"delete"}) => Removing(n, {"delete"})'
    BY <2>1, RemovingMoves
  <2>3. owner[c] = n => Removing(n, {"delete"})'
    BY <2>1 DEF Removing, Types
  <2>4. \A d \in Conns : Open(d)' => Open(d)
    BY <1>8, <2>1
  <2>5. (InService(n)' => InService(n)) /\ (Put(n)' => Put(n))
    BY <1>7, <2>1, <2>4
  <2>6. Good(n)' <=> Good(n)
    BY <1>3, <1>6, <2>1
  <2>7. CASE owner[c] = n
    BY <1>2, <1>5, <2>3, <2>5, <2>6, <2>7 DEF Publishes
  <2>8. CASE owner[c] # n
    BY <1>2, <1>5, <1>6, <2>1, <2>2, <2>5, <2>6, <2>8, StillPublishes
  <2> QED
    BY <2>7, <2>8
<1>12. CASE DeleteNode(c)
  <2>1. /\ UNCHANGED <<localConns, registered, alive, owner>> /\ owner[c] \in Nodes
        /\ st[c] = "delete" /\ st' = [st EXCEPT ![c] = "ended"]
    BY <1>12, Steps DEF DeleteNode, DeleteKey, tables, registry, etcd, Joined, Connected
  <2>2. \A d \in Conns : Open(d)' => Open(d)
    BY <1>8, <2>1
  <2>3. (InService(n)' => InService(n)) /\ (Put(n)' => Put(n))
    BY <1>7, <2>1, <2>2
  <2>4. CASE owner[c] = n
    <3>1. n # Self /\ (InUse(n) => Marked(Lost, n)')
      BY <1>12, <2>1, <2>4, Numbers DEF DeleteNode, Marked, Lost
    <3>2. InService(n) => InUse(n)
      BY <3>1 DEF InService, Served, Handling, InUse
    <3>3. Put(n) => InUse(n)
      BY DEF InUse, Handling
    <3> QED
      BY <2>3, <3>1, <3>2, <3>3 DEF Publishes
  <2>5. CASE owner[c] # n
    <3>1. keys'[n] = keys[n]
      BY <1>12, <2>1, <2>5 DEF DeleteNode, DeleteKey, etcd, Types, All
    <3>2. Good(n)' <=> Good(n)
      BY <1>6, <2>1, <3>1 DEF Good
    <3>3. Removing(n, {"delete"}) => Removing(n, {"delete"})'
      <4>1. \A d \in Conns : st'[d] = IF d = c THEN "ended" ELSE st[d]
        BY <2>1 DEF Types
      <4> QED
        BY <2>1, <2>5, <4>1 DEF Removing
    <3> QED
      BY <1>2, <1>5, <1>6, <2>1, <2>3, <3>2, <3>3, StillPublishes
  <2> QED
    BY <2>4, <2>5
<1> QED
  BY <1>9, <1>10, <1>11, <1>12 DEF Removal

\* The start registers the RouterAgent itself; the watch publishes nothing.
LEMMA StartPublishes ==
    ASSUME Types, Starting, Published, Start \/ StartWatch \/ WatchPost \/ CloseWatch
    PROVE  Published'
<1> DEFINE Put(n) == Handling(n, {"remember"}) /\ main.l = lease
<1>1. SUFFICES ASSUME NEW n \in Nodes \cup {Self}
      PROVE  (InService(n)' => Publishes(n)') /\ (Put(n)' => Good(n)' \/ Marked(Lost, n)')
  BY DEF Published
<1>2. CASE RegisterSelf
  <2>1. /\ UNCHANGED <<main, localConns>> /\ main = Idle
        /\ n \in Nodes => localConns[n] = NoConn /\ n # Self
    BY <1>2, Numbers DEF RegisterSelf, tables, Starting
  <2>2. ~Put(n)' /\ (InService(n)' => n = Self /\ phase' = "get")
    BY <1>2, <2>1 DEF InService, Handling, Served, Idle, RegisterSelf
  <2>3. phase' = "get" => lease' = 1 /\ keys'[Self] = 1 /\ Self \in registered'
    BY <1>2 DEF RegisterSelf, Types, All
  <2> QED
    BY <2>2, <2>3 DEF Publishes, Good
<1>3. CASE DiscoverGet \/ DiscoverPost \/ StartWatch \/ WatchPost \/ CloseWatch
  <2>1. /\ UNCHANGED <<main, st, owner, localConns, lease, registered, ka, keys, alive>> /\ marks \subseteq marks'
        /\ phase' \in {"get", "post", "loop"} => phase \in {"get", "post", "loop"}
    BY <1>3 DEF DiscoverGet, DiscoverPost, StartWatch, WatchPost, CloseWatch, conns, tables, registry, etcd
  <2>2. (InService(n)' => InService(n)) /\ (Put(n)' => Put(n)) /\ (Good(n)' <=> Good(n))
    BY <2>1 DEF InService, Handling, Served, Open, Good
  <2>3. Marked(Lost, n) => Marked(Lost, n)'
    BY <2>1, MoreMarks
  <2>4. Removing(n, {"delete"})' <=> Removing(n, {"delete"})
    BY <2>1 DEF Removing
  <2> QED
    BY <2>1, <2>2, <2>3, <2>4, StillPublishes DEF Published
<1> QED
  BY <1>2, <1>3 DEF Start

\* A handshake enters its node only after the Put, which uses the lease it was
\* given: when that is no longer the current one a recovery has yet to come,
\* or the node is lost.
LEMMA MainPublishes ==
    ASSUME Types, Granted, Joined, Queued, Entered, InTurn, Published, MainLoop
    PROVE  Published'
<1> DEFINE Put(n) == Handling(n, {"remember"}) /\ main.l = lease
<1>1. SUFFICES ASSUME NEW n \in Nodes \cup {Self}
      PROVE  (InService(n)' => Publishes(n)') /\ (Put(n)' => Good(n)' \/ Marked(Lost, n)')
  BY DEF Published
<1>2. UNCHANGED <<phase, st, owner, ka>>
  BY DEF MainLoop, TakeTask, EnsureLease, PutNode, RememberNode, FinishHandshake, conns, registry
<1>3. (InService(n) => Publishes(n)) /\ (Put(n) => Good(n) \/ Marked(Lost, n))
  BY DEF Published
<1>4. Removing(n, {"delete"})' <=> Removing(n, {"delete"})
  BY <1>2 DEF Removing
<1>5. ASSUME UNCHANGED localConns PROVE Served(n)' <=> Served(n)
  BY <1>2, <1>5 DEF Served, Open
<1>6. CASE TakeTask
  <2>1. UNCHANGED <<localConns, lease, registered, keys, alive, marks>> /\ main'.at \in {"ensure", "idle"}
    BY <1>6 DEF TakeTask, Idle, registry, etcd
  <2>2. ~Put(n)' /\ (InService(n)' => InService(n)) /\ (Good(n)' <=> Good(n)) /\ (Marked(Lost, n)' <=> Marked(Lost, n))
    BY <1>2, <1>5, <2>1 DEF InService, Handling, Good, Marked
  <2> QED
    BY <1>2, <1>3, <1>4, <2>1, <2>2, StillPublishes
<1>7. CASE EnsureLease
  <2>1. UNCHANGED <<localConns, registered, keys, marks>> /\ main'.at \in {"put", "idle"}
    <3>1. (\E l : main' = [main EXCEPT !.at = "put", !.l = l]) \/ main' = Idle
      BY <1>7 DEF EnsureLease, Refuse
    <3>2. ASSUME NEW l, main' = [main EXCEPT !.at = "put", !.l = l] PROVE main'.at = "put"
      BY <3>2, SMT DEF Types
    <3>3. main' = Idle => main'.at = "idle"
      BY DEF Idle
    <3> QED
      BY <1>7, <3>1, <3>2, <3>3 DEF EnsureLease, tables
  <2>2. lease # 0 => UNCHANGED <<lease, alive>>
    BY <1>7 DEF EnsureLease
  <2>3. ~Put(n)' /\ (InService(n)' => InService(n)) /\ (Marked(Lost, n)' <=> Marked(Lost, n))
    BY <1>2, <1>5, <2>1 DEF InService, Handling, Marked
  <2>4. Good(n) => Good(n)'
    BY <2>1, <2>2 DEF Good
  <2> QED
    BY <1>2, <1>3, <1>4, <2>1, <2>3, <2>4, StillPublishes
<1>8. CASE PutNode
  <2>1. main.at = "put" /\ UNCHANGED <<localConns, lease, registered>>
    BY <1>8 DEF PutNode, tables, registry
  <2>2. PICK m \in Nodes : m = owner[main.c]
    BY <2>1, NotServed
  <2>3. ~Served(m) /\ m # Self
    BY <2>1, <2>2, NotServed, Numbers
  <2>4. \/ /\ keys' = [keys EXCEPT ![m] = main.l] /\ main' = [main EXCEPT !.at = "remember"]
           /\ \A cause : <<cause, n>> \in marks /\ n # m => <<cause, n>> \in marks'
        \/ main' = Idle /\ (keys' = keys \/ keys' = [keys EXCEPT ![m] = main.l]) /\ marks \subseteq marks'
    BY <1>8, <2>2 DEF PutNode, PutKey, Refuse, etcd, Republished
  <2>5. alive' = alive
    BY <1>8 DEF PutNode, PutKey, etcd
  <2>6. main'.at \in {"remember", "idle"} /\ (main'.at = "remember" => main'.c = main.c /\ main'.l = main.l)
    BY <2>4 DEF Idle, Types
  <2>7. InService(n)' => InService(n) /\ n # m
    BY <1>2, <1>5, <2>1, <2>2, <2>3, <2>6 DEF InService, Handling
  <2>8. n # m => keys'[n] = keys[n] /\ (Marked(Lost, n) => Marked(Lost, n)')
    <3>1. n # m => keys'[n] = keys[n]
      BY <2>4 DEF Types, All
    <3> QED
      BY <2>4, <3>1 DEF Marked
  <2>9. n # m => (Good(n)' <=> Good(n))
    BY <2>1, <2>5, <2>8 DEF Good
  <2>10. Put(n)' => Good(n)'
    <3>1. SUFFICES ASSUME Put(n)' PROVE Good(n)'
      OBVIOUS
    <3>2. main'.at = "remember" /\ n = m /\ main.l = lease
      BY <1>2, <2>1, <2>2, <2>6, <3>1 DEF Handling
    <3>3. main' # Idle
      BY <3>2 DEF Idle
    <3>4. keys'[m] = main.l
      BY <2>4, <3>3 DEF Types, All
    <3> QED
      BY <2>1, <3>2, <3>4 DEF Good, Granted
  <2> QED
    BY <1>2, <1>3, <1>4, <2>1, <2>7, <2>8, <2>9, <2>10, StillPublishes
<1>9. CASE RememberNode
  <2>1. /\ main.at = "remember" /\ UNCHANGED <<localConns, lease, keys, alive>>
        /\ registered' = registered \cup {owner[main.c]} /\ main' = [main EXCEPT !.at = "enter"]
        /\ marks \subseteq marks'
        /\ main.l # lease /\ ka.at # "recover" => <<"unremembered", owner[main.c]>> \in marks'
    BY <1>9 DEF RememberNode, tables, etcd
  <2>2. main'.at = "enter" /\ main'.c = main.c
    BY <2>1 DEF Types
  <2>3. ~Put(n)' /\ (Good(n)' <=> Good(n))
    BY <2>1, <2>2 DEF Handling, Good
  <2>4. Marked(Lost, n) => Marked(Lost, n)'
    BY <2>1, MoreMarks
  <2>5. CASE n = owner[main.c]
    <3>1. n \in registered' /\ (main.l # lease => ka'.at = "recover" \/ Marked(Lost, n)')
      BY <1>2, <2>1, <2>5 DEF Marked, Lost
    <3>2. main.l = lease => Good(n)' \/ Marked(Lost, n)'
      BY <1>3, <2>1, <2>3, <2>4, <2>5 DEF Handling
    <3> QED
      BY <2>3, <3>1, <3>2 DEF Publishes
  <2>6. CASE n # owner[main.c]
    <3>1. InService(n)' => InService(n)
      BY <1>2, <1>5, <2>1, <2>2, <2>6 DEF InService, Handling
    <3> QED
      BY <1>2, <1>3, <1>4, <2>1, <2>3, <2>4, <3>1, StillPublishes
  <2> QED
    BY <2>5, <2>6
<1>10. CASE FinishHandshake
  <2>1. /\ main.at = "enter" /\ UNCHANGED <<lease, registered, keys, alive>> /\ main' = Idle
        /\ localConns' = [localConns EXCEPT ![owner[main.c]] = main.c] /\ marks \subseteq marks'
    BY <1>10 DEF FinishHandshake, registry, etcd
  <2>2. ~Put(n)' /\ (Good(n)' <=> Good(n))
    BY <2>1 DEF Handling, Good, Idle
  <2>3. Marked(Lost, n) => Marked(Lost, n)'
    BY <2>1, MoreMarks
  <2>4. InService(n)' => InService(n)
    <3>1. CASE n \in Nodes /\ n = owner[main.c]
      BY <2>1, <3>1 DEF InService, Handling
    <3>2. CASE n \in Nodes /\ n # owner[main.c]
      <4>1. localConns'[n] = localConns[n]
        BY <2>1, <3>2 DEF Types
      <4>2. ~Handling(n, {"enter"})' /\ (Served(n)' => Served(n))
        BY <1>2, <2>1, <4>1 DEF Handling, Idle, Served, Open
      <4> QED
        BY <1>2, <4>2 DEF InService
    <3>3. CASE n \notin Nodes
      BY <1>2, <3>3 DEF InService
    <3> QED
      BY <3>1, <3>2, <3>3
  <2> QED
    BY <1>2, <1>3, <1>4, <2>1, <2>2, <2>3, <2>4, StillPublishes
<1> QED
  BY <1>6, <1>7, <1>8, <1>9, <1>10 DEF MainLoop

\* The keepalive loop puts every registered node again under the lease of a
\* recovery, or marks the nodes it does not.
LEMMA KeepalivePublishes ==
    ASSUME Types, Granted, Published, KeepaliveFails \/ RecoverLease \/ RecoverPut
    PROVE  Published'
<1> DEFINE Put(n) == Handling(n, {"remember"}) /\ main.l = lease
<1>1. SUFFICES ASSUME NEW n \in Nodes \cup {Self}
      PROVE  (InService(n)' => Publishes(n)') /\ (Put(n)' => Good(n)' \/ Marked(Lost, n)')
  BY DEF Published
<1>2. UNCHANGED <<phase, st, owner, main, localConns, registered>>
  BY DEF KeepaliveFails, RecoverLease, RecoverPut, conns, tables
<1>3. (InService(n) => Publishes(n)) /\ (Put(n) => Good(n) \/ Marked(Lost, n))
  BY DEF Published
<1>4. /\ Removing(n, {"delete"})' <=> Removing(n, {"delete"}) 
      /\ InService(n)' <=> InService(n)
  BY <1>2 DEF Removing, InService, Handling, Served, Open
<1>5. Put(n)' => lease' # 0 /\ Handling(n, {"remember"}) /\ main.l = lease'
  BY <1>2 DEF Handling, Granted
<1>6. ASSUME UNCHANGED <<lease, alive, keys>> PROVE Good(n)' <=> Good(n)
  BY <1>6 DEF Good
<1>7. CASE KeepaliveFails
  <2>1. lease' = 0 /\ marks' = marks /\ ka'.at = "recover"
    BY <1>7 DEF KeepaliveFails, Types
  <2>2. Marked(Lost, n)' <=> Marked(Lost, n)
    BY <2>1 DEF Marked
  <2> QED
    BY <1>2, <1>3, <1>4, <1>5, <2>1, <2>2 DEF Publishes
<1>8. CASE RecoverLease
  <2>1. CASE ka' = Resting /\ marks' = marks \cup Unrecovered /\ UNCHANGED <<lease, alive>>
    <3>1. keys' = keys /\ marks \subseteq marks'
      BY <1>8, <2>1 DEF RecoverLease
    <3>2. (Good(n)' <=> Good(n)) /\ (Marked(Lost, n) => Marked(Lost, n)')
      BY <1>6, <2>1, <3>1, MoreMarks
    <3>3. n \in registered => Good(n)' \/ Marked(Lost, n)'
      <4>1. CASE n \in registered /\ (lease = 0 \/ keys[n] # lease)
        BY <2>1, <4>1 DEF Unrecovered, Marked, Lost
      <4>2. CASE lease # 0 /\ keys[n] = lease
        BY <2>1, <3>1, <4>2 DEF Good
      <4> QED
        BY <4>1, <4>2
    <3> QED
      BY <1>2, <1>3, <1>4, <1>5, <2>1, <3>2, <3>3 DEF Publishes
  <2>2. CASE lease = 0 /\ lease' = Fresh /\ ka' = [at |-> "put", todo |-> ToRecover, l |-> Fresh] /\ marks' = marks
    <3>1. ~Put(n)'
      BY <1>5, <2>2, FreshLease
    <3>2. (Marked(Lost, n)' <=> Marked(Lost, n)) /\ ka'.at = "put" /\ ka'.todo = registered
      BY <2>2 DEF Marked, ToRecover
    <3> QED
      BY <1>2, <1>3, <1>4, <3>1, <3>2 DEF Publishes
  <2> QED
    BY <1>8, <2>1, <2>2 DEF RecoverLease
<1>9. CASE RecoverPut
  <2>1. ka.at = "put" /\ ka.l = lease /\ lease # 0
    BY <1>9 DEF RecoverPut, Granted
  <2>2. CASE ka.todo = {} /\ UNCHANGED <<lease, etcd, marks>>
    <3>1. (Good(n)' <=> Good(n)) /\ (Marked(Lost, n)' <=> Marked(Lost, n))
      BY <1>6, <2>2 DEF Marked, etcd
    <3> QED
      BY <1>2, <1>3, <1>4, <1>5, <2>1, <2>2, <3>1 DEF Publishes
  <2>3. ASSUME NEW m \in ka.todo, PutKey(m, ka.l), ka' = [ka EXCEPT !.todo = @ \ {m}], lease' = lease,
               marks' = ((marks \cup Unseen({m})) \ Republished(m, m \in registered))
                          \cup (IF m \notin registered THEN {<<"resurrected", m>>} ELSE {})
        PROVE  (InService(n)' => Publishes(n)') /\ (Put(n)' => Good(n)' \/ Marked(Lost, n)')
    <3>1. m \in All /\ keys' = [keys EXCEPT ![m] = lease] /\ alive' = alive
      BY <2>1, <2>3 DEF PutKey, Types, All
    <3>2. ka'.at = "put" /\ ka'.todo = ka.todo \ {m}
      BY <2>1, <2>3 DEF Types
    <3>3. n # m \/ m \notin registered => (Marked(Lost, n) => Marked(Lost, n)')
      BY <2>3 DEF Marked, Republished
    <3>4. CASE n = m
      <4>1. Good(n)'
        BY <2>1, <2>3, <3>1, <3>4 DEF Good, Types
      <4> QED
        BY <1>2, <1>3, <1>4, <3>3, <3>4, <4>1 DEF Publishes
    <3>5. CASE n # m
      <4>1. keys'[n] = keys[n]
        BY <3>1, <3>5 DEF Types, All
      <4>2. Good(n)' <=> Good(n)
        BY <2>3, <3>1, <4>1 DEF Good
      <4> QED
        BY <1>2, <1>3, <1>4, <1>5, <2>1, <2>3, <3>2, <3>3, <3>5, <4>2 DEF Publishes
    <3> QED
      BY <3>4, <3>5
  <2>4. CASE lease' = 0 /\ marks' = marks \cup {<<"unrecovered", m>> : m \in registered}
    <3>1. (Marked(Lost, n) => Marked(Lost, n)') /\ (n \in registered => Marked(Lost, n)')
      BY <2>4 DEF Marked, Lost
    <3> QED
      BY <1>2, <1>3, <1>4, <1>5, <2>4, <3>1 DEF Publishes
  <2> QED
    BY <1>9, <2>2, <2>3, <2>4 DEF RecoverPut
<1> QED
  BY <1>7, <1>8, <1>9

\* An expiring lease takes no key that is under the current one, unless that
\* is the one that expires; other RouterAgents write other keys.
LEMMA EtcdPublishes ==
    ASSUME Types, Published, (\E l \in Leases : Expire(l)) \/ \E m \in Others : OtherChange(m)
    PROVE  Published'
<1> DEFINE Put(n) == Handling(n, {"remember"}) /\ main.l = lease
<1>1. SUFFICES ASSUME NEW n \in Nodes \cup {Self}
      PROVE  (InService(n)' => Publishes(n)') /\ (Put(n)' => Good(n)' \/ Marked(Lost, n)')
  BY DEF Published
<1>2. UNCHANGED <<phase, st, owner, main, localConns, lease, registered, ka>> /\ marks \subseteq marks'
  BY DEF Expire, OtherChange, conns, tables, registry
<1>3. Marked(Lost, n) => Marked(Lost, n)'
  BY <1>2, MoreMarks
<1>4. /\ Removing(n, {"delete"})' <=> Removing(n, {"delete"}) 
      /\ InService(n)' <=> InService(n)
      /\ Put(n)' <=> Put(n)
  BY <1>2 DEF Removing, InService, Handling, Served, Open
<1>5. Good(n) => Good(n)'
  <2>1. ASSUME NEW l \in Leases, Expire(l) PROVE Good(n) => Good(n)'
    <3>1. alive' = alive \ {l} /\ keys'[n] = IF keys[n] = l THEN 0 ELSE keys[n]
      BY <2>1 DEF Expire, All
    <3> QED
      BY <1>2, <3>1 DEF Good
  <2>2. ASSUME NEW m \in Others, OtherChange(m) PROVE Good(n) => Good(n)'
    <3>1. alive' = alive /\ n # m /\ \E l : keys' = [keys EXCEPT ![m] = l]
      BY <2>2, Numbers DEF OtherChange, PutKey, DeleteKey
    <3>2. keys'[n] = keys[n]
      BY <3>1 DEF Types, All
    <3> QED
      BY <1>2, <3>1, <3>2 DEF Good
  <2> QED
    BY <2>1, <2>2
<1> QED
  BY <1>2, <1>3, <1>4, <1>5, StillPublishes DEF Published

\* Every step leaves the nodes in service published, or marks the one it loses.
LEMMA PublishedStep ==
    ASSUME Types, Starting, Granted, Joined, Queued, Entered, InTurn, Published, Next
    PROVE  Published'
BY StartPublishes, ConnPublishes, MainPublishes, KeepalivePublishes, EtcdPublishes DEF Next

-----------------------------------------------------------------------------
(* The invariant and the theorems *)

\* The invariant holds before the start: there are no connections, tasks or
\* leases, and the keys are those of others and of an earlier process.
LEMMA InitReg == Init => RegInv
<1>1. SUFFICES ASSUME Init PROVE RegInv
  OBVIOUS
<1>2. Types
  <2>1. queue \in Seq(Tasks) /\ Len(queue) = 0 /\ stream \in Seq({"add", "del"} \X All)
    BY <1>1 DEF Init
  <2>2. main = Idle /\ main \in [at : {"idle", "ensure", "put", "remember", "enter"}, c : Conns \cup {NoConn}, l : {0} \cup Leases]
    BY <1>1 DEF Init, Idle
  <2>3. ka \in [at : {"tick", "recover", "put"}, todo : SUBSET (Nodes \cup {Self}), l : {0} \cup Leases]
    BY <1>1 DEF Init, Resting
  <2>4. keys \in [All -> {0, ForeignLease} \cup alive] /\ alive \subseteq Leases /\ lease \in {0} \cup Leases
    BY <1>1 DEF Init
  <2>5. /\ st \in [Conns -> {"new", "open", "posted", "closed", "table", "forget", "delete", "ended"}]
        /\ owner \in [Conns -> Nodes \cup {Self}] /\ localConns \in [Nodes -> Conns \cup {NoConn}]
    BY <1>1 DEF Init
  <2>6. faults \in Nat /\ faults <= MaxEvents /\ Len(queue) <= QueueCap
    BY <1>1, <2>1, RegistrationConstants DEF Init
  <2>7. /\ phase \in {"register", "get", "post", "loop", "failed"}
        /\ initial \subseteq All /\ members \subseteq All /\ registered \subseteq Nodes \cup {Self}
    BY <1>1 DEF Init
  <2>8. main.at = "idle"
    BY <2>2 DEF Idle
  <2> QED
    BY <2>1, <2>2, <2>3, <2>4, <2>5, <2>6, <2>7, <2>8 DEF Types
<1>3. /\ main = Idle /\ main.at = "idle" /\ main.l = 0 /\ ka.at = "tick" /\ queue = <<>> /\ stream = <<>>
      /\ \A c \in Conns : st[c] = "new"
      /\ \A n \in Nodes : localConns[n] = NoConn /\ keys[n] = 0
  BY <1>1 DEF Init, Idle, Resting
<1>4. Starting
  BY <1>1, <1>3 DEF Init, Starting
<1>5. Granted
  <2>1. Held = {}
    BY <1>1, <1>3 DEF Init, Held
  <2>2. Cardinality(Held) = 0 /\ lease \notin alive /\ faults = 0
    BY <1>1, <2>1, FS_EmptySet DEF Init
  <2> QED
    BY <1>3, <2>2 DEF Granted
<1>6. Joined
  <2>1. Connected = {}
    BY <1>3 DEF Connected
  <2>2. 0 \in 0..MaxConns /\ 1..0 = {}
    BY RegistrationConstants
  <2> QED
    BY <1>3, <2>1, <2>2 DEF Joined, Open
<1>7. \A c : ~Shaking(c) /\ \A i : ~Waits(c, i)
  BY <1>3 DEF Shaking, Handled, Waits
<1>8. Queued /\ Entered /\ InTurn
  BY <1>3, <1>7 DEF Queued, Entered, InTurn
<1>9. Followed
  BY <1>1, <1>3 DEF Init, Followed, NotTold, Silent
<1>10. Accounted
  BY <1>1, <1>3 DEF Init, Accounted, Accounts
<1>11. Published
  BY <1>1, <1>3, Numbers DEF Init, Published, InService, Served, Handling
<1> QED
  BY <1>2, <1>4, <1>5, <1>6, <1>8, <1>9, <1>10, <1>11 DEF RegInv

\* Every step of the RouterAgent, of the processes of its machine and of etcd
\* preserves the invariant.
LEMMA NextReg == RegInv /\ [Next]_vars => RegInv'
<1>1. ASSUME RegInv, Next PROVE RegInv'
  <2>1. Types /\ Starting /\ Granted /\ Joined /\ Queued /\ Entered /\ InTurn /\ Followed /\ Accounted /\ Published
    BY <1>1 DEF RegInv
  <2>2. Types' /\ Joined' /\ Starting'
    BY <1>1, <2>1, TypesStep, JoinedStep, StartingStep
  <2>3. Granted' /\ Queued' /\ Entered' /\ InTurn'
    BY <1>1, <2>1, <2>2, GrantedStep, QueuedStep, EnteredStep, InTurnStep
  <2>4. Followed' /\ Accounted' /\ Published'
    BY <1>1, <2>1, <2>2, FollowedStep, AccountedStep, PublishedStep
  <2> QED
    BY <2>2, <2>3, <2>4 DEF RegInv
<1>2. ASSUME RegInv, UNCHANGED vars PROVE RegInv'
  <2> USE <1>2 DEF vars, conns, tables, registry, etcd
  <2>1. Types' /\ Starting'
    BY DEF RegInv, Types, Starting
  <2>2. Granted'
    BY DEF RegInv, Granted, Held
  <2>3. Joined' /\ Entered'
    BY DEF RegInv, Joined, Connected, Open, Entered
  <2>4. Queued' /\ InTurn'
    BY DEF RegInv, Queued, InTurn, Open, Shaking, Handled, Waits
  <2>5. Followed'
    BY DEF RegInv, Followed, Follows, Marked, NotTold, Told, Handling, Removing
  <2>6. Accounted'
    BY DEF RegInv, Accounted, Accounts, Marked, Handling, Removing
  <2>7. Published'
    BY DEF RegInv, Published, Publishes, InService, Served, Open, Good, Marked, Handling, Removing
  <2> QED
    BY <2>1, <2>2, <2>3, <2>4, <2>5, <2>6, <2>7 DEF RegInv
<1> QED
  BY <1>1, <1>2

\* The inductive invariant of the registration holds throughout.
THEOREM RegistrationInvariant == Spec => []RegInv
BY InitReg, NextReg, PTL DEF Spec

\* What runtime.go and registry.go keep in the queue, in the tables and in etcd
\* has its type in every state; the queue never exceeds its capacity.
THEOREM RegistrationTypes == Spec => []TypeOK
<1>1. RegInv => TypeOK
  <2>1. SUFFICES ASSUME Types PROVE TypeOK
    BY DEF RegInv
  <2>2. Range(queue) \subseteq ({"add", "del"} \X All) \cup ({"shake"} \X Conns)
    BY <2>1 DEF Types, Tasks, Range
  <2>3. Range(stream) \subseteq {"add", "del"} \X All
    BY <2>1 DEF Types, Range
  <2>4. st \in [Conns -> {"new", "open", "posted", "closed"} \cup Range(RemovalOrder)]
    <3>1. {"new", "open", "posted", "closed"} \cup Range(RemovalOrder)
            = {"new", "open", "posted", "closed", "table", "forget", "delete", "ended"}
      BY Steps
    <3> QED
      BY <2>1, <3>1 DEF Types
  <2> QED
    BY <2>1, <2>2, <2>3, <2>4 DEF Types, TypeOK
<1> QED
  BY <1>1, RegistrationInvariant, PTL

\* The member table and etcd list the same nodes when nothing is on its way,
\* but for those that changed unseen or were not deleted.
THEOREM MembersAgree == Spec => []MembersFollowEtcd
<1>1. RegInv => MembersFollowEtcd
  <2>1. SUFFICES ASSUME RegInv, Quiet, NEW n \in Nodes \cup Others, ~Marked({"unseen", "undeleted"}, n)
        PROVE  n \in members <=> keys[n] # 0
    BY DEF MembersFollowEtcd
  <2>2. phase = "loop" /\ initial = {} /\ queue = <<>> /\ stream = <<>>
    BY <2>1 DEF RegInv, Starting, Quiet
  <2>3. NotTold(n)
    BY <2>2 DEF NotTold, Silent
  <2>4. ~Removing(n, {"forget", "delete"})
    BY <2>1 DEF Removing, Quiet
  <2>5. Follows(n)
    BY <2>1, <2>2 DEF RegInv, Followed
  <2> QED
    BY <2>2, <2>3, <2>4, <2>5 DEF Follows
<1> QED
  BY <1>1, RegistrationInvariant, PTL

\* No key outlives the connection of its node, except through the named races
\* and failures of the handshake, the removal and the recovery.
THEOREM KeysHaveConnections == Spec => []NoOrphanKey
<1>1. RegInv => NoOrphanKey
  <2>1. SUFFICES ASSUME RegInv, Quiet, NEW n \in Nodes, keys[n] # 0
        PROVE  Served(n) \/ Marked({"late", "ambiguous", "undeleted", "resurrected"}, n)
    BY DEF NoOrphanKey
  <2>2. Accounts(n)
    BY <2>1 DEF RegInv, Accounted
  <2>3. ~Removing(n, {"table", "forget", "delete"})
    BY <2>1 DEF Removing, Quiet
  <2>4. ~Handling(n, {"remember", "enter"})
    BY <2>1 DEF Handling, Quiet, Idle
  <2>5. CASE localConns[n] # NoConn
    <3>1. PICK c \in Conns : c = localConns[n]
      BY <2>1, <2>5 DEF RegInv, Types
    <3>2. st[c] = "posted" \/ <<"late", n>> \in marks
      BY <2>1, <2>5, <3>1 DEF RegInv, Entered, Quiet
    <3> QED
      BY <2>5, <3>1, <3>2 DEF Served, Open, Marked
  <2> QED
    BY <2>1, <2>2, <2>3, <2>4, <2>5 DEF Accounts
<1> QED
  BY <1>1, RegistrationInvariant, PTL

\* Every node that is connected and was accepted, and the RouterAgent itself,
\* has its key under the current lease when nothing is on its way, unless one
\* of the named races lost it.
THEOREM ServedArePublished == Spec => []ServedIsPublished
<1>1. RegInv => ServedIsPublished
  <2>1. SUFFICES ASSUME RegInv, Quiet, NEW n \in Nodes \cup {Self}, Served(n)
        PROVE  (lease # 0 /\ keys[n] = lease) \/ Marked(Lost, n)
    BY DEF ServedIsPublished
  <2>2. InService(n)
    BY <2>1 DEF InService, Quiet
  <2>3. Publishes(n)
    BY <2>1, <2>2 DEF RegInv, Published
  <2>4. ~Removing(n, {"delete"}) /\ ka.at = "tick" /\ (lease # 0 => lease \in alive)
    BY <2>1 DEF Removing, Quiet, Resting
  <2> QED
    BY <2>3, <2>4 DEF Publishes, Good
<1> QED
  BY <1>1, RegistrationInvariant, PTL
=============================================================================
