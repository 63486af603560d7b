----------------------------- MODULE GateProofs -----------------------------
(***************************************************************************)
(* For any number of connections, addresses, users, sessions and requests: *)
(* the gate uses the session manager as its operations allow, so its       *)
(* theorem holds in the gate; no session outlives the receive loop of its  *)
(* connection; and a response goes to the connection that asked.           *)
(*                                                                         *)
(* The invariant follows a request: its number stands for the connection   *)
(* that sent it, and wherever the number travels beside a session, it is   *)
(* the session that the receive loop of that connection found.  Since a    *)
(* session belongs to one connection, the connection a response is put in  *)
(* is known from the session.                                              *)
(*                                                                         *)
(* Of the session manager by itself: no two sessions that can be reached   *)
(* carry the same user.  OneSessionPerUser is not inductive: BindSession   *)
(* finds the other session of a user through byUID only, so the proof      *)
(* needs that byUID leads to every reachable session that has a user       *)
(* (IndexAgrees), and that a session starts without one.                   *)
(***************************************************************************)
EXTENDS Gate, TLAPS

\* A leaf that names no prover goes to Zenon first and then to the SMT solver.
USE ZenonT(2), SMTT(30), ZenonT(30)

-----------------------------------------------------------------------------
(* The session manager *)

Inv ==
    /\ SessionsTypeOK
    /\ IndexAgrees
    /\ \A s \in SessionIDs \ created : uid[s] = NoUid

\* An address leads to at most one session, so the index by user is what
\* OneSessionPerUser needs: two reachable sessions of a user are both byUID's.
LEMMA IndexImpliesOne == Inv => OneSessionPerUser
BY DEF Inv, IndexAgrees, OneSessionPerUser

\* The manager starts empty.
LEMMA InitInv == InitSessions => Inv
<1> SUFFICES ASSUME InitSessions PROVE Inv
  OBVIOUS
<1>1. (CHOOSE a \in Addrs : TRUE) \in Addrs
  BY SessionConstants
<1> QED
  BY <1>1 DEF InitSessions, Inv, SessionsTypeOK, IndexAgrees, Live

\* A new connection: the session it makes has no user yet, and the one it may
\* replace is no longer reached by its address.
LEMMA ConnectInv ==
    ASSUME Inv, NEW s \in SessionIDs, NEW a \in Addrs, OnConnect(s, a)
    PROVE  Inv'
<1> USE SessionConstants DEF Inv, OnConnect, Enter
<1>1. SessionsTypeOK'
  BY DEF SessionsTypeOK
<1>2. \A t \in SessionIDs \ created' : uid'[t] = NoUid
  OBVIOUS
<1>3. \A b \in Addrs : byConn'[b] # NoSession => connID'[byConn'[b]] = b
  BY DEF SessionsTypeOK, IndexAgrees
<1>4. ASSUME NEW t \in created', Live(t)', uid'[t] # NoUid
      PROVE  byUID'[uid'[t]] = t
  <2>1. t # s /\ t \in created
    BY <1>4
  <2>2. Live(t)
    BY <1>4, <2>1 DEF Live, SessionsTypeOK
  <2> QED
    BY <1>4, <2>1, <2>2 DEF IndexAgrees
<1> QED
  BY <1>1, <1>2, <1>3, <1>4 DEF IndexAgrees

\* The end of a connection takes the session of its address and the entry of
\* its user, which by IndexAgrees is the entry of no other session.
LEMMA DisconnectInv ==
    ASSUME Inv, NEW a \in Addrs, OnDisconnect(a)
    PROVE  Inv'
<1> USE SessionConstants DEF Inv, OnDisconnect, Free
<1>1. SessionsTypeOK'
  BY DEF SessionsTypeOK
<1>2. \A b \in Addrs : byConn'[b] # NoSession => connID'[byConn'[b]] = b
  BY DEF SessionsTypeOK, IndexAgrees
<1>3. ASSUME NEW t \in created', Live(t)', uid'[t] # NoUid
      PROVE  byUID'[uid'[t]] = t
  <2>1. Live(t) /\ t # byConn[a]
    BY <1>3 DEF Live, SessionsTypeOK, IndexAgrees
  <2>2. byUID[uid[t]] = t
    BY <1>3, <2>1 DEF IndexAgrees
  <2>3. byConn[a] # NoSession => uid[byConn[a]] # uid[t]
    BY <1>3, <2>1, <2>2 DEF SessionsTypeOK, IndexAgrees, Live
  <2> QED
    BY <1>3, <2>2, <2>3 DEF SessionsTypeOK
<1> QED
  BY <1>1, <1>2, <1>3 DEF IndexAgrees

\* Binding a user to a session: the session that byUID had for the user loses
\* it, and by IndexAgrees there is no other reachable one.
LEMMA BindToIndex ==
    ASSUME Inv, NEW sess \in SessionIDs, NEW u \in Uids \cup {NoUid}, BindTo(sess, u),
           sess \in created => Live(sess),
           NEW t \in created, Live(t), t # sess, uid'[t] # NoUid
    PROVE  byUID'[uid'[t]] = t
<1> USE SessionConstants
<1>1. ~LosesUid(t, sess, u) /\ uid'[t] = uid[t]
  BY DEF BindTo, Inv, SessionsTypeOK
<1>2. uid[t] \in Uids /\ byUID[uid[t]] = t
  BY <1>1 DEF Inv, IndexAgrees, SessionsTypeOK
<1>3. uid[t] # u
  BY <1>1, <1>2 DEF LosesUid
<1>4. uid[t] # uid[sess]
  BY <1>2 DEF Inv, IndexAgrees
<1> QED
  BY <1>1, <1>2, <1>3, <1>4 DEF BindTo

\* BindSession preserves the tables, for a session its address leads to and
\* for one that it makes.
LEMMA BindInv ==
    ASSUME Inv, NEW s \in SessionIDs, NEW a \in Addrs, NEW u \in Uids \cup {NoUid},
           BindSession(s, a, u)
    PROVE  Inv'
<1> USE SessionConstants
<1>1. CASE byConn[a] # NoSession
  <2> DEFINE sess == byConn[a]
  <2>1. /\ sess \in created /\ sess \in SessionIDs /\ Live(sess) /\ BindTo(sess, u)
        /\ UNCHANGED <<byConn, created, connID>>
    BY <1>1 DEF BindSession, Inv, SessionsTypeOK, IndexAgrees, Live
  <2> HIDE DEF sess
  <2>2. SessionsTypeOK'
    BY <2>1 DEF BindTo, Inv, SessionsTypeOK
  <2>3. \A t \in SessionIDs \ created' : uid'[t] = NoUid
    BY <2>1 DEF BindTo, Inv, SessionsTypeOK
  <2>4. \A b \in Addrs : byConn'[b] # NoSession => connID'[byConn'[b]] = b
    BY <2>1 DEF Inv, IndexAgrees
  <2>5. ASSUME NEW t \in created', Live(t)', uid'[t] # NoUid
        PROVE  byUID'[uid'[t]] = t
    <3>1. t \in created /\ Live(t)
      BY <2>1, <2>5 DEF Live
    <3>2. CASE t = sess
      BY <2>1, <2>5, <3>2 DEF BindTo
    <3>3. CASE t # sess
      BY <2>1, <2>5, <3>1, <3>3, BindToIndex
    <3> QED
      BY <3>2, <3>3
  <2> QED
    BY <2>2, <2>3, <2>4, <2>5 DEF Inv, IndexAgrees
<1>2. CASE byConn[a] = NoSession
  <2>1. /\ s \notin created /\ BindTo(s, u)
        /\ created' = created \cup {s}
        /\ connID' = [connID EXCEPT ![s] = a]
        /\ byConn' = [byConn EXCEPT ![a] = s]
    BY <1>2 DEF BindSession
  <2>2. SessionsTypeOK'
    BY <2>1 DEF BindTo, Inv, SessionsTypeOK
  <2>3. \A t \in SessionIDs \ created' : uid'[t] = NoUid
    BY <2>1 DEF BindTo, Inv, SessionsTypeOK
  <2>4. \A b \in Addrs : byConn'[b] # NoSession => connID'[byConn'[b]] = b
    BY <2>1 DEF Inv, IndexAgrees, SessionsTypeOK
  <2>5. ASSUME NEW t \in created', Live(t)', uid'[t] # NoUid
        PROVE  byUID'[uid'[t]] = t
    <3>1. CASE t = s
      BY <2>1, <2>5, <3>1 DEF BindTo
    <3>2. CASE t # s
      <4>1. t \in created /\ Live(t)
        BY <1>2, <2>1, <2>5, <3>2 DEF Live, Inv, SessionsTypeOK
      <4> QED
        BY <2>1, <2>5, <3>2, <4>1, BindToIndex
    <3> QED
      BY <3>1, <3>2
  <2> QED
    BY <2>2, <2>3, <2>4, <2>5 DEF Inv, IndexAgrees
<1> QED
  BY <1>1, <1>2

\* Every operation of the manager, and no operation, keeps the invariant.
LEMMA NextInv == Inv /\ [NextSessions]_sessions => Inv'
<1> SUFFICES ASSUME Inv, [NextSessions]_sessions PROVE Inv'
  OBVIOUS
<1>1. ASSUME NEW s \in SessionIDs, NEW a \in Addrs, OnConnect(s, a) PROVE Inv'
  BY <1>1, ConnectInv
<1>2. ASSUME NEW s \in SessionIDs, NEW a \in Addrs, NEW u \in Uids \cup {NoUid},
             BindSession(s, a, u)
      PROVE  Inv'
  BY <1>2, BindInv
<1>3. ASSUME NEW a \in Addrs, OnDisconnect(a) PROVE Inv'
  BY <1>3, DisconnectInv
<1>4. CASE UNCHANGED sessions
  BY <1>4 DEF sessions, Inv, SessionsTypeOK, IndexAgrees, Live
<1> QED
  BY <1>1, <1>2, <1>3, <1>4 DEF NextSessions

\* The two tables of SessionManager agree, whatever the calls.
THEOREM IndexTheorem == SpecSessions => []IndexAgrees
<1>1. Inv => IndexAgrees
  BY DEF Inv
<1> QED
  BY <1>1, InitInv, NextInv, PTL DEF SpecSessions

\* No two reachable sessions carry the same user: BindSession takes it away
\* from the one that had it.
THEOREM OneSessionTheorem == SpecSessions => []OneSessionPerUser
BY IndexImpliesOne, InitInv, NextInv, PTL DEF SpecSessions

-----------------------------------------------------------------------------
(* The gate *)

Stages == {"none", "accepted", "started", "reading", "left"}
Tasks == [task : {"packet", "answer"}, r : Nat, s : SessionIDs \cup {NoSession}]

Types ==
    /\ st \in [Conns -> Stages]
    /\ addr \in [Conns -> Addrs]
    /\ own \in [Conns -> created \cup {NoSession}]
    /\ got \in [Conns -> created \cup {NoSession}]
    /\ from \in Seq(Conns)
    /\ inbox \in [Conns -> Seq(Nat)]
    /\ queue \in Seq(Tasks)
    /\ calls \in SUBSET (Nat \X (SessionIDs \cup {NoSession}))
    /\ out \in [Conns -> Seq(Nat)]
    /\ written \in [Conns -> SUBSET Nat]
    /\ open \subseteq Conns

\* The session of a connection is its own and carries its address; once the
\* receive loop has ended no address leads to it.
OwnSessions ==
    /\ \A c \in Conns : st[c] \in {"none", "accepted"} <=> own[c] = NoSession
    /\ \A c \in Conns : own[c] # NoSession => connID[own[c]] = addr[c]
    /\ \A c, d \in Conns : own[c] = own[d] /\ own[c] # NoSession => c = d
    /\ \A c \in Conns : st[c] = "left" => \A a \in Addrs : own[c] # byConn[a]

\* The request r travels with the session that its connection's loop found.
Carries(r, s) ==
    /\ r \in DOMAIN from
    /\ st[from[r]] \in {"reading", "left"}
    /\ s = got[from[r]]

\* The response to r may be in the connection c.
Due(r, c) == own[c] # NoSession /\ Carries(r, own[c])

Travels ==
    /\ \A c \in Conns : \A i \in DOMAIN inbox[c] :
          inbox[c][i] \in DOMAIN from /\ from[inbox[c][i]] = c
    /\ \A i \in DOMAIN queue : Carries(queue[i].r, queue[i].s)
    /\ \A i \in DOMAIN queue : queue[i].task = "answer" => queue[i].s \in created
    /\ \A p \in calls : Carries(p[1], p[2]) /\ p[2] \in created
    /\ \A c \in Conns : \A i \in DOMAIN out[c] : Due(out[c][i], c)
    /\ \A c \in Conns : \A r \in written[c] : Due(r, c)

GateInv == Inv /\ Types /\ OwnSessions /\ Travels

-----------------------------------------------------------------------------
\* What is left of a sequence without its head.
LEMMA TailFacts ==
    ASSUME NEW S, NEW q \in Seq(S), q # <<>>
    PROVE  /\ Head(q) = q[1] /\ 1 \in DOMAIN q /\ q[1] \in S /\ Tail(q) \in Seq(S)
           /\ \A i \in DOMAIN Tail(q) : i + 1 \in DOMAIN q /\ Tail(q)[i] = q[i + 1]
OBVIOUS

\* What is in a sequence with one element more.
LEMMA AppendFacts ==
    ASSUME NEW S, NEW q \in Seq(S), NEW e \in S
    PROVE  /\ Append(q, e) \in Seq(S)
           /\ \A i \in DOMAIN Append(q, e) :
                 Append(q, e)[i] = e \/ (i \in DOMAIN q /\ Append(q, e)[i] = q[i])
OBVIOUS

\* A step loses no request and takes no connection back to an earlier stage.
Stable ==
    /\ from' \in Seq(Conns) /\ DOMAIN from \subseteq DOMAIN from'
    /\ \A r \in DOMAIN from : from'[r] = from[r]
    /\ \A c \in Conns : st[c] \in {"reading", "left"} =>
          st'[c] \in {"reading", "left"} /\ got'[c] = got[c]
    /\ \A c \in Conns : own[c] # NoSession => own'[c] = own[c]

\* What a request travels with stays right in a stable step.
LEMMA CarriesStays ==
    ASSUME Types, Stable, NEW r, NEW s, Carries(r, s)
    PROVE  Carries(r, s)'
<1>1. from[r] \in Conns
  BY DEF Types, Carries
<1> QED
  BY <1>1 DEF Stable, Carries

\* So does where its response may be.
LEMMA DueStays ==
    ASSUME Types, Stable, NEW r, NEW c \in Conns, Due(r, c)
    PROVE  Due(r, c)'
<1>1. own'[c] = own[c] /\ own[c] # NoSession
  BY DEF Stable, Due
<1>2. PICK s : s = own[c]
  OBVIOUS
<1>3. Carries(r, s)
  BY <1>2 DEF Due
<1>4. Carries(r, s)'
  BY <1>3, CarriesStays
<1> QED
  BY <1>1, <1>2, <1>4 DEF Due

\* The operations of the gate that change sessions are those of SessionManager.
LEMMA GateUsesSessions ==
    ASSUME Inv, Types, [Next]_vars
    PROVE  [NextSessions]_sessions
<1>1. ASSUME NEW a \in Addrs, NEW u \in Uids \cup {NoUid}, Bind(a, u)
      PROVE  NextSessions
  <2>1. CASE byConn[a] # NoSession
    <3>1. byConn[a] \in SessionIDs
      BY <2>1 DEF Inv, SessionsTypeOK
    <3>2. BindSession(byConn[a], a, u)
      BY <1>1, <2>1 DEF Bind, BindSession
    <3> QED
      BY <3>1, <3>2 DEF NextSessions
  <2>2. CASE byConn[a] = NoSession
    <3>1. Fresh \in SessionIDs /\ BindSession(Fresh, a, u)
      BY <1>1, <2>2 DEF Bind, BindSession
    <3> QED
      BY <3>1 DEF NextSessions
  <2> QED
    BY <2>1, <2>2
<1>2. ASSUME NEW c \in Conns, HandleConn(c) PROVE NextSessions
  <2>1. Fresh \in SessionIDs /\ addr[c] \in Addrs /\ OnConnect(Fresh, addr[c])
    BY <1>2 DEF HandleConn, OnConnect, Types
  <2> QED
    BY <2>1 DEF NextSessions
<1>3. ASSUME NEW c \in Conns, Leave(c) PROVE NextSessions
  BY <1>3, Zenon DEF Leave, Types, NextSessions
<1>4. ASSUME NEW c \in Conns,
             \/ \E a \in Addrs : Accept(c, a)
             \/ StartRecv(c) \/ Send(c) \/ Close(c) \/ Receive(c) \/ Write(c)
      PROVE  UNCHANGED sessions
  BY <1>4 DEF Accept, StartRecv, Send, Close, Receive, Write
<1>5. ASSUME HandlePacket \/ RunCallback \/ \E r \in Requests, s \in SessionIDs : Answer(r, s)
      PROVE  UNCHANGED sessions
  BY <1>5, Zenon DEF HandlePacket, RunCallback, Answer
<1>6. CASE UNCHANGED vars
  BY <1>6 DEF vars
<1> QED
  BY <1>1, <1>2, <1>3, <1>4, <1>5, <1>6 DEF Next

-----------------------------------------------------------------------------
\* Steps that concern connections and sessions only move no request.
LEMMA TravelsStays ==
    ASSUME GateInv, Stable, UNCHANGED <<inbox, queue, calls, out, written>>,
           created \subseteq created'
    PROVE  Travels'
<1> USE DEF GateInv
<1>1. \A c \in Conns : \A i \in DOMAIN inbox'[c] :
          inbox'[c][i] \in DOMAIN from' /\ from'[inbox'[c][i]] = c
  BY DEF Travels, Stable
<1>2. ASSUME NEW i \in DOMAIN queue'
      PROVE  Carries(queue[i].r, queue[i].s)' /\ (queue'[i].task = "answer" => queue'[i].s \in created')
  <2>1. PICK r, s : r = queue[i].r /\ s = queue[i].s
    OBVIOUS
  <2>2. Carries(r, s)
    BY <1>2, <2>1 DEF Travels
  <2>3. Carries(r, s)'
    BY <2>2, CarriesStays
  <2> QED
    BY <1>2, <2>1, <2>3 DEF Travels
<1>3. ASSUME NEW p \in calls' PROVE Carries(p[1], p[2])' /\ p[2] \in created'
  BY <1>3, CarriesStays DEF Travels
<1>4. ASSUME NEW c \in Conns, NEW i \in DOMAIN out'[c] PROVE Due(out[c][i], c)'
  <2>1. PICK r : r = out[c][i]
    OBVIOUS
  <2>2. Due(r, c)'
    BY <1>4, <2>1, DueStays DEF Travels
  <2> QED
    BY <2>1, <2>2
<1>5. ASSUME NEW c \in Conns, NEW r \in written'[c] PROVE Due(r, c)'
  BY <1>5, DueStays DEF Travels
<1> QED
  BY <1>1, <1>2, <1>3, <1>4, <1>5 DEF Travels

Rest == Types' /\ OwnSessions' /\ Travels'

\* A connection is accepted: it has no session yet.
LEMMA AcceptStep == ASSUME GateInv, NEW c \in Conns, NEW a \in Addrs, Accept(c, a) PROVE Rest
<1> USE DEF GateInv, Accept, sessions, traffic
<1>1. Types'
  BY DEF Types, Stages
<1>2. OwnSessions'
  BY DEF OwnSessions, Types
<1>3. Stable
  BY DEF Stable, Types
<1> QED
  BY <1>1, <1>2, <1>3, TravelsStays DEF Rest

\* handleConn gives the connection a session that no other one has.
LEMMA HandleConnStep == ASSUME GateInv, NEW c \in Conns, HandleConn(c) PROVE Rest
<1> USE SessionConstants DEF GateInv, HandleConn, traffic
<1>1. PICK s \in SessionIDs \ created : s = Fresh
  BY DEF OnConnect
<1>2. /\ created' = created \cup {s}
      /\ connID' = [connID EXCEPT ![s] = addr[c]]
      /\ byConn' = [byConn EXCEPT ![addr[c]] = s]
      /\ own' = [own EXCEPT ![c] = s]
  BY <1>1, Zenon DEF OnConnect, Enter
<1>3. Types'
  BY <1>2, Zenon DEF Types, Stages
<1>4. Stable
  BY <1>2 DEF Stable, Types, OwnSessions
<1>5. OwnSessions'
  <2>1. \A d \in Conns : own[d] # s
    BY <1>1, Zenon DEF Types
  <2>2. \A d \in Conns : st'[d] \in {"none", "accepted"} <=> own'[d] = NoSession
    BY <1>2 DEF Types, OwnSessions
  <2>3. \A d \in Conns : own'[d] # NoSession => connID'[own'[d]] = addr'[d]
    BY <1>2, <2>1 DEF Types, OwnSessions, Inv, SessionsTypeOK
  <2>4. \A d, e \in Conns : own'[d] = own'[e] /\ own'[d] # NoSession => d = e
    BY <1>2, <2>1 DEF Types, OwnSessions
  <2>5. \A d \in Conns : st'[d] = "left" => \A a \in Addrs : own'[d] # byConn'[a]
    BY <1>2, <2>1 DEF Types, OwnSessions, Inv, SessionsTypeOK
  <2> QED
    BY <2>2, <2>3, <2>4, <2>5, Zenon DEF OwnSessions
<1> QED
  BY <1>2, <1>3, <1>4, <1>5, TravelsStays, Zenon DEF Rest

\* recvLoop takes whatever session its address has.
LEMMA StartRecvStep == ASSUME GateInv, NEW c \in Conns, StartRecv(c) PROVE Rest
<1> USE DEF GateInv, StartRecv, sessions, traffic
<1>1. Types'
  BY Zenon DEF Types, Stages, Inv, SessionsTypeOK
<1>2. OwnSessions'
  BY DEF OwnSessions, Types
<1>3. Stable
  BY Zenon DEF Stable, Types
<1> QED
  BY <1>1, <1>2, <1>3, TravelsStays DEF Rest

\* recvLoop ends: OnDisconnect frees the address, and no other address leads
\* to the session of the connection.
LEMMA LeaveStep == ASSUME GateInv, NEW c \in Conns, Leave(c) PROVE Rest
<1> USE SessionConstants DEF GateInv, Leave, traffic
<1>1. /\ byConn' = [byConn EXCEPT ![addr[c]] = NoSession]
      /\ UNCHANGED <<created, connID>>
  BY Zenon DEF OnDisconnect, Free
<1>2. Types'
  BY <1>1, Zenon DEF Types, Stages
<1>3. Stable
  BY Zenon DEF Stable, Types
<1>4. ASSUME NEW d \in Conns, st'[d] = "left", NEW a \in Addrs PROVE own'[d] # byConn'[a]
  <2>1. own[d] # NoSession /\ connID[own[d]] = addr[d]
    BY <1>4, Zenon DEF Types, OwnSessions
  <2>2. CASE d = c
    BY <1>1, <2>1, <2>2, Zenon DEF Types, Inv, SessionsTypeOK, IndexAgrees
  <2>3. CASE d # c
    BY <1>1, <1>4, <2>1, <2>3, Zenon DEF Types, OwnSessions, Inv, SessionsTypeOK
  <2> QED
    BY <2>2, <2>3
<1>5. OwnSessions'
  BY <1>1, <1>4 DEF OwnSessions, Types
<1> QED
  BY <1>1, <1>2, <1>3, <1>5, TravelsStays, Zenon DEF Rest

\* BindSession makes sessions that belong to no connection.
LEMMA BindStep ==
    ASSUME GateInv, NEW a \in Addrs, NEW u \in Uids \cup {NoUid}, Bind(a, u)
    PROVE  Rest
<1> USE SessionConstants DEF GateInv, Bind, clients, traffic
<1>1. Stable
  BY Zenon DEF Stable, Types
<1>2. CASE byConn[a] # NoSession
  <2>1. UNCHANGED <<byConn, created, connID>>
    BY <1>2 DEF BindSession
  <2> QED
    BY <1>1, <2>1, TravelsStays DEF Rest, Types, OwnSessions
<1>3. CASE byConn[a] = NoSession
  <2>1. PICK s \in SessionIDs \ created : s = Fresh
    BY <1>3 DEF BindSession
  <2>2. /\ created' = created \cup {s}
        /\ connID' = [connID EXCEPT ![s] = a]
        /\ byConn' = [byConn EXCEPT ![a] = s]
    BY <1>3, <2>1, Zenon DEF BindSession
  <2>3. Types'
    BY <2>2, Zenon DEF Types
  <2>4. OwnSessions'
    BY <2>1, <2>2 DEF OwnSessions, Types, Inv, SessionsTypeOK
  <2> QED
    BY <1>1, <2>2, <2>3, <2>4, TravelsStays DEF Rest
<1> QED
  BY <1>2, <1>3, Zenon

-----------------------------------------------------------------------------
\* Steps that move requests leave the sessions of the connections alone.
LEMMA OwnSessionsStay ==
    ASSUME OwnSessions, UNCHANGED <<sessions, st, addr, own>> PROVE OwnSessions'
BY Zenon DEF OwnSessions, sessions

\* A request gets the number of the connection that sends it.
LEMMA SendStep == ASSUME GateInv, NEW c \in Conns, Send(c) PROVE Rest
<1> USE DEF GateInv, Send, clients
<1>1. from' = Append(from, c) /\ Len(from') = Len(from) + 1
      /\ inbox' = [inbox EXCEPT ![c] = Append(@, Len(from) + 1)]
  BY DEF Types
<1>2. Types'
  BY <1>1 DEF Types, sessions
<1>3. Stable
  <2>1. from \in Seq(Conns) /\ UNCHANGED <<st, got, own>>
    BY DEF Types
  <2> HIDE DEF GateInv, Send, clients
  <2>2. /\ from' \in Seq(Conns) /\ DOMAIN from \subseteq DOMAIN from'
        /\ \A r \in DOMAIN from : from'[r] = from[r]
    BY <1>1, <2>1
  <2> QED
    BY <2>1, <2>2 DEF Stable
<1>4. \A d \in Conns : \A i \in DOMAIN inbox'[d] :
          inbox'[d][i] \in DOMAIN from' /\ from'[inbox'[d][i]] = d
  <2> SUFFICES ASSUME NEW d \in Conns, NEW i \in DOMAIN inbox'[d]
               PROVE  inbox'[d][i] \in DOMAIN from' /\ from'[inbox'[d][i]] = d
    BY Zenon
  <2>1. CASE i \in DOMAIN inbox[d]
    <3>1. inbox'[d][i] = inbox[d][i]
      BY <1>1, <2>1 DEF Types
    <3> QED
      BY <1>3, <2>1, <3>1 DEF Travels, Stable
  <2>2. CASE i \notin DOMAIN inbox[d]
    <3>1. d = c
      BY <1>1, <2>2 DEF Types
    <3>2. inbox'[c] = Append(inbox[c], Len(from) + 1) /\ inbox[c] \in Seq(Nat)
      BY <1>1 DEF Types
    <3>3. inbox'[d][i] = Len(from) + 1
      BY <2>2, <3>1, <3>2
    <3> QED
      BY <1>1, <3>1, <3>3 DEF Types
  <2> QED
    BY <2>1, <2>2, Zenon
<1>5. ASSUME NEW i \in DOMAIN queue'
      PROVE  Carries(queue[i].r, queue[i].s)' /\ (queue'[i].task = "answer" => queue'[i].s \in created')
  <2>1. PICK r, s : r = queue[i].r /\ s = queue[i].s
    BY Zenon
  <2>2. Carries(r, s)'
    BY <1>3, <1>5, <2>1, CarriesStays DEF Travels
  <2> QED
    BY <1>5, <2>1, <2>2 DEF Travels, sessions
<1>6. ASSUME NEW p \in calls' PROVE Carries(p[1], p[2])' /\ p[2] \in created'
  BY <1>3, <1>6, CarriesStays DEF Travels, sessions
<1>7. ASSUME NEW d \in Conns, NEW i \in DOMAIN out'[d] PROVE Due(out[d][i], d)'
  <2>1. PICK r : r = out[d][i]
    BY Zenon
  <2>2. Due(r, d)'
    BY <1>3, <1>7, <2>1, DueStays, Zenon DEF Travels
  <2> QED
    BY <2>1, <2>2
<1>8. ASSUME NEW d \in Conns, NEW r \in written'[d] PROVE Due(r, d)'
  BY <1>3, <1>8, DueStays, Zenon DEF Travels
<1> QED
  BY <1>2, <1>4, <1>5, <1>6, <1>7, <1>8, OwnSessionsStay, Zenon DEF Rest, Travels

\* Steps that only move requests keep the invariant if they move them rightly.
LEMMA TravelsMoved ==
    ASSUME UNCHANGED <<from, st, got, own, created>>,
           \A c \in Conns : \A i \in DOMAIN inbox'[c] :
               inbox'[c][i] \in DOMAIN from /\ from[inbox'[c][i]] = c,
           \A i \in DOMAIN queue' : /\ Carries(queue'[i].r, queue'[i].s)
                                    /\ queue'[i].task = "answer" => queue'[i].s \in created,
           \A p \in calls' : Carries(p[1], p[2]) /\ p[2] \in created,
           \A c \in Conns : \A i \in DOMAIN out'[c] : Due(out'[c][i], c),
           \A c \in Conns : \A r \in written'[c] : Due(r, c)
    PROVE  Travels'
<1>1. /\ \A r, s : Carries(r, s) => Carries(r, s)'
      /\ \A r, c : Due(r, c) => Due(r, c)'
  BY Zenon DEF Carries, Due
<1> QED
  BY <1>1 DEF Travels, Carries, Due

\* The main loop's queue after a task was posted, or taken.
LEMMA QueueAppends ==
    ASSUME Travels, queue \in Seq(Tasks), NEW t \in Tasks, queue' = Append(queue, t),
           Carries(t.r, t.s), t.task = "answer" => t.s \in created
    PROVE  /\ queue' \in Seq(Tasks)
           /\ \A i \in DOMAIN queue' : /\ Carries(queue'[i].r, queue'[i].s)
                                       /\ queue'[i].task = "answer" => queue'[i].s \in created
<1>1. /\ queue' \in Seq(Tasks)
      /\ \A i \in DOMAIN queue' : queue'[i] = t \/ (i \in DOMAIN queue /\ queue'[i] = queue[i])
  BY AppendFacts
<1> QED
  BY <1>1 DEF Travels

\* The main loop's queue after its oldest task was taken.
LEMMA QueueTails ==
    ASSUME Travels, queue \in Seq(Tasks), queue # <<>>, queue' = Tail(queue)
    PROVE  /\ queue' \in Seq(Tasks)
           /\ Head(queue) \in Tasks /\ Carries(Head(queue).r, Head(queue).s)
           /\ Head(queue).task = "answer" => Head(queue).s \in created
           /\ \A i \in DOMAIN queue' : /\ Carries(queue'[i].r, queue'[i].s)
                                       /\ queue'[i].task = "answer" => queue'[i].s \in created
<1>1. /\ Head(queue) = queue[1] /\ 1 \in DOMAIN queue /\ queue[1] \in Tasks
      /\ queue' \in Seq(Tasks)
      /\ \A i \in DOMAIN queue' : i + 1 \in DOMAIN queue /\ queue'[i] = queue[i + 1]
  BY TailFacts
<1> QED
  BY <1>1 DEF Travels

\* The receive queues B after the connection c took a packet, where f tells
\* the connection of each request.
LEMMA BoxTails ==
    ASSUME NEW B \in [Conns -> Seq(Nat)], NEW c \in Conns, B[c] # <<>>, NEW f,
           \A d \in Conns : \A i \in DOMAIN B[d] : B[d][i] \in DOMAIN f /\ f[B[d][i]] = d,
           NEW C, C = [B EXCEPT ![c] = Tail(B[c])]
    PROVE  /\ C \in [Conns -> Seq(Nat)]
           /\ Head(B[c]) \in Nat /\ Head(B[c]) \in DOMAIN f /\ f[Head(B[c])] = c
           /\ \A d \in Conns : \A i \in DOMAIN C[d] : C[d][i] \in DOMAIN f /\ f[C[d][i]] = d
<1>1. PICK q \in Seq(Nat) : q = B[c]
  OBVIOUS
<1>2. PICK w : w = Tail(q)
  BY Zenon
<1>3. q # <<>>
  BY <1>1
<1>4. /\ w \in Seq(Nat) /\ Head(q) = q[1] /\ 1 \in DOMAIN q /\ q[1] \in Nat
      /\ \A i \in DOMAIN w : i + 1 \in DOMAIN q /\ w[i] = q[i + 1]
  BY <1>2, <1>3, TailFacts
<1>5. C = [B EXCEPT ![c] = w]
  BY <1>1, <1>2
<1>6. C \in [Conns -> Seq(Nat)] /\ C[c] = w /\ \A d \in Conns \ {c} : C[d] = B[d]
  BY <1>4, <1>5
<1>7. \A i \in DOMAIN q : q[i] \in DOMAIN f /\ f[q[i]] = c
  BY <1>1
<1>8. \A i \in DOMAIN w : w[i] \in DOMAIN f /\ f[w[i]] = c
  BY <1>4, <1>7
<1>9. Head(B[c]) \in Nat /\ Head(B[c]) \in DOMAIN f /\ f[Head(B[c])] = c
  BY <1>1, <1>4, <1>7, Zenon
<1>10. ASSUME NEW d \in Conns, NEW i \in DOMAIN C[d]
       PROVE  C[d][i] \in DOMAIN f /\ f[C[d][i]] = d
  <2>1. CASE d = c
    BY <1>6, <1>8, <1>10, <2>1, Zenon
  <2>2. CASE d # c
    <3>1. C[d] = B[d]
      BY <1>6, <2>2
    <3> QED
      BY <1>10, <3>1
  <2> QED
    BY <2>1, <2>2, Zenon
<1> QED
  BY <1>6, <1>9, <1>10, Zenon

\* The send queues B after the response to r was put in that of c.
LEMMA OutAppends ==
    ASSUME NEW B \in [Conns -> Seq(Nat)], NEW c \in Conns, NEW r \in Nat, Due(r, c),
           \A d \in Conns : \A i \in DOMAIN B[d] : Due(B[d][i], d),
           NEW C, C = [B EXCEPT ![c] = Append(B[c], r)]
    PROVE  /\ C \in [Conns -> Seq(Nat)]
           /\ \A d \in Conns : \A i \in DOMAIN C[d] : Due(C[d][i], d)
<1>1. PICK q \in Seq(Nat) : q = B[c]
  OBVIOUS
<1>2. PICK w : w = Append(q, r)
  BY Zenon
<1>3. /\ w \in Seq(Nat)
      /\ \A i \in DOMAIN w : w[i] = r \/ (i \in DOMAIN q /\ w[i] = q[i])
  BY <1>2, AppendFacts
<1>4. C = [B EXCEPT ![c] = w]
  BY <1>1, <1>2
<1>5. C \in [Conns -> Seq(Nat)] /\ C[c] = w /\ \A d \in Conns \ {c} : C[d] = B[d]
  BY <1>3, <1>4
<1>6. \A i \in DOMAIN w : Due(w[i], c)
  <2>1. \A i \in DOMAIN q : Due(q[i], c)
    BY <1>1, Zenon
  <2> QED
    BY <1>3, <2>1, Zenon
<1> QED
  BY <1>5, <1>6

\* recvLoop hands the request to the main loop with the session it found.
LEMMA ReceiveStep == ASSUME GateInv, NEW c \in Conns, Receive(c) PROVE Rest
<1> DEFINE t == [task |-> "packet", r |-> Head(inbox[c]), s |-> got[c]]
<1>1. /\ UNCHANGED <<sessions, st, addr, open, own, got, from, calls, out, written, created>>
      /\ queue' = Append(queue, t) /\ st[c] = "reading" /\ inbox[c] # <<>>
      /\ inbox' = [inbox EXCEPT ![c] = Tail(@)]
  BY DEF Receive, clients, sessions
<1>2. Inv /\ Types /\ OwnSessions /\ Travels
  BY DEF GateInv
<1>3. inbox \in [Conns -> Seq(Nat)] /\ queue \in Seq(Tasks)
  BY <1>2, Zenon DEF Types
<1>4. \A d \in Conns : \A i \in DOMAIN inbox[d] :
          inbox[d][i] \in DOMAIN from /\ from[inbox[d][i]] = d
  BY <1>2, Zenon DEF Travels
<1>5. /\ inbox' \in [Conns -> Seq(Nat)]
      /\ Head(inbox[c]) \in Nat /\ Head(inbox[c]) \in DOMAIN from /\ from[Head(inbox[c])] = c
      /\ \A d \in Conns : \A i \in DOMAIN inbox'[d] :
            inbox'[d][i] \in DOMAIN from /\ from[inbox'[d][i]] = d
  <2>1. PICK C : C = inbox' /\ C = [inbox EXCEPT ![c] = Tail(inbox[c])]
    BY <1>1
  <2> QED
    BY <1>1, <1>3, <1>4, <2>1, BoxTails
<1>6. got[c] \in SessionIDs \cup {NoSession}
  BY <1>2 DEF Types, Inv, SessionsTypeOK
<1>7. t \in Tasks /\ Carries(t.r, t.s) /\ t.task # "answer"
  BY <1>1, <1>5, <1>6, Zenon DEF Tasks, Carries
<1> HIDE DEF t
<1>8. /\ queue' \in Seq(Tasks)
      /\ \A i \in DOMAIN queue' : /\ Carries(queue'[i].r, queue'[i].s)
                                  /\ queue'[i].task = "answer" => queue'[i].s \in created
  BY <1>1, <1>2, <1>3, <1>7, QueueAppends
<1>9. Types'
  BY <1>1, <1>2, <1>5, <1>8, Zenon DEF Types, sessions
<1>10. Travels'
  <2>1. /\ \A p \in calls' : Carries(p[1], p[2]) /\ p[2] \in created
        /\ \A d \in Conns : \A i \in DOMAIN out'[d] : Due(out'[d][i], d)
        /\ \A d \in Conns : \A r \in written'[d] : Due(r, d)
    BY <1>1, <1>2 DEF Travels
  <2> QED
    BY <1>1, <1>5, <1>8, <2>1, TravelsMoved, Zenon
<1> QED
  BY <1>1, <1>2, <1>9, <1>10, OwnSessionsStay, Zenon DEF Rest

\* writeLoop writes what was due in the connection.
LEMMA WriteStep == ASSUME GateInv, NEW c \in Conns, Write(c) PROVE Rest
<1>1. /\ UNCHANGED <<sessions, st, addr, open, own, got, from, inbox, queue, calls, created>>
      /\ written' = [written EXCEPT ![c] = @ \cup {out[c][i] : i \in 1..Len(out[c])}]
      /\ out' = [out EXCEPT ![c] = <<>>]
  BY DEF Write, clients, sessions
<1>2. Inv /\ Types /\ OwnSessions /\ Travels
  BY DEF GateInv
<1>3. /\ written \in [Conns -> SUBSET Nat] /\ out \in [Conns -> Seq(Nat)]
      /\ out[c] \in Seq(Nat)
  BY <1>2 DEF Types
<1>4. /\ written'[c] = written[c] \cup {out[c][i] : i \in 1..Len(out[c])}
      /\ \A d \in Conns \ {c} : written'[d] = written[d]
  BY <1>1, <1>3
<1>5. 1..Len(out[c]) = DOMAIN out[c] /\ \A i \in 1..Len(out[c]) : out[c][i] \in Nat
  BY <1>3
<1>6. out' \in [Conns -> Seq(Nat)] /\ out'[c] = <<>> /\ \A d \in Conns \ {c} : out'[d] = out[d]
  BY <1>1, <1>3
<1>7. \A d \in Conns : \A r \in written'[d] : Due(r, d)
  <2>1. \A r \in written[c] : Due(r, c)
    BY <1>2, Zenon DEF Travels
  <2>2. \A i \in 1..Len(out[c]) : Due(out[c][i], c)
    BY <1>2, <1>5, Zenon DEF Travels
  <2>3. \A r \in written'[c] : Due(r, c)
    BY <1>4, <2>1, <2>2, Zenon
  <2> QED
    BY <1>2, <1>4, <2>3 DEF Travels
<1>8. \A d \in Conns : \A i \in DOMAIN out'[d] : Due(out'[d][i], d)
  <2>1. DOMAIN out'[c] = {}
    BY <1>6
  <2> QED
    BY <1>2, <1>6, <2>1, Zenon DEF Travels
<1>9. written' \in [Conns -> SUBSET Nat]
  BY <1>1, <1>3, <1>5, Zenon
<1>10. Types'
  BY <1>1, <1>2, <1>6, <1>9, Zenon DEF Types, sessions
<1>11. Travels'
  <2>1. /\ \A d \in Conns : \A i \in DOMAIN inbox'[d] :
              inbox'[d][i] \in DOMAIN from /\ from[inbox'[d][i]] = d
        /\ \A i \in DOMAIN queue' : /\ Carries(queue'[i].r, queue'[i].s)
                                    /\ queue'[i].task = "answer" => queue'[i].s \in created
        /\ \A p \in calls' : Carries(p[1], p[2]) /\ p[2] \in created
    BY <1>1, <1>2 DEF Travels
  <2> QED
    BY <1>1, <1>7, <1>8, <2>1, TravelsMoved, Zenon
<1> QED
  BY <1>1, <1>2, <1>10, <1>11, OwnSessionsStay, Zenon DEF Rest

\* The main loop forwards a request with its session, or drops it.
LEMMA HandlePacketStep == ASSUME GateInv, HandlePacket PROVE Rest
<1> DEFINE t == Head(queue)
<1>1. /\ UNCHANGED <<sessions, st, addr, open, own, got, from, inbox, out, written, created>>
      /\ queue # <<>> /\ queue' = Tail(queue)
      /\ calls' = calls \/ (t.s # NoSession /\ calls' = calls \cup {<<t.r, t.s>>})
  BY DEF HandlePacket, Forward, clients, sessions
<1>2. Inv /\ Types /\ OwnSessions /\ Travels
  BY DEF GateInv
<1>3. queue \in Seq(Tasks) /\ calls \in SUBSET (Nat \X (SessionIDs \cup {NoSession}))
  BY <1>2, Zenon DEF Types
<1>4. /\ queue' \in Seq(Tasks) /\ t \in Tasks /\ Carries(t.r, t.s)
      /\ \A i \in DOMAIN queue' : /\ Carries(queue'[i].r, queue'[i].s)
                                  /\ queue'[i].task = "answer" => queue'[i].s \in created
  BY <1>1, <1>2, <1>3, QueueTails, Zenon
<1> HIDE DEF t
<1>5. t.s # NoSession => t.s \in created
  BY <1>2, <1>4 DEF Carries, Types
<1>6. \A p \in calls' : Carries(p[1], p[2]) /\ p[2] \in created
  <2>1. \A p \in calls : Carries(p[1], p[2]) /\ p[2] \in created
    BY <1>2 DEF Travels
  <2>2. \A p \in calls' : p \in calls \/ (p = <<t.r, t.s>> /\ t.s # NoSession)
    BY <1>1
  <2>3. Carries(t.r, t.s)
    BY <1>4
  <2>4. \A p : p = <<t.r, t.s>> => p[1] = t.r /\ p[2] = t.s
    OBVIOUS
  <2> QED
    BY <1>5, <2>1, <2>2, <2>3, <2>4, Zenon
<1>7. calls' \in SUBSET (Nat \X (SessionIDs \cup {NoSession}))
  <2>1. t.r \in Nat /\ t.s \in SessionIDs \cup {NoSession}
    BY <1>4, Zenon DEF Tasks
  <2> QED
    BY <1>1, <1>3, <2>1
<1>8. Types'
  BY <1>1, <1>2, <1>4, <1>7, Zenon DEF Types, sessions
<1>9. Travels'
  <2>1. /\ \A d \in Conns : \A i \in DOMAIN inbox'[d] :
              inbox'[d][i] \in DOMAIN from /\ from[inbox'[d][i]] = d
        /\ \A d \in Conns : \A i \in DOMAIN out'[d] : Due(out'[d][i], d)
        /\ \A d \in Conns : \A r \in written'[d] : Due(r, d)
    BY <1>1, <1>2, Zenon DEF Travels
  <2> QED
    BY <1>1, <1>4, <1>6, <2>1, TravelsMoved, Zenon
<1> QED
  BY <1>1, <1>2, <1>8, <1>9, OwnSessionsStay, Zenon DEF Rest

\* The callback of a call is queued with the session of the call.
LEMMA AnswerStep ==
    ASSUME GateInv, NEW r \in Requests, NEW s \in SessionIDs, Answer(r, s)
    PROVE  Rest
<1> DEFINE t == [task |-> "answer", r |-> r, s |-> s]
<1>1. /\ UNCHANGED <<sessions, st, addr, open, own, got, from, inbox, out, written, created>>
      /\ queue' = Append(queue, t) /\ <<r, s>> \in calls /\ calls' = calls \ {<<r, s>>}
  BY DEF Answer, clients, sessions
<1>2. Inv /\ Types /\ OwnSessions /\ Travels
  BY DEF GateInv
<1>3. queue \in Seq(Tasks) /\ calls \in SUBSET (Nat \X (SessionIDs \cup {NoSession}))
  BY <1>2, Zenon DEF Types
<1>4. t \in Tasks /\ Carries(t.r, t.s) /\ t.s \in created
  BY <1>1, <1>2, <1>3, Zenon DEF Tasks, Travels
<1> HIDE DEF t
<1>5. /\ queue' \in Seq(Tasks)
      /\ \A i \in DOMAIN queue' : /\ Carries(queue'[i].r, queue'[i].s)
                                  /\ queue'[i].task = "answer" => queue'[i].s \in created
  BY <1>1, <1>2, <1>3, <1>4, QueueAppends, Zenon
<1>6. Types'
  BY <1>1, <1>2, <1>3, <1>5, Zenon DEF Types, sessions
<1>7. Travels'
  <2>1. /\ \A d \in Conns : \A i \in DOMAIN inbox'[d] :
              inbox'[d][i] \in DOMAIN from /\ from[inbox'[d][i]] = d
        /\ \A p \in calls' : Carries(p[1], p[2]) /\ p[2] \in created
        /\ \A d \in Conns : \A i \in DOMAIN out'[d] : Due(out'[d][i], d)
        /\ \A d \in Conns : \A q \in written'[d] : Due(q, d)
    BY <1>1, <1>2 DEF Travels
  <2> QED
    BY <1>1, <1>5, <2>1, TravelsMoved, Zenon
<1> QED
  BY <1>1, <1>2, <1>6, <1>7, OwnSessionsStay, Zenon DEF Rest

\* The connection that a session leads to is the one that owns it.
LEMMA ConnOfOwns ==
    ASSUME NEW s, ConnOf(s) \in Conns PROVE own[ConnOf(s)] = s
BY DEF ConnOf, Conns, NoConn

\* The callback of a call puts its response only in the connection that owns
\* the session the call was made with.
LEMMA RunCallbackStep == ASSUME GateInv, RunCallback PROVE Rest
<1> DEFINE r == Head(queue).r
           s == Head(queue).s
           c == ConnOf(byConn[connID[s]])
<1>1. /\ UNCHANGED <<sessions, st, addr, open, own, got, from, inbox, calls, written, created>>
      /\ queue # <<>> /\ queue' = Tail(queue) /\ Head(queue).task = "answer"
  BY Zenon DEF RunCallback, clients, sessions
<1>2. Inv /\ Types /\ OwnSessions /\ Travels
  BY DEF GateInv
<1>3. \/ out' = out
      \/ /\ c \in Conns /\ Current(s)
         /\ out' = [out EXCEPT ![c] = Append(@, r)]
  BY <1>2, Zenon DEF RunCallback, Types
<1>4. queue \in Seq(Tasks) /\ out \in [Conns -> Seq(Nat)]
  BY <1>2, Zenon DEF Types
<1>5. /\ queue' \in Seq(Tasks) /\ Head(queue) \in Tasks /\ Carries(r, s) /\ s \in created
      /\ \A i \in DOMAIN queue' : /\ Carries(queue'[i].r, queue'[i].s)
                                  /\ queue'[i].task = "answer" => queue'[i].s \in created
  BY <1>1, <1>2, <1>4, QueueTails, Zenon
<1>6. r \in Nat
  BY <1>5, Zenon DEF Tasks
<1>7. c \in Conns /\ Current(s) => Due(r, c)
  <2> SUFFICES ASSUME c \in Conns, Current(s) PROVE Due(r, c)
    BY Zenon
  <2>1. own[c] = s
    BY ConnOfOwns, Zenon DEF Current
  <2>2. s # NoSession
    BY <1>2, <1>5, SessionConstants, Zenon DEF Inv, SessionsTypeOK
  <2> HIDE DEF r, s, c
  <2> QED
    BY <1>5, <2>1, <2>2, Zenon DEF Due
<1> HIDE DEF r, c, s
<1>8. /\ out' \in [Conns -> Seq(Nat)]
      /\ \A d \in Conns : \A i \in DOMAIN out'[d] : Due(out'[d][i], d)
  <2>1. CASE out' = out
    BY <1>2, <1>4, <2>1, Zenon DEF Travels
  <2>2. CASE c \in Conns /\ Current(s) /\ out' = [out EXCEPT ![c] = Append(@, r)]
    <3>1. PICK C : C = out' /\ C = [out EXCEPT ![c] = Append(out[c], r)]
      BY <2>2, Zenon
    <3>2. \A d \in Conns : \A i \in DOMAIN out[d] : Due(out[d][i], d)
      BY <1>2, Zenon DEF Travels
    <3> QED
      BY <1>4, <1>6, <1>7, <2>2, <3>1, <3>2, OutAppends, Zenon
  <2> QED
    BY <1>3, <2>1, <2>2, Zenon
<1>9. Types'
  BY <1>1, <1>2, <1>5, <1>8, Zenon DEF Types, sessions
<1>10. Travels'
  <2>1. /\ \A d \in Conns : \A i \in DOMAIN inbox'[d] :
              inbox'[d][i] \in DOMAIN from /\ from[inbox'[d][i]] = d
        /\ \A p \in calls' : Carries(p[1], p[2]) /\ p[2] \in created
        /\ \A d \in Conns : \A q \in written'[d] : Due(q, d)
    BY <1>1, <1>2 DEF Travels
  <2> QED
    BY <1>1, <1>5, <1>8, <2>1, TravelsMoved, Zenon
<1> QED
  BY <1>1, <1>2, <1>9, <1>10, OwnSessionsStay DEF Rest

-----------------------------------------------------------------------------
\* The gate starts without connections.
LEMMA InitGateInv == Init => GateInv
<1> SUFFICES ASSUME Init PROVE GateInv
  OBVIOUS
<1>1. Inv
  BY InitInv DEF Init
<1>2. (CHOOSE a \in Addrs : TRUE) \in Addrs
  BY SessionConstants, Zenon
<1>3. Types
  BY <1>2 DEF Init, Types, Stages
<1>4. OwnSessions
  BY Zenon DEF Init, OwnSessions
<1>5. Travels
  BY DEF Init, Travels
<1> QED
  BY <1>1, <1>3, <1>4, <1>5 DEF GateInv

\* Every step of the gate keeps the invariant.
LEMMA NextGateInv == GateInv /\ [Next]_vars => GateInv'
<1> SUFFICES ASSUME GateInv, [Next]_vars PROVE GateInv'
  OBVIOUS
<1>1. Inv'
  BY GateUsesSessions, NextInv, Zenon DEF GateInv
<1>2. ASSUME NEW c \in Conns, Close(c) PROVE Rest
  <2>1. Stable
    BY <1>2, Zenon DEF Stable, Close, GateInv, Types, traffic
  <2> QED
    BY <1>2, <2>1, TravelsStays, Zenon DEF Close, GateInv, Types, OwnSessions, Rest, traffic, sessions
<1>3. CASE UNCHANGED vars
  <2>1. Stable
    BY <1>3, Zenon DEF Stable, vars, GateInv, Types, traffic, clients
  <2> QED
    BY <1>1, <1>3, <2>1, TravelsStays, Zenon
       DEF vars, GateInv, Types, OwnSessions, Rest, traffic, clients, sessions
<1>4. CASE Next
  BY <1>1, <1>2, <1>4, AcceptStep, HandleConnStep, StartRecvStep, SendStep, ReceiveStep, LeaveStep,
     WriteStep, HandlePacketStep, RunCallbackStep, AnswerStep, BindStep DEF Next, Rest, GateInv
<1> QED
  BY <1>3, <1>4

\* What the gate relies on, along every behaviour.
THEOREM GateInvariance == Spec => []GateInv
BY InitGateInv, NextGateInv, PTL DEF Spec

\* The gate, with all its loops, is a user of SessionManager: what is proved of
\* the manager alone holds in it.
THEOREM GateImplementsSessions == Spec => SpecSessions
<1>1. Init => InitSessions
  BY DEF Init
<1>2. GateInv /\ [Next]_vars => [NextSessions]_sessions
  BY GateUsesSessions DEF GateInv
<1> QED
  BY <1>1, <1>2, GateInvariance, PTL DEF Spec, SpecSessions

\* No two sessions of the gate that can be reached carry the same user.
THEOREM GateOneSession == Spec => []OneSessionPerUser
BY GateImplementsSessions, OneSessionTheorem, PTL

\* OnDisconnect at the end of recvLoop removes the session of its connection,
\* or another connection has done so: none is left in the tables.
THEOREM GateSessionsCleaned == Spec => []SessionsCleaned
<1>1. GateInv => SessionsCleaned
  BY DEF GateInv, OwnSessions, SessionsCleaned
<1> QED
  BY <1>1, GateInvariance, PTL

\* A response is written to the connection that sent its request, if the
\* receive loop found the session of its own connection.
THEOREM GateResponseToRequester == Spec => []ResponseToRequester
<1>1. GateInv => ResponseToRequester
  <2> SUFFICES ASSUME GateInv, NEW c \in Conns, NEW r \in written[c],
                      got[from[r]] = own[from[r]]
               PROVE  from[r] = c
    BY Zenon DEF ResponseToRequester
  <2>1. Due(r, c) /\ from \in Seq(Conns)
    BY Zenon DEF GateInv, Travels, Types
  <2>2. own[c] # NoSession /\ own[c] = got[from[r]] /\ from[r] \in Conns
    BY <2>1 DEF Due, Carries
  <2> QED
    BY <2>2 DEF GateInv, OwnSessions
<1> QED
  BY <1>1, GateInvariance, PTL

\* Only accepted connections are open, and no send queue is over its capacity.
Queues ==
    /\ \A c \in open : st[c] # "none"
    /\ \A c \in Conns : Len(out[c]) <= SendCap

\* A connection stays accepted, and a callback puts a response only into a send
\* queue that has room.
LEMMA NextQueues == GateInv /\ Queues /\ [Next]_vars => Queues'
<1> SUFFICES ASSUME GateInv, Queues, [Next]_vars PROVE Queues'
  OBVIOUS
<1>0. /\ st \in [Conns -> Stages] /\ open \subseteq Conns /\ out \in [Conns -> Seq(Nat)]
      /\ queue \in Seq(Tasks)
  BY DEF GateInv, Types
<1>1. ASSUME NEW c \in Conns, NEW a \in Addrs, Accept(c, a) PROVE Queues'
  BY <1>0, <1>1 DEF Queues, Accept, traffic
<1>2. ASSUME NEW c \in Conns, HandleConn(c) PROVE Queues'
  BY <1>0, <1>2 DEF Queues, HandleConn, traffic
<1>3. ASSUME NEW c \in Conns, StartRecv(c) PROVE Queues'
  BY <1>0, <1>3 DEF Queues, StartRecv, traffic
<1>4. ASSUME NEW c \in Conns, Send(c) \/ Receive(c) PROVE Queues'
  BY <1>4, Zenon DEF Queues, Send, Receive, clients
<1>5. ASSUME NEW c \in Conns, Close(c) PROVE Queues'
  BY <1>5, Zenon DEF Queues, Close, traffic
<1>6. ASSUME NEW c \in Conns, Leave(c) PROVE Queues'
  BY <1>0, <1>6 DEF Queues, Leave, traffic
<1>7. ASSUME NEW c \in Conns, Write(c) PROVE Queues'
  <2>1. \A d \in Conns : out'[d] = IF d = c THEN <<>> ELSE out[d]
    BY <1>0, <1>7 DEF Write
  <2> QED
    BY <1>7, <2>1, GateConstants DEF Queues, Write, clients
<1>8. ASSUME NEW r \in Requests, NEW s \in SessionIDs, Answer(r, s) PROVE Queues'
  BY <1>8, Zenon DEF Queues, Answer, clients
<1>9. CASE HandlePacket
  BY <1>9, Zenon DEF Queues, HandlePacket, clients
<1>10. CASE RunCallback
  <2> DEFINE r == Head(queue).r
             c == ConnOf(byConn[connID[Head(queue).s]])
             takes == Current(Head(queue).s) /\ c \in open
  <2>1. /\ out' = IF takes /\ Room(c) THEN [out EXCEPT ![c] = Append(@, r)] ELSE out
        /\ UNCHANGED clients
    BY <1>10, Zenon DEF RunCallback
  <2>2. r \in Nat
    <3>1. queue # <<>>
      BY <1>10 DEF RunCallback
    <3>2. Head(queue) \in Tasks
      BY <1>0, <3>1, TailFacts
    <3> QED
      BY <3>2 DEF Tasks
  <2> HIDE DEF r, c
  <2>3. ASSUME NEW d \in Conns PROVE Len(out'[d]) <= SendCap
    <3>1. CASE takes /\ Room(c) /\ d = c
      <4>1. out'[d] = Append(out[d], r)
        BY <1>0, <2>1, <3>1
      <4>2. Len(Append(out[d], r)) = Len(out[d]) + 1 /\ Len(out[d]) \in Nat
        BY <1>0, <2>2
      <4> QED
        BY <3>1, <4>1, <4>2, GateConstants DEF Room
    <3>2. CASE ~(takes /\ Room(c) /\ d = c)
      <4>1. out'[d] = out[d]
        BY <1>0, <2>1, <3>2
      <4> QED
        BY <4>1 DEF Queues
    <3> QED
      BY <3>1, <3>2
  <2> QED
    BY <2>1, <2>3 DEF Queues, clients
<1>11. ASSUME NEW a \in Addrs, NEW u \in Uids \cup {NoUid}, Bind(a, u) PROVE Queues'
  BY <1>11, Zenon DEF Queues, Bind, clients, traffic
<1>12. CASE UNCHANGED vars
  BY <1>12, Zenon DEF Queues, vars, clients, traffic
<1> QED
  BY <1>1, <1>2, <1>3, <1>4, <1>5, <1>6, <1>7, <1>8, <1>9, <1>10, <1>11, <1>12 DEF Next

\* The types of the gate: the sessions of its connections were made by
\* OnConnect, and no response goes into a full send queue.
THEOREM GateTypes == Spec => []TypeOK
<1>1. Init => Queues
  BY GateConstants DEF Init, Queues
<1>2. Spec => []Queues
  BY <1>1, NextQueues, GateInvariance, PTL DEF Spec
<1>3. GateInv /\ Queues => TypeOK
  BY DEF GateInv, Inv, Types, Stages, Queues, TypeOK
<1> QED
  BY <1>2, <1>3, GateInvariance, PTL
=============================================================================
