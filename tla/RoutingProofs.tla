---------------------------- MODULE RoutingProofs ----------------------------
(***************************************************************************)
(* A response is given to the call it answers (ResponseMatches), for any   *)
(* number of RouterAgents, gates, lobbies, calls and faults, provided that *)
(* the gates a lobby answers through peers share one RouterAgent           *)
(* (OnePeer).  Where they do not, two RouterAgents number their requests   *)
(* alike and the one that answers keeps only the latest of them.           *)
(*                                                                         *)
(* The argument: a number of an RA is given out once, so the entry of      *)
(* RemoteSeqMap under it, if it is still there, is the one made for the    *)
(* request that carries it (Bound); and a connection uses a number for one *)
(* call only, because a process that starts again has a new connection.    *)
(*                                                                         *)
(* The second part is about the connection to a peer (PeerMgr), for every  *)
(* set of requests, dials and links and every limit of the queue.          *)
(***************************************************************************)
EXTENDS Routing, PeerMgr, TLAPS

\* A leaf that names no prover goes to Zenon first and then to the SMT solver.
USE ZenonT(2), SMTT(30), ZenonT(30)

\* The gates that reach a lobby through a peer all have the same RA, and those
\* beside a lobby do not restart.
OnePeer ==
    /\ \A l \in Lobbies : \A g, h \in Gates :
          Home[g] # Home[l] /\ Home[h] # Home[l] => Home[g] = Home[h]
    /\ \A l \in Lobbies : \A g \in Restarting : Home[g] # Home[l]

\* The call c was made on the connection k under the number s.
MadeAs(c, k, s) == c \in DOMAIN calls /\ calls[c].conn = k /\ calls[c].seq = s

\* What the RA of the caller keeps under the number of the frame or request x
\* is the call of x.
Bound(x) ==
    /\ x.call \in DOMAIN calls
    /\ x.seq <= seq[Home[x.src]]
    /\ \A e \in remote[Home[x.src]] : e.id = x.seq => MadeAs(x.call, e.conn, e.orig)

\* The shapes of the tables.
GateConns == [proc : Gates, gen : Nat]
Outcomes == {"waiting", "error", "timeout", "response"}
CallRecs == [conn : GateConns, seq : Nat, from : Nat, state : Outcomes]
Frames == [kind : {"req", "rsp"}, from : RAs, to : RAs, seq : Nat,
           src : Gates, dst : Lobbies, call : Nat]
Requested == [seq : Nat, src : Gates, dst : Lobbies, call : Nat]
Items == [call : Nat, conn : GateConns, seq : Nat, dst : Lobbies]

Tables ==
    /\ gen \in [Procs -> Nat]
    /\ coreSeq \in [Procs -> Nat]
    /\ calls \in Seq(CallRecs)
    /\ outbound \in [RAs -> SUBSET Items]
    /\ seq \in [RAs -> Nat]
    /\ remote \in [RAs -> SUBSET [id : Nat, conn : GateConns, orig : Nat]]
    /\ incoming \in [RAs -> SUBSET [id : Nat, peer : RAs]]
    /\ net \subseteq Frames
    /\ inbox \subseteq Requested

\* Lobbies, and gates that do not restart, stay as they are.
Steady ==
    /\ Lobbies \subseteq up
    /\ \A g \in Gates \ Restarting : g \in up /\ gen[g] = 1

\* A connection uses a number once.
Numbered ==
    /\ \A c \in DOMAIN calls :
          /\ calls[c].conn.gen <= gen[calls[c].conn.proc]
          /\ calls[c].conn.gen = gen[calls[c].conn.proc]
                => calls[c].seq <= coreSeq[calls[c].conn.proc]
    /\ \A c, d \in DOMAIN calls : MadeAs(c, calls[d].conn, calls[d].seq) => c = d

\* Requests on their way to a link.
Leaves(a, i) == MadeAs(i.call, i.conn, i.seq) /\ Home[i.conn.proc] = a /\ Home[i.dst] # a
Leaving == \A a \in RAs : \A i \in outbound[a] : Leaves(a, i)

\* The tables of the RAs: numbers that were given out, and peers of gates.
Known ==
    \A a \in RAs :
        /\ \A e \in remote[a] : e.id <= seq[a]
        /\ \A e \in incoming[a] : \E g \in Gates : e.peer = Home[g] /\ Home[g] # a

\* Frames between RAs.
Travels(f) ==
    /\ Home[f.src] # Home[f.dst]
    /\ f.kind = "req" => f.from = Home[f.src] /\ f.to = Home[f.dst]
    /\ f.kind = "rsp" => f.to = Home[f.src]
    /\ Bound(f)
Travelling == \A f \in net : Travels(f)

\* Requests a process has got: from a gate beside it as the gate numbered
\* them, from any other as its RA did.
Arrived(m) ==
    IF Home[m.src] = Home[m.dst]
    THEN MadeAs(m.call, [proc |-> m.src, gen |-> 1], m.seq)
    ELSE Bound(m)
Handed == \A m \in inbox : Arrived(m)

RouteInv ==
    /\ Tables /\ Steady /\ Numbered /\ Leaving /\ Known /\ Travelling /\ Handed
    /\ ResponseMatches

-----------------------------------------------------------------------------
(* What stays of a call, and what is kept of it *)

\* Calls stay, with their connection and number.
Grown ==
    \A c \in DOMAIN calls :
        c \in DOMAIN calls' /\ calls'[c].conn = calls[c].conn /\ calls'[c].seq = calls[c].seq

\* The call of a number stays the same.
LEMMA MadeStays ==
    ASSUME Grown, NEW c, NEW k, NEW s, MadeAs(c, k, s) PROVE MadeAs(c, k, s)'
BY DEF Grown, MadeAs

\* RemoteSeqMap forgets entries, and adds them under new numbers.
Issued ==
    \A a \in RAs :
        /\ seq[a] <= seq'[a]
        /\ \A e \in remote'[a] : e \in remote[a] \/ e.id > seq[a]

\* What is kept under the number of a request stays the call of the request.
LEMMA BoundStays ==
    ASSUME Grown, Issued, seq \in [RAs -> Nat], seq' \in [RAs -> Nat],
           NEW x, x.src \in Gates, x.seq \in Nat, Bound(x)
    PROVE  Bound(x)'
<1> DEFINE a == Home[x.src]
<1>1. a \in RAs
  BY RoutingAssumption DEF Procs
<1>2. /\ x.call \in DOMAIN calls /\ x.seq <= seq[a]
      /\ \A e \in remote[a] : e.id = x.seq => MadeAs(x.call, e.conn, e.orig)
  BY DEF Bound
<1>3. x.call \in DOMAIN calls'
  BY <1>2 DEF Grown
<1>4. seq[a] \in Nat /\ seq'[a] \in Nat /\ seq[a] <= seq'[a]
  BY <1>1 DEF Issued
<1>5. ASSUME NEW e \in remote'[a], e.id = x.seq PROVE MadeAs(x.call, e.conn, e.orig)'
  <2>1. e \in remote[a]
    BY <1>1, <1>2, <1>4, <1>5 DEF Issued
  <2> QED
    BY <1>2, <1>5, <2>1, MadeStays
<1>6. x.seq <= seq'[a]
  BY <1>2, <1>4
<1> QED
  BY <1>3, <1>5, <1>6 DEF Bound

\* What is on its way stays as it should be.
LEMMA ItemsStay ==
    ASSUME RouteInv, Tables', Grown, Issued
    PROVE  /\ \A a \in RAs : \A i \in outbound[a] : Leaves(a, i)'
           /\ \A f \in net : Travels(f)'
           /\ \A m \in inbox : Arrived(m)'
<1>1. Tables /\ Leaving /\ Travelling /\ Handed
  BY DEF RouteInv
<1>2. seq \in [RAs -> Nat] /\ seq' \in [RAs -> Nat]
  BY <1>1 DEF Tables
<1>3. \A a \in RAs : \A i \in outbound[a] : Leaves(a, i)'
  BY <1>1, MadeStays DEF Leaving, Leaves
<1>4. ASSUME NEW f \in net PROVE Travels(f)'
  <2>1. f.src \in Gates /\ f.seq \in Nat
    BY <1>1 DEF Tables, Frames
  <2> QED
    BY <1>1, <1>2, <2>1, BoundStays DEF Travelling, Travels
<1>5. ASSUME NEW m \in inbox PROVE Arrived(m)'
  <2>1. m.src \in Gates /\ m.seq \in Nat
    BY <1>1 DEF Tables, Requested
  <2> QED
    BY <1>1, <1>2, <2>1, BoundStays, MadeStays DEF Handed, Arrived
<1> QED
  BY <1>3, <1>4, <1>5

\* Numbers stay numbers of one call when no call is added.
LEMMA NumberedStays ==
    ASSUME Numbered, Grown, DOMAIN calls' = DOMAIN calls, UNCHANGED <<gen, coreSeq>>
    PROVE  Numbered'
BY DEF Numbered, Grown, MadeAs

\* A response: the calls keep who made them, and if it carries the call made on
\* the connection under the number, no call gets the response of another.
LEMMA AnsweredFacts ==
    ASSUME calls \in Seq(CallRecs), ResponseMatches, Numbered,
           NEW k, NEW s, NEW st \in Outcomes, NEW from \in Nat,
           calls' = Answered(k, s, st, from),
           st = "response" => MadeAs(from, k, s)
    PROVE  /\ calls' \in Seq(CallRecs) /\ DOMAIN calls' = DOMAIN calls
           /\ Grown /\ ResponseMatches'
<1>1. DOMAIN calls' = DOMAIN calls
  BY DEF Answered
<1>2. ASSUME NEW c \in DOMAIN calls
      PROVE  /\ calls'[c] \in CallRecs
             /\ calls'[c].conn = calls[c].conn /\ calls'[c].seq = calls[c].seq
             /\ calls'[c] = calls[c]
                \/ (MadeAs(c, k, s) /\ calls'[c].state = st /\ calls'[c].from = from)
  <2>1. calls[c] \in CallRecs
    OBVIOUS
  <2>2. calls'[c] = IF Waiting(c) /\ calls[c].conn = k /\ calls[c].seq = s
                    THEN [calls[c] EXCEPT !.state = st, !.from = from] ELSE calls[c]
    BY DEF Answered
  <2> QED
    BY <2>1, <2>2 DEF CallRecs, MadeAs
<1>3. calls' \in Seq(CallRecs)
  <2>1. DOMAIN calls' = 1..Len(calls) /\ Len(calls) \in Nat
    BY <1>1
  <2>2. calls' = [c \in 1..Len(calls) |-> calls'[c]]
    BY <2>1 DEF Answered
  <2> QED
    BY <1>2, <2>1, <2>2
<1>4. ASSUME NEW c \in DOMAIN calls, MadeAs(c, k, s), st = "response" PROVE c = from
  BY <1>4 DEF Numbered, MadeAs
<1> QED
  BY <1>1, <1>2, <1>3, <1>4 DEF Grown, ResponseMatches

-----------------------------------------------------------------------------
(* The steps *)

\* A call.
LEMMA ForwardKeeps ==
    ASSUME OnePeer, RouteInv, NEW g \in Gates, NEW targets \in pickTargets(Home[g]),
           forwardRPC(g, targets)
    PROVE  RouteInv'
<1> DEFINE a == Home[g]
           c == Len(calls) + 1
           known == targets \cap member[a]
           local == {n \in known : Home[n] = a /\ n \in up}
           r == [conn |-> Conn(g), seq |-> coreSeq[g] + 1, from |-> 0, state |-> "waiting"]
<1>1. /\ Tables /\ Steady /\ Numbered /\ Leaving /\ Known /\ Travelling /\ Handed
      /\ ResponseMatches
  BY DEF RouteInv
<1>2. /\ coreSeq' = [coreSeq EXCEPT ![g] = @ + 1]
      /\ UNCHANGED <<gen, up, seq, remote, incoming, net>>
  BY DEF forwardRPC
<1>3. a \in RAs /\ g \in Procs /\ coreSeq[g] \in Nat /\ coreSeq'[g] = coreSeq[g] + 1
      /\ gen[g] \in Nat /\ calls \in Seq(CallRecs)
  BY <1>1, <1>2, RoutingAssumption DEF Tables, Procs
<1>4. calls' = Append(calls, r)
  BY <1>3 DEF forwardRPC
<1>5. inbox' = inbox \cup {[seq |-> coreSeq[g] + 1, src |-> g, dst |-> n, call |-> c] : n \in local}
  BY <1>3 DEF forwardRPC
<1>6. outbound' = [outbound EXCEPT ![a] = @ \cup
          {[call |-> c, conn |-> Conn(g), seq |-> coreSeq[g] + 1, dst |-> n] : n \in known \ local}]
  BY <1>3 DEF forwardRPC
<1>7. r \in CallRecs /\ Conn(g) \in GateConns /\ Conn(g).proc = g /\ Conn(g).gen = gen[g]
  BY <1>3 DEF CallRecs, GateConns, Outcomes, Conn
<1>8. /\ calls' \in Seq(CallRecs) /\ DOMAIN calls' = DOMAIN calls \cup {c} /\ c \notin DOMAIN calls
      /\ c \in Nat /\ calls'[c] = r /\ \A d \in DOMAIN calls : calls'[d] = calls[d]
  BY <1>3, <1>4, <1>7
<1>9. r.conn = Conn(g) /\ r.seq = coreSeq[g] + 1 /\ r.state = "waiting"
  OBVIOUS
<1> HIDE DEF r, c
<1>10. Grown /\ Issued
  BY <1>1, <1>2, <1>8 DEF Grown, Issued, Tables
<1>11. targets \subseteq Lobbies
  BY DEF pickTargets
<1>12. Tables'
  <2>1. coreSeq' \in [Procs -> Nat]
    BY <1>1, <1>2, <1>3 DEF Tables
  <2>2. outbound' \in [RAs -> SUBSET Items]
    BY <1>1, <1>3, <1>6, <1>7, <1>8, <1>11 DEF Tables, Items
  <2>3. inbox' \subseteq Requested
    BY <1>1, <1>3, <1>5, <1>8, <1>11 DEF Tables, Requested
  <2> QED
    BY <1>1, <1>2, <1>8, <2>1, <2>2, <2>3 DEF Tables
<1>13. Steady' /\ Known'
  BY <1>1, <1>2 DEF Steady, Known
<1>14. Numbered'
  <2>1. ASSUME NEW d \in DOMAIN calls
        PROVE  /\ calls'[d].conn = calls[d].conn /\ calls'[d].seq = calls[d].seq
               /\ calls[d].conn.proc \in Procs /\ calls[d].conn.gen \in Nat /\ calls[d].seq \in Nat
               /\ calls[d].conn.gen <= gen[calls[d].conn.proc]
               /\ calls[d].conn.gen = gen[calls[d].conn.proc]
                     => calls[d].seq <= coreSeq[calls[d].conn.proc]
               /\ coreSeq[calls[d].conn.proc] \in Nat
               /\ coreSeq[calls[d].conn.proc] <= coreSeq'[calls[d].conn.proc]
    <3>1. calls[d] \in CallRecs
      BY <1>3
    <3>2. calls[d].conn.proc \in Procs /\ calls[d].conn.gen \in Nat /\ calls[d].seq \in Nat
      BY <3>1 DEF CallRecs, GateConns, Procs
    <3> QED
      BY <1>1, <1>2, <1>8, <3>2 DEF Numbered, Tables
  <2>2. ASSUME NEW d \in DOMAIN calls
        PROVE  ~(calls[d].conn = Conn(g) /\ calls[d].seq = coreSeq[g] + 1)
    BY <1>3, <1>7, <2>1
  <2>3. ASSUME NEW d \in DOMAIN calls'
        PROVE  /\ calls'[d].conn.gen <= gen[calls'[d].conn.proc]
               /\ calls'[d].conn.gen = gen[calls'[d].conn.proc]
                     => calls'[d].seq <= coreSeq'[calls'[d].conn.proc]
    <3>1. CASE d \in DOMAIN calls
      <4>1. coreSeq'[calls[d].conn.proc] \in Nat
        BY <1>2, <1>3, <2>1, <3>1
      <4> QED
        BY <2>1, <3>1, <4>1
    <3>2. CASE d = c
      BY <1>3, <1>7, <1>8, <1>9, <3>2
    <3> QED
      BY <1>8, <3>1, <3>2
  <2>4. ASSUME NEW d \in DOMAIN calls', NEW e \in DOMAIN calls',
               calls'[d].conn = calls'[e].conn, calls'[d].seq = calls'[e].seq
        PROVE  d = e
    <3>1. CASE d \in DOMAIN calls /\ e \in DOMAIN calls
      BY <1>1, <2>1, <2>4, <3>1 DEF Numbered, MadeAs
    <3>2. CASE d = c \/ e = c
      BY <1>8, <1>9, <2>1, <2>2, <2>4, <3>2
    <3> QED
      BY <1>8, <3>1, <3>2
  <2> QED
    BY <1>2, <2>3, <2>4 DEF Numbered, MadeAs
<1>15. /\ \A b \in RAs : \A i \in outbound[b] : Leaves(b, i)'
       /\ \A f \in net : Travels(f)'
       /\ \A m \in inbox : Arrived(m)'
  BY <1>10, <1>12, ItemsStay
<1>16. Leaving'
  <2>1. ASSUME NEW n \in known \ local,
               NEW i, i = [call |-> c, conn |-> Conn(g), seq |-> coreSeq[g] + 1, dst |-> n]
        PROVE  Leaves(a, i)'
    <3>1. i.call = c /\ i.conn = Conn(g) /\ i.seq = coreSeq[g] + 1 /\ i.dst = n
      BY <2>1
    <3>2. Home[n] # a
      BY <1>1, <1>11 DEF Steady
    <3>3. MadeAs(i.call, i.conn, i.seq)'
      BY <1>2, <1>8, <1>9, <3>1 DEF MadeAs
    <3> QED
      BY <1>7, <3>1, <3>2, <3>3 DEF Leaves
  <2>2. \A b \in RAs : \A i \in outbound'[b] :
            i \in outbound[b]
            \/ (b = a /\ \E n \in known \ local :
                  i = [call |-> c, conn |-> Conn(g), seq |-> coreSeq[g] + 1, dst |-> n])
    BY <1>1, <1>3, <1>6 DEF Tables
  <2> QED
    BY <1>15, <2>1, <2>2 DEF Leaving
<1>17. Handed'
  <2>1. ASSUME NEW n \in local,
               NEW m, m = [seq |-> coreSeq[g] + 1, src |-> g, dst |-> n, call |-> c]
        PROVE  Arrived(m)'
    <3>1. m.seq = coreSeq[g] + 1 /\ m.src = g /\ m.dst = n /\ m.call = c
      BY <2>1
    <3>2. Home[n] = Home[g] /\ g \notin Restarting
      BY <1>11 DEF OnePeer
    <3>3. Conn(g) = [proc |-> g, gen |-> 1]
      BY <1>1, <3>2 DEF Steady, Conn
    <3>4. MadeAs(m.call, [proc |-> m.src, gen |-> 1], m.seq)'
      BY <1>8, <1>9, <3>1, <3>3 DEF MadeAs
    <3> QED
      BY <3>1, <3>2, <3>4 DEF Arrived
  <2>2. \A m \in inbox' :
            m \in inbox
            \/ \E n \in local : m = [seq |-> coreSeq[g] + 1, src |-> g, dst |-> n, call |-> c]
    BY <1>5
  <2> QED
    BY <1>15, <2>1, <2>2 DEF Handed
<1>18. ResponseMatches'
  BY <1>1, <1>8, <1>9 DEF ResponseMatches
<1>19. Travelling'
  BY <1>2, <1>15 DEF Travelling
<1> QED
  BY <1>12, <1>13, <1>14, <1>16, <1>17, <1>18, <1>19 DEF RouteInv

\* A step that makes no call and starts no process keeps the invariant if it
\* keeps the tables and what it puts on the way is as it should be.
LEMMA QuietKeeps ==
    ASSUME RouteInv, Tables', Grown, Issued, Known', ResponseMatches',
           DOMAIN calls' = DOMAIN calls, UNCHANGED <<gen, coreSeq>>, up \ Restarting \subseteq up',
           \A a \in RAs : outbound'[a] \subseteq outbound[a],
           \A f \in net' : f \in net \/ Travels(f)',
           \A m \in inbox' : m \in inbox \/ Arrived(m)'
    PROVE  RouteInv'
<1>1. Steady /\ Numbered
  BY DEF RouteInv
<1>2. Steady'
  BY <1>1, RoutingAssumption DEF Steady
<1>3. Numbered'
  BY <1>1, NumberedStays
<1>4. Leaving' /\ Travelling' /\ Handed'
  BY ItemsStay DEF Leaving, Travelling, Handed
<1> QED
  BY <1>2, <1>3, <1>4 DEF RouteInv

\* The deadline of a call.
LEMMA TimeoutKeeps ==
    ASSUME RouteInv, NEW c \in DOMAIN calls, Timeout(c) PROVE RouteInv'
<1>1. Tables /\ Known /\ ResponseMatches
  BY DEF RouteInv
<1>2. /\ calls' = [calls EXCEPT ![c].state = "timeout"]
      /\ UNCHANGED <<gen, up, coreSeq, outbound, seq, remote, incoming, net, inbox>>
  BY DEF Timeout, procVars
<1>3. calls \in Seq(CallRecs)
  BY <1>1 DEF Tables
<1>4. /\ DOMAIN calls' = DOMAIN calls
      /\ \A d \in DOMAIN calls \ {c} : calls'[d] = calls[d]
      /\ calls'[c] = [calls[c] EXCEPT !.state = "timeout"]
  BY <1>2, <1>3
<1>5. /\ calls'[c] \in CallRecs /\ calls'[c].state = "timeout"
      /\ calls'[c].conn = calls[c].conn /\ calls'[c].seq = calls[c].seq
  <2>1. calls[c] \in CallRecs
    BY <1>3
  <2> QED
    BY <1>4, <2>1 DEF CallRecs, Outcomes
<1>6. calls' \in Seq(CallRecs)
  BY <1>2, <1>3, <1>5
<1>7. Tables'
  BY <1>1, <1>2, <1>6 DEF Tables
<1>8. Grown /\ Issued
  BY <1>1, <1>2, <1>4, <1>5 DEF Grown, Issued, Tables
<1>9. Known' /\ ResponseMatches'
  BY <1>1, <1>2, <1>4, <1>5 DEF Known, ResponseMatches
<1> QED
  BY <1>2, <1>4, <1>7, <1>8, <1>9, QuietKeeps

\* A request is put on a link.
LEMMA SendKeeps ==
    ASSUME RouteInv, NEW a \in RAs, NEW item \in outbound[a], sendPeerOutbound(a, item)
    PROVE  RouteInv'
<1> DEFINE id == seq[a] + 1
           entry == [id |-> id, conn |-> item.conn, orig |-> item.seq]
<1>1. Tables /\ Known /\ ResponseMatches /\ Leaves(a, item)
  BY DEF RouteInv, Leaving
<1>2. /\ seq' = [seq EXCEPT ![a] = id]
      /\ remote' = [remote EXCEPT ![a] = {e \in @ : e.id # id} \cup {entry}]
      /\ net' = net \cup {[kind |-> "req", from |-> a, to |-> Home[item.dst], seq |-> id,
                           src |-> item.conn.proc, dst |-> item.dst, call |-> item.call]}
      /\ outbound' = [outbound EXCEPT ![a] = @ \ {item}]
      /\ UNCHANGED <<gen, up, coreSeq, calls, incoming, inbox>>
  BY DEF sendPeerOutbound, Alloc, procVars
<1>3. /\ item.conn \in GateConns /\ item.conn.proc \in Gates /\ item.seq \in Nat
      /\ item.call \in Nat /\ item.dst \in Lobbies /\ seq[a] \in Nat /\ Home[item.dst] \in RAs
  BY <1>1, RoutingAssumption DEF Tables, Items, GateConns, Procs
<1>4. /\ entry \in [id : Nat, conn : GateConns, orig : Nat]
      /\ entry.id = id /\ entry.conn = item.conn /\ entry.orig = item.seq
  BY <1>3
<1>0. PICK f : f = [kind |-> "req", from |-> a, to |-> Home[item.dst], seq |-> id,
                     src |-> item.conn.proc, dst |-> item.dst, call |-> item.call]
  OBVIOUS
<1>5. /\ f \in Frames /\ net' = net \cup {f} /\ f.kind = "req" /\ f.from = a
      /\ f.to = Home[item.dst] /\ f.seq = id /\ f.src = item.conn.proc
      /\ f.dst = item.dst /\ f.call = item.call
  BY <1>0, <1>2, <1>3 DEF Frames
<1> HIDE DEF entry
<1>6. Tables'
  <2>1. seq' \in [RAs -> Nat] /\ net' \subseteq Frames
    BY <1>1, <1>2, <1>3, <1>5 DEF Tables
  <2>2. remote' \in [RAs -> SUBSET [id : Nat, conn : GateConns, orig : Nat]]
    BY <1>1, <1>2, <1>4 DEF Tables
  <2>3. outbound' \in [RAs -> SUBSET Items]
    BY <1>1, <1>2 DEF Tables
  <2> QED
    BY <1>1, <1>2, <2>1, <2>2, <2>3 DEF Tables
<1>7. \A b \in RAs : /\ seq[b] \in Nat /\ seq'[b] = IF b = a THEN id ELSE seq[b]
                     /\ \A e \in remote'[b] : e \in remote[b] \/ (b = a /\ e = entry)
  BY <1>1, <1>2 DEF Tables
<1>8. Grown /\ Issued
  BY <1>2, <1>3, <1>4, <1>7 DEF Grown, Issued
<1>9. Known'
  <2>1. ASSUME NEW b \in RAs, NEW e \in remote'[b] PROVE e.id <= seq'[b]
    <3>1. CASE e \in remote[b]
      <4>1. e.id <= seq[b] /\ e.id \in Nat
        BY <1>1, <3>1 DEF Known, Tables
      <4> QED
        BY <1>7, <4>1
    <3>2. CASE b = a /\ e = entry
      BY <1>4, <1>7, <3>2
    <3> QED
      BY <1>7, <3>1, <3>2
  <2> QED
    BY <1>1, <1>2, <2>1 DEF Known
<1>10. Travels(f)'
  <2>1. Home[f.src] = a /\ Home[f.dst] # a /\ MadeAs(f.call, item.conn, item.seq)
    BY <1>1, <1>5 DEF Leaves
  <2>2. MadeAs(f.call, item.conn, item.seq)'
    BY <1>8, <2>1, MadeStays
  <2>3. ASSUME NEW e \in remote'[a], e.id = f.seq PROVE e = entry
    BY <1>1, <1>5, <1>7, <2>3 DEF Known, Tables
  <2>4. f.seq <= seq'[a]
    BY <1>3, <1>5, <1>7
  <2>5. Bound(f)'
    BY <1>4, <2>1, <2>2, <2>3, <2>4 DEF Bound, MadeAs
  <2> QED
    BY <1>5, <2>1, <2>5 DEF Travels
<1>11. \A b \in RAs : outbound'[b] \subseteq outbound[b]
  BY <1>1, <1>2 DEF Tables
<1>12. ResponseMatches' /\ \A x \in net' : x \in net \/ Travels(x)'
  BY <1>1, <1>2, <1>5, <1>10 DEF ResponseMatches
<1> QED
  BY <1>2, <1>6, <1>8, <1>9, <1>11, <1>12, QuietKeeps

\* A request could not be sent.
LEMMA FailKeeps ==
    ASSUME RouteInv, NEW a \in RAs, NEW item \in outbound[a], FailOutbound(a, item)
    PROVE  RouteInv'
<1>1. Tables /\ Known /\ ResponseMatches /\ Numbered
  BY DEF RouteInv
<1>2. /\ calls' = Answered(item.conn, item.seq, "error", 0)
      /\ outbound' = [outbound EXCEPT ![a] = @ \ {item}] \/ outbound' = outbound
      /\ UNCHANGED <<gen, up, coreSeq, seq, remote, incoming, net, inbox>>
  BY DEF FailOutbound, procVars
<1>3. /\ calls' \in Seq(CallRecs) /\ DOMAIN calls' = DOMAIN calls
      /\ Grown /\ ResponseMatches'
  BY <1>1, <1>2, AnsweredFacts DEF Tables, Outcomes
<1>4. \A b \in RAs : outbound'[b] \subseteq outbound[b]
  BY <1>1, <1>2 DEF Tables
<1>5. outbound' \in [RAs -> SUBSET Items]
  BY <1>1, <1>2 DEF Tables
<1>6. Tables' /\ Issued /\ Known'
  BY <1>1, <1>2, <1>3, <1>5 DEF Tables, Issued, Known
<1> QED
  BY <1>2, <1>3, <1>4, <1>6, QuietKeeps

\* A request reaches the RA of its target.
LEMMA RequestKeeps ==
    ASSUME RouteInv, NEW f \in net, HandleRequest(f) PROVE RouteInv'
<1>1. Tables /\ Known /\ ResponseMatches /\ Travels(f)
  BY DEF RouteInv, Travelling
<1>2. PICK m : m = [seq |-> f.seq, src |-> f.src, dst |-> f.dst, call |-> f.call]
  OBVIOUS
<1>3. PICK x : x = [id |-> f.seq, peer |-> f.from]
  OBVIOUS
<1>4. /\ f.from = Home[f.src] /\ f.to = Home[f.dst] /\ f.from # f.to /\ Bound(f)
      /\ f.from \in RAs /\ f.to \in RAs /\ f.seq \in Nat /\ f.src \in Gates /\ f.dst \in Lobbies
      /\ f.call \in Nat
  BY <1>1 DEF Travels, HandleRequest, Tables, Frames
<1>5. /\ m \in Requested /\ m.seq = f.seq /\ m.src = f.src /\ m.dst = f.dst /\ m.call = f.call
      /\ x \in [id : Nat, peer : RAs] /\ x.id = f.seq /\ x.peer = f.from
  BY <1>2, <1>3, <1>4 DEF Requested
<1>6. /\ incoming' = [incoming EXCEPT ![f.to] = {e \in @ : e.id # f.seq} \cup {x}]
      /\ inbox' \subseteq inbox \cup {m}
      /\ net' = net \ {f}
      /\ UNCHANGED <<gen, up, coreSeq, calls, outbound, seq, remote>>
  BY <1>2, <1>3 DEF HandleRequest, Track, procVars
<1>7. Grown /\ Issued
  BY <1>1, <1>6 DEF Grown, Issued, Tables
<1>8. Tables'
  <2>1. incoming' \in [RAs -> SUBSET [id : Nat, peer : RAs]]
    BY <1>1, <1>5, <1>6 DEF Tables
  <2>2. inbox' \subseteq Requested /\ net' \subseteq Frames
    BY <1>1, <1>5, <1>6 DEF Tables
  <2> QED
    BY <1>1, <1>6, <2>1, <2>2 DEF Tables
<1>9. Known'
  <2>1. \A b \in RAs : \A e \in incoming'[b] : e \in incoming[b] \/ (b = f.to /\ e = x)
    BY <1>1, <1>6 DEF Tables
  <2> QED
    BY <1>1, <1>4, <1>5, <1>6, <2>1 DEF Known
<1>10. Arrived(m)'
  <2>1. Travels(f)'
    BY <1>7, <1>8, ItemsStay
  <2> QED
    BY <1>5, <2>1 DEF Travels, Arrived, Bound
<1>11. ResponseMatches'
  BY <1>1, <1>6 DEF ResponseMatches
<1> QED
  BY <1>6, <1>7, <1>8, <1>9, <1>10, <1>11, QuietKeeps

\* The target answers.
LEMMA AnswerKeeps ==
    ASSUME OnePeer, RouteInv, NEW m \in inbox, SendResponseViaPeer(m) PROVE RouteInv'
<1> DEFINE b == Home[m.dst]
<1>1. Tables /\ Known /\ Steady /\ Numbered /\ ResponseMatches /\ Arrived(m)
  BY DEF RouteInv, Handed
<1>2. /\ m.seq \in Nat /\ m.src \in Gates /\ m.dst \in Lobbies /\ m.call \in Nat
      /\ b \in RAs /\ Home[m.src] \in RAs /\ Restarting \subseteq Gates
  BY <1>1, RoutingAssumption DEF Tables, Requested, Procs
<1>3. /\ inbox' = inbox \ {m}
      /\ UNCHANGED <<gen, up, coreSeq, outbound, seq, remote>>
  BY DEF SendResponseViaPeer, procVars
<1>4. CASE Home[m.src] = b
  <2>1. m.src \in up /\ gen[m.src] = 1
    BY <1>1, <1>2, <1>4 DEF OnePeer, Steady
  <2>2. calls' = Answered(Conn(m.src), m.seq, "response", m.call) /\ UNCHANGED <<incoming, net>>
    BY <1>4, <2>1 DEF SendResponseViaPeer
  <2>3. MadeAs(m.call, Conn(m.src), m.seq)
    BY <1>1, <1>4, <2>1 DEF Arrived, Conn
  <2>4. /\ calls' \in Seq(CallRecs) /\ DOMAIN calls' = DOMAIN calls
        /\ Grown /\ ResponseMatches'
    <3>1. "response" \in Outcomes /\ calls \in Seq(CallRecs)
      BY <1>1 DEF Outcomes, Tables
    <3> QED
      BY <1>1, <1>2, <2>2, <2>3, <3>1, AnsweredFacts
  <2>5. Tables' /\ Issued /\ Known'
    BY <1>1, <1>3, <2>2, <2>4 DEF Tables, Issued, Known
  <2> QED
    BY <1>3, <2>2, <2>4, <2>5, QuietKeeps
<1>5. CASE Home[m.src] # b
  <2>1. calls' = calls
    BY <1>5 DEF SendResponseViaPeer
  <2>2. Grown /\ Issued /\ ResponseMatches'
    BY <1>1, <1>3, <2>1 DEF Grown, Issued, Tables, ResponseMatches
  <2>3. CASE UNCHANGED <<incoming, net>>
    <3>1. Tables' /\ Known'
      BY <1>1, <1>3, <2>1, <2>3 DEF Tables, Known
    <3> QED
      BY <1>3, <2>1, <2>2, <2>3, <3>1, QuietKeeps
  <2>4. CASE ~UNCHANGED <<incoming, net>>
    <3>1. /\ incoming' = [incoming EXCEPT ![b] = {e \in @ : e.id # m.seq}]
          /\ \E a \in ResponsePeers(b, m) :
                net' = net \cup {[kind |-> "rsp", from |-> b, to |-> a, seq |-> m.seq,
                                  src |-> m.src, dst |-> m.dst, call |-> m.call]}
      BY <1>5, <2>4 DEF SendResponseViaPeer
    <3>2. \A a \in ResponsePeers(b, m) : a = Home[m.src]
      BY <1>1, <1>2, <1>5 DEF ResponsePeers, Known, OnePeer
    <3>3. PICK f : f = [kind |-> "rsp", from |-> b, to |-> Home[m.src], seq |-> m.seq,
                        src |-> m.src, dst |-> m.dst, call |-> m.call]
      OBVIOUS
    <3>4. net' = net \cup {f}
      BY <3>1, <3>2, <3>3
    <3>5. /\ f \in Frames /\ f.kind = "rsp" /\ f.to = Home[m.src] /\ f.seq = m.seq
          /\ f.src = m.src /\ f.dst = m.dst /\ f.call = m.call
      BY <1>2, <3>3 DEF Frames
    <3>6. incoming' \in [RAs -> SUBSET [id : Nat, peer : RAs]]
          /\ \A a \in RAs : incoming'[a] \subseteq incoming[a]
      BY <1>1, <3>1 DEF Tables
    <3>7. Tables'
      BY <1>1, <1>3, <2>1, <3>4, <3>5, <3>6 DEF Tables
    <3>8. Known'
      BY <1>1, <1>3, <3>6 DEF Known
    <3>9. Travels(f)'
      <4>1. Arrived(m)'
        BY <2>2, <3>7, ItemsStay
      <4> QED
        BY <1>5, <3>5, <4>1 DEF Travels, Arrived, Bound
    <3> QED
      BY <1>3, <2>1, <2>2, <3>4, <3>7, <3>8, <3>9, QuietKeeps
  <2> QED
    BY <2>3, <2>4
<1> QED
  BY <1>4, <1>5

\* A response reaches the RA of the caller.
LEMMA ResponseKeeps ==
    ASSUME RouteInv, NEW f \in net, HandleResponse(f) PROVE RouteInv'
<1>1. Tables /\ Known /\ Numbered /\ ResponseMatches /\ Travels(f)
  BY DEF RouteInv, Travelling
<1>2. /\ net' = net \ {f} /\ f.kind = "rsp"
      /\ UNCHANGED <<gen, up, coreSeq, outbound, seq, incoming, inbox>>
  BY DEF HandleResponse, procVars
<1>3. f.to = Home[f.src] /\ f.to \in RAs /\ f.call \in Nat
  BY <1>1, <1>2 DEF Travels, Tables, Frames
<1>4. CASE UNCHANGED <<calls, remote>>
  <2>1. Tables' /\ Known' /\ Grown /\ Issued /\ ResponseMatches'
    BY <1>1, <1>2, <1>4 DEF Tables, Known, Grown, Issued, ResponseMatches
  <2> QED
    BY <1>2, <1>4, <2>1, QuietKeeps
<1>5. ASSUME NEW e \in remote[f.to], e.id = f.seq,
             remote' = [remote EXCEPT ![f.to] = @ \ {e}],
             calls' = Answered(e.conn, e.orig, "response", f.call)
      PROVE  RouteInv'
  <2>1. MadeAs(f.call, e.conn, e.orig)
    BY <1>1, <1>3, <1>5 DEF Travels, Bound
  <2>2. "response" \in Outcomes /\ calls \in Seq(CallRecs)
    BY <1>1 DEF Outcomes, Tables
  <2>3. /\ calls' \in Seq(CallRecs) /\ DOMAIN calls' = DOMAIN calls
        /\ Grown /\ ResponseMatches'
    BY <1>1, <1>3, <1>5, <2>1, <2>2, AnsweredFacts
  <2>4. /\ remote' \in [RAs -> SUBSET [id : Nat, conn : GateConns, orig : Nat]]
        /\ \A a \in RAs : remote'[a] \subseteq remote[a]
    BY <1>1, <1>5 DEF Tables
  <2>5. Tables' /\ Known' /\ Issued
    BY <1>1, <1>2, <2>3, <2>4 DEF Tables, Known, Issued
  <2> QED
    BY <1>2, <2>3, <2>5, QuietKeeps
<1> QED
  BY <1>4, <1>5 DEF HandleResponse

\* Frames are lost, entries expire, RAs learn of processes.
LEMMA ForgetKeeps ==
    ASSUME RouteInv, \/ \E f \in net : Lose(f)
                     \/ \E b \in RAs : \E e \in incoming[b] : Cleanup(b, e)
                     \/ \E a \in RAs, p \in Procs : Discover(a, p)
    PROVE  RouteInv'
<1>1. Tables /\ Known /\ ResponseMatches
  BY DEF RouteInv
<1>2. /\ net' \subseteq net /\ UNCHANGED <<gen, up, coreSeq, calls, outbound, seq, remote, inbox>>
      /\ \/ incoming' = incoming
         \/ \E b \in RAs : \E e \in incoming[b] : incoming' = [incoming EXCEPT ![b] = @ \ {e}]
  BY DEF Lose, Cleanup, Discover, procVars
<1>3. /\ incoming' \in [RAs -> SUBSET [id : Nat, peer : RAs]]
      /\ \A a \in RAs : incoming'[a] \subseteq incoming[a]
  <2>1. incoming \in [RAs -> SUBSET [id : Nat, peer : RAs]]
    BY <1>1 DEF Tables
  <2>2. ASSUME NEW b \in RAs, NEW e, incoming' = [incoming EXCEPT ![b] = @ \ {e}]
        PROVE  /\ incoming' \in [RAs -> SUBSET [id : Nat, peer : RAs]]
               /\ \A a \in RAs : incoming'[a] \subseteq incoming[a]
    BY <2>1, <2>2
  <2> QED
    BY <1>2, <2>1, <2>2
<1>4. Tables' /\ Known' /\ Grown /\ Issued /\ ResponseMatches'
  BY <1>1, <1>2, <1>3 DEF Tables, Known, Grown, Issued, ResponseMatches
<1> QED
  BY <1>2, <1>4, QuietKeeps

\* A gate stops.
LEMMA RemoveKeeps ==
    ASSUME RouteInv, NEW g \in Restarting, removeConn(g) PROVE RouteInv'
<1>1. Tables /\ Known /\ ResponseMatches
  BY DEF RouteInv
<1>2. /\ up' = up \ {g}
      /\ remote' = [remote EXCEPT ![Home[g]] = {e \in @ : e.conn # Conn(g)}]
      /\ UNCHANGED <<gen, coreSeq, calls, outbound, seq, incoming, net, inbox>>
  BY DEF removeConn
<1>3. /\ remote' \in [RAs -> SUBSET [id : Nat, conn : GateConns, orig : Nat]]
      /\ \A a \in RAs : remote'[a] \subseteq remote[a]
  BY <1>1, <1>2 DEF Tables
<1>4. Tables' /\ Known' /\ Grown /\ Issued /\ ResponseMatches'
  BY <1>1, <1>2, <1>3 DEF Tables, Known, Grown, Issued, ResponseMatches
<1> QED
  BY <1>2, <1>4, QuietKeeps

\* A gate starts again: its numbers start from 1, on a new connection.
LEMMA HandshakeKeeps ==
    ASSUME RouteInv, NEW g \in Restarting, Handshake(g) PROVE RouteInv'
<1>1. Tables /\ Known /\ ResponseMatches /\ Steady /\ Numbered
  BY DEF RouteInv
<1>2. /\ gen' = [gen EXCEPT ![g] = @ + 1]
      /\ coreSeq' = [coreSeq EXCEPT ![g] = 0]
      /\ up' = up \cup {g}
      /\ UNCHANGED <<calls, outbound, seq, remote, incoming, net, inbox>>
  BY DEF Handshake
<1>3. g \in Procs /\ g \in Gates
  BY RoutingAssumption DEF Procs
<1>4. Tables'
  BY <1>1, <1>2, <1>3 DEF Tables
<1>5. Known' /\ Grown /\ Issued /\ ResponseMatches'
  BY <1>1, <1>2 DEF Tables, Known, Grown, Issued, ResponseMatches
<1>6. Steady'
  BY <1>1, <1>2, <1>3 DEF Steady, Tables, Procs
<1>7. Numbered'
  <2>1. ASSUME NEW c \in DOMAIN calls
        PROVE  /\ calls[c].conn.gen <= gen'[calls[c].conn.proc]
               /\ calls[c].conn.gen = gen'[calls[c].conn.proc]
                     => calls[c].seq <= coreSeq'[calls[c].conn.proc]
    <3>1. calls[c] \in CallRecs
      BY <1>1 DEF Tables
    <3>2. /\ calls[c].conn.proc \in Procs /\ calls[c].conn.gen \in Nat
          /\ calls[c].conn.gen <= gen[calls[c].conn.proc]
          /\ calls[c].conn.gen = gen[calls[c].conn.proc]
                => calls[c].seq <= coreSeq[calls[c].conn.proc]
      BY <1>1, <3>1 DEF CallRecs, GateConns, Procs, Numbered
    <3> QED
      BY <1>1, <1>2, <3>2 DEF Tables
  <2> QED
    BY <1>1, <1>2, <2>1 DEF Numbered, MadeAs
<1>8. Leaving' /\ Travelling' /\ Handed'
  BY <1>2, <1>4, <1>5, ItemsStay DEF Leaving, Travelling, Handed
<1> QED
  BY <1>4, <1>5, <1>6, <1>7, <1>8 DEF RouteInv

\* At the start nothing is on its way.
LEMMA InitRoute == Init => RouteInv
<1> SUFFICES ASSUME Init PROVE RouteInv
  OBVIOUS
<1>1. calls = <<>> /\ net = {} /\ inbox = {}
  BY DEF Init
<1>2. Tables
  BY DEF Init, Tables
<1>3. Steady
  BY RoutingAssumption DEF Init, Steady, Procs
<1>4. Leaving /\ Known
  BY DEF Init, Leaving, Known
<1> QED
  BY <1>1, <1>2, <1>3, <1>4 DEF RouteInv, Numbered, Travelling, Handed, ResponseMatches

\* Every step keeps the invariant.
LEMMA NextRoute == ASSUME OnePeer, RouteInv, [Next]_vars PROVE RouteInv'
<1>1. CASE Next
  BY <1>1, ForwardKeeps, TimeoutKeeps, SendKeeps, FailKeeps, RequestKeeps, AnswerKeeps,
     ResponseKeeps, ForgetKeeps, RemoveKeeps, HandshakeKeeps DEF Next, RouteStep
<1>2. CASE UNCHANGED vars
  <2>1. Tables' /\ Known' /\ Grown /\ Issued /\ ResponseMatches'
    <3>1. Tables /\ Known /\ ResponseMatches
      BY DEF RouteInv
    <3> QED
      BY <1>2, <3>1 DEF vars, Tables, Known, Grown, Issued, ResponseMatches
  <2> QED
    BY <1>2, <2>1, QuietKeeps DEF vars
<1> QED
  BY <1>1, <1>2

\* A response is given to the call it answers, whatever stops, fails, expires
\* or is delayed on the way through RemoteSeqMap and IncomingPeerSeqStore, when
\* the gates a lobby serves through peers share one RouterAgent.
THEOREM ResponsesMatch == ASSUME OnePeer PROVE Spec => []ResponseMatches
<1>1. RouteInv /\ [Next]_vars => RouteInv'
  BY NextRoute
<1>2. RouteInv => ResponseMatches
  BY DEF RouteInv
<1> QED
  BY <1>1, <1>2, InitRoute, PTL DEF Spec

-----------------------------------------------------------------------------
(* The dials to a peer *)

USE DEF DialSteps

\* The requests of a sequence of requests are requests.
LEMMA RangeType ==
    ASSUME NEW q \in Seq(Requests)
    PROVE  Range(q) \subseteq Requests
BY DEF Range

\* What is left of a sequence of requests that has more than one.
LEMMA TailType ==
    ASSUME NEW q \in Seq(Requests), q # <<>>
    PROVE  /\ q[1] \in Requests
           /\ Tail(q) \in Seq(Requests)
           /\ Len(q) # 1 => Tail(q) # <<>>
<1>1. Len(q) \in Nat /\ Len(q) > 0
  OBVIOUS
<1>2. Tail(q) \in Seq(Requests) /\ Len(Tail(q)) = Len(q) - 1
  BY <1>1
<1>3. q[1] \in Requests
  BY <1>1
<1>4. ASSUME Tail(q) = <<>> PROVE Len(q) = 1
  <2>1. Len(<<>>) = 0
    OBVIOUS
  <2>2. Len(q) - 1 = 0
    BY <1>2, <1>4, <2>1, Zenon
  <2> QED
    BY <1>1, <2>2
<1> QED
  BY <1>2, <1>3, <1>4

\* A manager that has just been made has nobody dialing and nothing queued.
LEMMA InitDialInv == PeerInit => DialInv
BY PeerMgrAssumption DEF PeerInit, DialInv, PeerTypeOK, Idle, PendingHasDial

\* A dial that is under way after a step has not become idle by it.
LEMMA StillDialing ==
    ASSUME NEW d \in Dials, NEW v, v # "idle", PeerTypeOK,
           dial' = [dial EXCEPT ![d] = v]
    PROVE  \E e \in Dials : dial'[e] # "idle"
BY DEF PeerTypeOK

\* Every step of the main loop, of a dial and of a connection keeps the types
\* and leaves nothing queued or connecting without a dial.
LEMMA NextDialInv == DialInv /\ [PeerNext]_peerVars => DialInv'
<1> SUFFICES ASSUME DialInv, [PeerNext]_peerVars PROVE DialInv'
  OBVIOUS
<1> USE PeerMgrAssumption
<1>0. PeerTypeOK
  BY DEF DialInv
<1>1. ASSUME NEW r \in Requests, GetLink(r) PROVE DialInv'
  <2>1. <<r>> \in Seq(Requests) /\ <<r>> # <<>>
    OBVIOUS
  <2> QED
    BY <1>1, <2>1 DEF DialInv, PeerTypeOK, GetLink, PendingHasDial
<1>2. ASSUME SendNow PROVE DialInv'
  <2>1. main.todo[1] \in Requests
    BY <1>2, TailType DEF DialInv, PeerTypeOK, SendNow
  <2>2. CASE main' = Idle
    BY <1>2, <2>1, <2>2 DEF DialInv, PeerTypeOK, SendNow, SendOk, SendFails, Idle, PendingHasDial
  <2>3. CASE main' = [main EXCEPT !.at = "enqueue"] /\ UNCHANGED finished
    <3>1. /\ main' \in [at : {"loop", "send", "enqueue", "flush"},
                       link : Links \cup {NoLink}, todo : Seq(Requests)]
          /\ main'.todo = main.todo
      BY <1>0, <2>3 DEF PeerTypeOK
    <3>2. PeerTypeOK'
      BY <1>2, <2>1, <2>3, <3>1 DEF DialInv, PeerTypeOK, SendNow, SendOk, SendFails
    <3> QED
      BY <1>2, <3>1, <3>2 DEF DialInv, SendNow, PendingHasDial
  <2> QED
    BY <1>2, <2>2, <2>3 DEF SendNow
<1>3. ASSUME Enqueue PROVE DialInv'
  <2> DEFINE r == main.todo[1]
  <2>1. r \in Requests
    BY <1>3, TailType DEF DialInv, PeerTypeOK, Enqueue
  <2> HIDE DEF r
  <2>2. main' = Idle /\ UNCHANGED <<link, conn, flushing, sent>> /\ finished' = finished \cup {r} /\ Enqueued(r)
    BY <1>3 DEF Enqueue, r
  <2>3. CASE UNCHANGED <<state, pending, dial, failed>>
    BY <2>1, <2>2, <2>3 DEF DialInv, PeerTypeOK, Idle, PendingHasDial
  <2>4. CASE /\ state' = IF state = "none" THEN "disconnected" ELSE state
             /\ failed' = failed \cup {r}
             /\ UNCHANGED <<pending, dial>>
    BY <2>1, <2>2, <2>4 DEF DialInv, PeerTypeOK, Idle, PendingHasDial
  <2>5. CASE /\ ~Full
             /\ pending' = Append(pending, r)
             /\ IF state # "connecting" THEN \E d \in Dials : StartDial(d)
                ELSE UNCHANGED <<state, dial>>
             /\ UNCHANGED failed
    <3>1. pending' \in Seq(Requests) /\ Len(pending') <= PendingLimit
      <4>1. Len(pending) \in Nat /\ Len(pending') = Len(pending) + 1
        BY <2>1, <2>5 DEF DialInv, PeerTypeOK
      <4> QED
        BY <2>1, <2>5, <4>1 DEF DialInv, PeerTypeOK, Full
    <3>2. CASE state # "connecting"
      <4>1. PICK d \in Dials : StartDial(d)
        BY <2>5, <3>2
      <4>2. \E e \in Dials : dial'[e] # "idle"
        BY <1>0, <4>1, StillDialing DEF StartDial
      <4>3. PeerTypeOK'
        BY <2>1, <2>2, <2>5, <3>1, <4>1 DEF DialInv, PeerTypeOK, Idle, StartDial
      <4> QED
        BY <2>2, <4>2, <4>3 DEF DialInv, Idle, PendingHasDial
    <3>3. CASE state = "connecting"
      BY <2>1, <2>2, <2>5, <3>1, <3>3 DEF DialInv, PeerTypeOK, Idle, PendingHasDial
    <3> QED
      BY <3>2, <3>3
  <2> QED
    BY <2>2, <2>3, <2>4, <2>5 DEF Enqueued
<1>4. ASSUME Flush PROVE DialInv'
  <2>1. /\ main.todo[1] \in Requests
        /\ Tail(main.todo) \in Seq(Requests)
        /\ Len(main.todo) # 1 => Tail(main.todo) # <<>>
    BY <1>4, TailType DEF DialInv, PeerTypeOK, Flush
  <2>2. /\ main' \in [at : {"loop", "send", "enqueue", "flush"},
                     link : Links \cup {NoLink}, todo : Seq(Requests)]
        /\ main'.at # "loop" => main'.todo # <<>>
    <3>1. CASE Len(main.todo) = 1
      BY <1>4, <3>1 DEF Flush, Idle
    <3>2. CASE Len(main.todo) # 1
      BY <1>0, <1>4, <2>1, <3>2 DEF PeerTypeOK, Flush
    <3> QED
      BY <3>1, <3>2
  <2>3. PeerTypeOK'
    BY <1>4, <2>1, <2>2 DEF DialInv, PeerTypeOK, Flush, SendOk, SendFails
  <2> QED
    BY <1>4, <2>2, <2>3 DEF DialInv, Flush, PendingHasDial
<1>5. ASSUME NEW d \in Dials, failPending(d) PROVE DialInv'
  <2>1. Range(pending) \subseteq Requests
    BY RangeType DEF DialInv, PeerTypeOK
  <2> QED
    BY <1>5, <2>1 DEF DialInv, PeerTypeOK, failPending, FailOutbounds, ClearPending, Idle, PendingHasDial
<1>6. ASSUME NEW d \in Dials, NEW l \in Links, AttachOutgoing(d, l) PROVE DialInv'
  BY <1>6 DEF DialInv, PeerTypeOK, AttachOutgoing, Attach, CloseOld, Idle, PendingHasDial
<1>7. ASSUME NEW d \in Dials, DialStep(d) PROVE DialInv'
  <2>1. CASE DialStart(d)
    <3>1. \E e \in Dials : dial'[e] # "idle"
      BY <1>0, <2>1, StillDialing DEF DialStart
    <3> QED
      BY <2>1, <3>1 DEF DialInv, PeerTypeOK, DialStart, SetState, PendingHasDial
  <2>2. CASE DialResult(d)
    <3>1. \E e \in Dials : dial'[e] # "idle"
      BY <1>0, <2>2, StillDialing DEF DialResult
    <3> QED
      BY <2>2, <3>1, ZenonT(30) DEF DialInv, PeerTypeOK, DialResult, SetState, PendingHasDial
  <2> QED
    BY <1>7, <2>1, <2>2 DEF DialStep
<1>8. ASSUME NEW l \in Incoming, AttachIncoming(l) \/ FlushIncoming(l) PROVE DialInv'
  <2>1. CASE AttachIncoming(l)
    BY <2>1 DEF DialInv, PeerTypeOK, AttachIncoming, Attach, CloseOld, PendingHasDial
  <2>2. CASE FlushIncoming(l)
    <3>1. flushing[l][1] \in Requests /\ Tail(flushing[l]) \in Seq(Requests)
      BY <2>2, TailType DEF DialInv, PeerTypeOK, FlushIncoming
    <3> QED
      BY <2>2, <3>1 DEF DialInv, PeerTypeOK, FlushIncoming, SendOk, SendFails, PendingHasDial
  <2> QED
    BY <1>8, <2>1, <2>2
<1>9. ASSUME NEW l \in Links, Break(l) \/ Detach(l) PROVE DialInv'
  BY <1>9, ZenonT(30) DEF DialInv, PeerTypeOK, Break, Detach, IsAttached, PendingHasDial
<1>10. CASE UNCHANGED peerVars
  BY <1>10 DEF DialInv, PeerTypeOK, peerVars, PendingHasDial
<1> QED
  BY <1>1, <1>2, <1>3, <1>4, <1>5, <1>6, <1>7, <1>8, <1>9, <1>10 DEF PeerNext, MainStep

\* Always: whoever finds the state connecting, or a request queued, can rely on
\* a dial being under way (enqueue, failPending).
THEOREM DialInvariance == PeerSpec => []DialInv
<1>1. PeerInit => DialInv
  BY InitDialInv
<1>2. DialInv /\ [PeerNext]_peerVars => DialInv'
  BY NextDialInv
<1> QED
  BY <1>1, <1>2, PTL DEF PeerSpec

\* The entry, its queue, the dials and what the main loop holds have their
\* types in every reachable state.
THEOREM PeerTypes == PeerSpec => []PeerTypeOK
<1>1. DialInv => PeerTypeOK
  BY DEF DialInv
<1> QED
  BY <1>1, DialInvariance, PTL

\* Whatever SendOrQueue has queued has a dial under way.
THEOREM QueueIsServed == PeerSpec => []PendingHasDial
<1>1. DialInv => PendingHasDial
  BY DEF DialInv
<1> QED
  BY <1>1, DialInvariance, PTL

-----------------------------------------------------------------------------
(* The links to a peer *)

\* A step leaves at most the link on the entry open.
LEMMA NextOneActiveLink ==
    DialInv /\ OneActiveLink /\ [PeerNext]_peerVars => OneActiveLink'
<1> SUFFICES ASSUME DialInv, OneActiveLink, [PeerNext]_peerVars PROVE OneActiveLink'
  OBVIOUS
<1> USE PeerMgrAssumption
<1>1. ASSUME UNCHANGED <<link, conn>> PROVE OneActiveLink'
  BY <1>1 DEF OneActiveLink
<1>2. ASSUME NEW l \in Links, Attach(l) PROVE OneActiveLink'
  BY <1>2 DEF OneActiveLink, Attach, CloseOld, DialInv, PeerTypeOK
<1>3. ASSUME NEW l \in Links, Break(l) PROVE OneActiveLink'
  BY <1>3 DEF OneActiveLink, Break, DialInv, PeerTypeOK
<1>4. ASSUME NEW l \in Links, Detach(l) PROVE OneActiveLink'
  BY <1>4 DEF OneActiveLink, Detach, IsAttached, DialInv, PeerTypeOK
<1> QED
  BY <1>1, <1>2, <1>3, <1>4
  DEF PeerNext, MainStep, GetLink, SendNow, Enqueue, Flush, failPending, AttachOutgoing,
      DialStep, DialStart, DialResult, AttachIncoming, FlushIncoming, peerVars

\* At most one connection to a peer is open, the one on its entry.
THEOREM SingleLink == PeerSpec => []OneActiveLink
<1>1. PeerInit => OneActiveLink
  BY DEF PeerInit, OneActiveLink
<1> QED
  BY <1>1, DialInvariance, NextOneActiveLink, PTL DEF PeerSpec

\* An open link stays on the entry until another one replaces it.
THEOREM LinkStays == PeerSpec => OpenLinkStays
<1>1. DialInv /\ [PeerNext]_peerVars
        => [link # NoLink /\ conn[link] = "open" => link' # NoLink]_peerVars
  <2> SUFFICES ASSUME DialInv, PeerNext, link # NoLink, conn[link] = "open"
               PROVE  link' # NoLink
    OBVIOUS
  <2>1. ASSUME NEW l \in Links, Detach(l) PROVE link' # NoLink
    BY <2>1 DEF Detach, IsAttached
  <2>2. ASSUME NEW l \in Links, Attach(l) PROVE link' # NoLink
    BY <2>2, PeerMgrAssumption DEF Attach
  <2> QED
    BY <2>1, <2>2, PeerMgrAssumption
    DEF PeerNext, MainStep, GetLink, SendNow, Enqueue, Flush, failPending, AttachOutgoing,
        DialStep, DialStart, DialResult, AttachIncoming, FlushIncoming, Break
<1> QED
  BY <1>1, DialInvariance, PTL DEF PeerSpec, OpenLinkStays
==============================================================================
