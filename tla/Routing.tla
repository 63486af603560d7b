------------------------------- MODULE Routing -------------------------------
(***************************************************************************)
(* Requests and their responses on the way between processes through the   *)
(* RouterAgents (RAs): ragent/agent/router.go, remote_seq.go,              *)
(* incoming_peer_seq.go, local_conn_set.go and the two places of           *)
(* peer_forward.go that rewrite a frame.  A request for a process of       *)
(* another RA leaves under a sequence number of the RA of its caller; the  *)
(* response has to find the way back by that number.  An RA does all this  *)
(* on its main loop, so a frame is one action.  What PeerMgr does between  *)
(* SendOrQueue and the link (queue, dial, fail) is the set outbound.       *)
(***************************************************************************)
EXTENDS Integers, Sequences, FiniteSets

CONSTANTS RAs,        \* RouterAgents
          Gates,      \* processes that call
          Lobbies,    \* processes that answer
          Home,       \* the RA of a process
          Restarting, \* gates that may stop and start again
          MaxCalls,   \* bound on the calls
          MaxFaults   \* bound on lost frames, failed sends and stopped gates

Procs == Gates \cup Lobbies
Calls == 1..MaxCalls

ASSUME RoutingAssumption ==
    /\ Home \in [Procs -> RAs]
    /\ Gates \cap Lobbies = {}
    /\ Restarting \subseteq Gates
    /\ MaxCalls \in Nat
    /\ MaxFaults \in Nat

VARIABLES gen,       \* incarnation of a process; its connection to the RA
          up,        \* processes that run and are registered at their RA
          registry,  \* processes in etcd
          member,    \* per RA, the processes in its MemberTable
          coreSeq,   \* Core.seq of a process
          calls,     \* calls made so far: who, under which number, and its outcome
          outbound,  \* per RA, requests on their way to a link
          seq,       \* RemoteSeqMap.seq
          remote,    \* RemoteSeqMap.data
          incoming,  \* IncomingPeerSeqStore.entries
          net,       \* frames between RAs
          inbox,     \* requests delivered to a process and not yet handled
          faults

vars == <<gen, up, registry, member, coreSeq, calls, outbound, seq, remote,
          incoming, net, inbox, faults>>

procVars == <<gen, up, registry, member, coreSeq>>

\* The connection of the process p as it is now.
Conn(p) == [proc |-> p, gen |-> gen[p]]

Conns == [proc : Procs, gen : Nat]
SeqIDs == 1..MaxCalls * Cardinality(Lobbies)

\* Types: the tables of RemoteSeqMap and IncomingPeerSeqStore are sets of
\* records with at most one for an id; a frame or request carries the call it
\* belongs to in place of its body.
TypeOK ==
    /\ gen \in [Procs -> Nat]
    /\ up \subseteq Procs
    /\ registry \subseteq Procs
    /\ member \in [RAs -> SUBSET Procs]
    /\ coreSeq \in [Procs -> 0..MaxCalls]
    /\ calls \in Seq([conn : Conns, seq : Nat, from : {0} \cup Calls,
                     state : {"waiting", "error", "timeout", "response"}])
    /\ Len(calls) <= MaxCalls
    /\ outbound \in [RAs -> SUBSET [call : Calls, conn : Conns, seq : Nat, dst : Lobbies]]
    /\ seq \in [RAs -> Nat]
    /\ remote \in [RAs -> SUBSET [id : SeqIDs, conn : Conns, orig : Nat]]
    /\ \A a \in RAs : \A e, f \in remote[a] : e.id = f.id => e = f
    /\ incoming \in [RAs -> SUBSET [id : SeqIDs, peer : RAs]]
    /\ \A a \in RAs : \A e, f \in incoming[a] : e.id = f.id => e = f
    /\ net \subseteq [kind : {"req", "rsp"}, from : RAs, to : RAs, seq : SeqIDs,
                      src : Gates, dst : Lobbies, call : Calls]
    /\ inbox \subseteq [seq : Nat, src : Gates, dst : Lobbies, call : Calls]
    /\ faults \in 0..MaxFaults

Init ==
    /\ gen = [p \in Procs |-> 1]
    /\ up = Procs
    /\ registry = Procs
    /\ member = [a \in RAs |-> Procs]
    /\ coreSeq = [p \in Procs |-> 0]
    /\ calls = <<>>
    /\ outbound = [a \in RAs |-> {}]
    /\ seq = [a \in RAs |-> 0]
    /\ remote = [a \in RAs |-> {}]
    /\ incoming = [a \in RAs |-> {}]
    /\ net = {}
    /\ inbox = {}
    /\ faults = 0

-----------------------------------------------------------------------------
(* Calls of a process *)

\* The call waits and the process that made it is still there.
Waiting(c) ==
    /\ calls[c].state = "waiting"
    /\ calls[c].conn.proc \in up
    /\ calls[c].conn = Conn(calls[c].conn.proc)

\* A response with a number reaches a connection: the call of this very
\* process that waits under the number takes it, any other response is late.
Answered(conn, s, state, from) ==
    [c \in DOMAIN calls |->
        IF Waiting(c) /\ calls[c].conn = conn /\ calls[c].seq = s
        THEN [calls[c] EXCEPT !.state = state, !.from = from]
        ELSE calls[c]]

\* Processes a request may be routed to: one that was named or picked by its
\* hash, or with Broadcast all that are known.
pickTargets(a) == {{n} : n \in Lobbies} \cup {Lobbies \cap member[a]}

\* A call, and forwardRPC at the RA of the caller: a target on this RA is
\* handed the request as it is, one on another RA is sent to by way of
\* SendOrQueue, one that is not in the table is skipped.
forwardRPC(g, targets) ==
    LET a == Home[g]
        c == Len(calls) + 1
        known == targets \cap member[a]
        local == {n \in known : Home[n] = a /\ n \in up}
    IN
    /\ g \in up
    /\ Len(calls) < MaxCalls
    /\ coreSeq' = [coreSeq EXCEPT ![g] = @ + 1]
    /\ calls' = Append(calls, [conn |-> Conn(g), seq |-> coreSeq'[g], from |-> 0,
                               state |-> "waiting"])
    /\ inbox' = inbox \cup {[seq |-> coreSeq'[g], src |-> g, dst |-> n, call |-> c] :
                               n \in local}
    /\ outbound' = [outbound EXCEPT ![a] = @ \cup
                       {[call |-> c, conn |-> Conn(g), seq |-> coreSeq'[g], dst |-> n] :
                           n \in known \ local}]
    /\ UNCHANGED <<gen, up, registry, member, seq, remote, incoming, net, faults>>

Timeout(c) ==
    /\ Waiting(c)
    /\ calls' = [calls EXCEPT ![c].state = "timeout"]
    /\ UNCHANGED <<procVars, outbound, seq, remote, incoming, net, inbox, faults>>

-----------------------------------------------------------------------------
(* To the RA of the target *)

\* Wrong variant: the counter is read and not incremented.
Load(a) == seq[a]

\* RemoteSeqMap.Alloc.
Alloc(a) == seq[a] + 1

\* sendPeerOutbound: the request gets a number of this RA and is put on a link.
sendPeerOutbound(a, item) ==
    LET id == Alloc(a) IN
    /\ seq' = [seq EXCEPT ![a] = id]
    /\ remote' = [remote EXCEPT ![a] =
                     {e \in @ : e.id # id}
                         \cup {[id |-> id, conn |-> item.conn, orig |-> item.seq]}]
    /\ net' = net \cup {[kind |-> "req", from |-> a, to |-> Home[item.dst], seq |-> id,
                         src |-> item.conn.proc, dst |-> item.dst, call |-> item.call]}
    /\ outbound' = [outbound EXCEPT ![a] = @ \ {item}]
    /\ UNCHANGED <<procVars, calls, incoming, inbox, faults>>

\* FailOutbound: the caller is told.  A request whose send has failed may stay
\* queued for the next connection all the same.
FailOutbound(a, item) ==
    /\ faults < MaxFaults
    /\ faults' = faults + 1
    /\ calls' = Answered(item.conn, item.seq, "error", 0)
    /\ outbound' = [outbound EXCEPT ![a] = @ \ {item}] \/ UNCHANGED outbound
    /\ UNCHANGED <<procVars, seq, remote, incoming, net, inbox>>

\* IncomingPeerSeqStore.Track: the latest request with a number wins.
Track(entries, id, peer) ==
    {e \in entries : e.id # id} \cup {[id |-> id, peer |-> peer]}

\* HandlePeerFrame of a request: where it came from is kept, and it is handed
\* to the target if that is connected.
HandleRequest(f) ==
    /\ f.kind = "req"
    /\ incoming' = [incoming EXCEPT ![f.to] = Track(@, f.seq, f.from)]
    /\ inbox' = IF f.dst \in up
                THEN inbox \cup {[seq |-> f.seq, src |-> f.src, dst |-> f.dst,
                                  call |-> f.call]}
                ELSE inbox
    /\ net' = net \ {f}
    /\ UNCHANGED <<procVars, calls, outbound, seq, remote, faults>>

-----------------------------------------------------------------------------
(* And back *)

\* Wrong variant: a response whose number is not known goes nowhere.
OnlyTracked(b, m) == {e.peer : e \in {x \in incoming[b] : x.id = m.seq}}

\* The RA a response is sent to: the one the number came from, or the one of
\* the caller if the number is gone or the link to that peer is down.
ResponsePeers(b, m) ==
    {e.peer : e \in {x \in incoming[b] : x.id = m.seq}} \cup {Home[m.src]}

\* The target answers and its RA takes the response (RouteFrame,
\* SendResponseViaPeer): to the caller itself when it is connected here,
\* otherwise back to the peer, unless the caller is not in the table.
SendResponseViaPeer(m) ==
    LET b == Home[m.dst] IN
    /\ inbox' = inbox \ {m}
    /\ \/ /\ Home[m.src] = b /\ m.src \in up
          /\ calls' = Answered(Conn(m.src), m.seq, "response", m.call)
          /\ UNCHANGED <<incoming, net>>
       \/ /\ ~(Home[m.src] = b /\ m.src \in up)
          /\ m.src \notin member[b]
          /\ UNCHANGED <<calls, incoming, net>>
       \/ /\ ~(Home[m.src] = b /\ m.src \in up)
          /\ m.src \in member[b]
          /\ incoming' = [incoming EXCEPT ![b] = {e \in @ : e.id # m.seq}]
          /\ \E a \in ResponsePeers(b, m) :
                net' = net \cup {[kind |-> "rsp", from |-> b, to |-> a, seq |-> m.seq,
                                  src |-> m.src, dst |-> m.dst, call |-> m.call]}
          /\ UNCHANGED calls
    /\ UNCHANGED <<procVars, outbound, seq, remote, faults>>

\* HandlePeerFrame of a response: RemoteSeqMap.Pop gives the connection and
\* the number the request came with.
HandleResponse(f) ==
    /\ f.kind = "rsp"
    /\ net' = net \ {f}
    /\ \/ /\ \A e \in remote[f.to] : e.id # f.seq
          /\ UNCHANGED <<calls, remote>>
       \/ \E e \in remote[f.to] :
             /\ e.id = f.seq
             /\ remote' = [remote EXCEPT ![f.to] = @ \ {e}]
             /\ calls' = Answered(e.conn, e.orig, "response", f.call)
    /\ UNCHANGED <<procVars, outbound, seq, incoming, inbox, faults>>

-----------------------------------------------------------------------------
(* What else happens to the tables *)

\* A frame is lost with its link.
Lose(f) ==
    /\ faults < MaxFaults
    /\ faults' = faults + 1
    /\ net' = net \ {f}
    /\ UNCHANGED <<procVars, calls, outbound, seq, remote, incoming, inbox>>

\* CleanupExpired and CleanupByPeer drop what was kept of a request.
Cleanup(b, e) ==
    /\ incoming' = [incoming EXCEPT ![b] = @ \ {e}]
    /\ UNCHANGED <<procVars, calls, outbound, seq, remote, net, inbox, faults>>

\* removeConn, when the connection of a process has ended.
removeConn(g) ==
    /\ g \in up
    /\ faults < MaxFaults
    /\ faults' = faults + 1
    /\ up' = up \ {g}
    /\ registry' = registry \ {g}
    /\ member' = [member EXCEPT ![Home[g]] = @ \ {g}]
    /\ remote' = [remote EXCEPT ![Home[g]] = {e \in @ : e.conn # Conn(g)}]
    /\ UNCHANGED <<gen, coreSeq, calls, outbound, seq, incoming, net, inbox>>

\* The process starts again and shakes hands with its RA.
Handshake(g) ==
    /\ g \notin up
    /\ gen' = [gen EXCEPT ![g] = @ + 1]
    /\ coreSeq' = [coreSeq EXCEPT ![g] = 0]
    /\ up' = up \cup {g}
    /\ registry' = registry \cup {g}
    /\ member' = [member EXCEPT ![Home[g]] = @ \cup {g}]
    /\ UNCHANGED <<calls, outbound, seq, remote, incoming, net, inbox, faults>>

\* The watch of etcd brings the entry of a process up to date at another RA.
Discover(a, p) ==
    /\ (p \in member[a]) # (p \in registry)
    /\ member' = [member EXCEPT ![a] = (@ \ {p}) \cup ({p} \cap registry)]
    /\ UNCHANGED <<gen, up, registry, coreSeq, calls, outbound, seq, remote,
                   incoming, net, inbox, faults>>

-----------------------------------------------------------------------------

RouteStep ==
    \/ \E a \in RAs : \E item \in outbound[a] : sendPeerOutbound(a, item)
    \/ \E f \in net : HandleRequest(f) \/ HandleResponse(f)
    \/ \E m \in inbox : SendResponseViaPeer(m)

Next ==
    \/ \E g \in Gates : \E targets \in pickTargets(Home[g]) : forwardRPC(g, targets)
    \/ RouteStep
    \/ \E c \in DOMAIN calls : Timeout(c)
    \/ \E a \in RAs : \E item \in outbound[a] : FailOutbound(a, item)
    \/ \E f \in net : Lose(f)
    \/ \E b \in RAs : \E e \in incoming[b] : Cleanup(b, e)
    \/ \E g \in Restarting : removeConn(g) \/ Handshake(g)
    \/ \E a \in RAs, p \in Procs : Discover(a, p)

Spec == Init /\ [][Next]_vars

\* Links are drained, main loops run what they are given and processes answer
\* (the number of routing steps is finite, so one of them goes on until none
\* is left).
FairSpec == Spec /\ WF_vars(RouteStep)

-----------------------------------------------------------------------------
(* Properties *)

\* A response is given to the call it answers: the number an RA puts on a
\* request, the peer that is kept for it at the other RA and the way back
\* through RemoteSeqMap lead to the process and the call it came from, also
\* when processes stop, links fail and entries expire on the way.
ResponseMatches ==
    \A c \in DOMAIN calls : calls[c].state = "response" => calls[c].from = c

\* As long as no frame is lost, no send fails and no process stops, every call
\* is answered without its timeout, whatever CleanupExpired has dropped.
AnsweredWithoutFaults ==
    \A c \in Calls :
        LET open == c \in DOMAIN calls /\ calls[c].state = "waiting"
        IN  open ~> faults > 0 \/ ~open
=============================================================================
