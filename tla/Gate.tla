-------------------------------- MODULE Gate --------------------------------
(***************************************************************************)
(* The way of a client's request through the gate server and back          *)
(* (server/gate/module.go, core/dispatcher, core/conn, core/acceptor), on  *)
(* top of the sessions.  Goroutines: an accept loop per listener, a        *)
(* receive loop, a read and a write loop per connection, and the main      *)
(* loop, which dispatches packets and runs the callbacks of calls.         *)
(*                                                                         *)
(* The TCP and the WebSocket listener have different ports, so connections *)
(* of one remote address may even be open at the same time; one listener   *)
(* sees an address again as soon as the socket is closed.                  *)
(*                                                                         *)
(* rpc.Core is used by its contract (RpcContract): every call has exactly  *)
(* one callback, for the response or the timeout.  The main loop's queue   *)
(* never fills here: what happens when it does is the matter of RpcCore.   *)
(* Handshakes, heartbeats and notifications keep no state and are left out.*)
(***************************************************************************)
EXTENDS Sessions, Sequences

CONSTANTS MaxConns,   \* bound: connections, numbered as they are made
          MaxEvents,  \* bound: requests and calls of BindSession together
          SendCap     \* capacity of a connection's send queue (256 in conn.go)

ASSUME GateConstants == MaxConns \in Nat /\ MaxEvents \in Nat /\ SendCap \in Nat

Conns == 1..MaxConns
NoConn == 0
Requests == 1..MaxEvents

VARIABLES
    st,        \* st[c]: "none", "accepted", "started", "reading", "left"
    addr,      \* addr[c]: the remote address
    open,      \* connections that are not closed
    own,       \* own[c]: the session OnConnect made for c
    got,       \* got[c]: the session the receive loop works with
    from,      \* from[r]: the connection that sent the r-th request
    inbox,     \* inbox[c]: recvCh
    queue,     \* tasks of the main loop: [task, r, s]
    calls,     \* <<request, session>> of calls in rpc.Core
    out,       \* out[c]: sendCh
    written,   \* written[c]: requests whose response was written to c
    binds,     \* number of calls of BindSession
    displaced, \* history: sessions that another connection replaced or removed
    dropped    \* history: requests whose response met a full send queue

clients == <<st, addr, open, own, got>>
traffic == <<from, inbox, queue, calls, out, written, dropped>>
vars == <<sessions, clients, traffic, binds, displaced>>

Init ==
    /\ InitSessions
    /\ st = [c \in Conns |-> "none"]
    /\ addr = [c \in Conns |-> CHOOSE a \in Addrs : TRUE]
    /\ open = {}
    /\ own = [c \in Conns |-> NoSession] /\ got = [c \in Conns |-> NoSession]
    /\ from = <<>> /\ inbox = [c \in Conns |-> <<>>]
    /\ queue = <<>> /\ calls = {}
    /\ out = [c \in Conns |-> <<>>] /\ written = [c \in Conns |-> {}]
    /\ binds = 0 /\ displaced = {} /\ dropped = {}

MoreEvents == Len(from) + binds < MaxEvents

\* The next session to be made.
Fresh == 1 + Cardinality(created)

-----------------------------------------------------------------------------
(***************************************************************************)
(* Connections                                                             *)
(***************************************************************************)

\* The acceptor wraps a socket, whose loops run from now on.
Accept(c, a) ==
    /\ st[c] = "none" /\ c \in {1} \cup {d + 1 : d \in {e \in Conns : st[e] # "none"}}
    /\ st' = [st EXCEPT ![c] = "accepted"]
    /\ addr' = [addr EXCEPT ![c] = a]
    /\ open' = open \cup {c}
    /\ UNCHANGED <<sessions, own, got, traffic, binds, displaced>>

\* handleConn
HandleConn(c) ==
    /\ st[c] = "accepted"
    /\ OnConnect(Fresh, addr[c])
    /\ own' = [own EXCEPT ![c] = Fresh]
    /\ st' = [st EXCEPT ![c] = "started"]
    /\ displaced' = displaced \cup ({byConn[addr[c]]} \ {NoSession, byConn'[addr[c]]})
    /\ UNCHANGED <<addr, open, got, traffic, binds>>

\* recvLoop looks its session up when it starts to run.
StartRecv(c) ==
    /\ st[c] = "started"
    /\ got' = [got EXCEPT ![c] = byConn[addr[c]]]
    /\ st' = [st EXCEPT ![c] = "reading"]
    /\ UNCHANGED <<sessions, addr, open, own, traffic, binds, displaced>>

\* The client sends a request, readLoop enters it in recvCh.
Send(c) ==
    /\ c \in open /\ MoreEvents
    /\ from' = Append(from, c)
    /\ inbox' = [inbox EXCEPT ![c] = Append(@, Len(from'))]
    /\ UNCHANGED <<sessions, clients, queue, calls, out, written, binds, displaced, dropped>>

\* The client closes the connection, or an error of the socket does.
Close(c) ==
    /\ c \in open
    /\ open' = open \ {c}
    /\ UNCHANGED <<sessions, st, addr, own, got, traffic, binds, displaced>>

\* recvLoop posts a packet to the main loop.
Receive(c) ==
    /\ st[c] = "reading" /\ inbox[c] # <<>>
    /\ queue' = Append(queue, [task |-> "packet", r |-> Head(inbox[c]), s |-> got[c]])
    /\ inbox' = [inbox EXCEPT ![c] = Tail(@)]
    /\ UNCHANGED <<sessions, clients, from, calls, out, written, binds, displaced, dropped>>

\* recvLoop ends, even if packets are left, and cleans up by address.
Leave(c) ==
    /\ st[c] = "reading" /\ c \notin open
    /\ OnDisconnect(addr[c])
    /\ st' = [st EXCEPT ![c] = "left"]
    /\ displaced' = displaced \cup ({byConn[addr[c]]} \ {NoSession, own[c]})
    /\ UNCHANGED <<addr, open, own, got, traffic, binds>>

\* writeLoop writes what the send queue holds, in one batch.
Write(c) ==
    /\ c \in open /\ out[c] # <<>>
    /\ written' = [written EXCEPT ![c] = @ \cup {out[c][i] : i \in 1..Len(out[c])}]
    /\ out' = [out EXCEPT ![c] = <<>>]
    /\ UNCHANGED <<sessions, clients, from, inbox, queue, calls, binds, displaced, dropped>>

-----------------------------------------------------------------------------
(***************************************************************************)
(* The main loop                                                           *)
(***************************************************************************)

\* forwardToBackend: the request goes out as a call, whose callback keeps the session.
Forward(r, s) == calls \cup {<<r, s>>}

\* HandleSessionPacket and Dispatch: without a session the packet is dropped.
HandlePacket ==
    /\ queue # <<>> /\ Head(queue).task = "packet"
    /\ queue' = Tail(queue)
    /\ calls' = IF Head(queue).s = NoSession THEN calls
                ELSE Forward(Head(queue).r, Head(queue).s)
    /\ UNCHANGED <<sessions, clients, from, inbox, out, written, binds, displaced, dropped>>

\* rpc.Core posts the callback of a call.
Answer(r, s) ==
    /\ <<r, s>> \in calls
    /\ calls' = calls \ {<<r, s>>}
    /\ queue' = Append(queue, [task |-> "answer", r |-> r, s |-> s])
    /\ UNCHANGED <<sessions, clients, from, inbox, out, written, binds, displaced, dropped>>

\* Wrong variant: whatever session the address has now.
AnySession(s) == byConn[connID[s]] # NoSession
\* The address still leads to the session that asked.
Current(s) == byConn[connID[s]] = s

\* The connection of the session that the address leads to: nil for one that
\* BindSession made.
ConnOf(s) == IF \E c \in Conns : own[c] = s THEN CHOOSE c \in Conns : own[c] = s ELSE NoConn

\* Wrong variant: one response more than the channel holds.
LaterRoom(c) == Len(out[c]) <= SendCap
Room(c) == Len(out[c]) < SendCap

\* The callback sends the response if the session is still the one that
\* asked; a closed connection takes nothing, a full send queue drops it.
RunCallback ==
    /\ queue # <<>> /\ Head(queue).task = "answer"
    /\ queue' = Tail(queue)
    /\ LET r == Head(queue).r
           s == Head(queue).s
           c == ConnOf(byConn[connID[s]])
           takes == Current(s) /\ c \in open
       IN /\ out' = IF takes /\ Room(c)
                    THEN [out EXCEPT ![c] = Append(@, r)] ELSE out
          /\ dropped' = IF takes /\ ~Room(c) THEN dropped \cup {r} ELSE dropped
    /\ UNCHANGED <<sessions, clients, from, inbox, calls, written, binds, displaced>>

\* BindSession and OnTimeout are exported, and called by tests only.
Bind(a, u) ==
    /\ MoreEvents
    /\ binds' = binds + 1
    /\ BindSession(Fresh, a, u)
    /\ UNCHANGED <<clients, traffic, displaced>>

Next ==
    \/ \E c \in Conns : \/ \E a \in Addrs : Accept(c, a)
                        \/ HandleConn(c) \/ StartRecv(c) \/ Send(c) \/ Close(c)
                        \/ Receive(c) \/ Leave(c) \/ Write(c)
    \/ HandlePacket \/ RunCallback
    \/ \E r \in Requests, s \in SessionIDs : Answer(r, s)
    \/ \E a \in Addrs, u \in Uids \cup {NoUid} : Bind(a, u)

\* Every loop runs when it can, calls are answered, and clients read what is
\* written.  A receive loop that finds both a packet and the end of its
\* connection picks one of them.
Fairness ==
    /\ \A c \in Conns : /\ WF_vars(HandleConn(c)) /\ WF_vars(StartRecv(c))
                        /\ WF_vars(Receive(c) \/ Leave(c)) /\ WF_vars(Write(c))
    /\ WF_vars(HandlePacket \/ RunCallback)
    /\ \A r \in Requests, s \in SessionIDs : WF_vars(Answer(r, s))

Spec == Init /\ [][Next]_vars /\ Fairness

-----------------------------------------------------------------------------
\* Types: the sessions of the connections were made by OnConnect, only accepted
\* connections are open, and no send queue holds more than its channel.
TypeOK ==
    /\ SessionsTypeOK
    /\ st \in [Conns -> {"none", "accepted", "started", "reading", "left"}]
    /\ open \subseteq {c \in Conns : st[c] # "none"}
    /\ \A c \in Conns : own[c] \in created \cup {NoSession} /\ got[c] \in created \cup {NoSession}
    /\ \A c \in Conns : Len(out[c]) <= SendCap

\* The response to a request is written to the connection that sent it, and
\* never to another client of the same address ("回包后写回原连接"), if the receive
\* loop of the requester found its own session when it started.
ResponseToRequester ==
    \A c \in Conns : \A r \in written[c] : got[from[r]] = own[from[r]] => from[r] = c

\* No session of a connection outlives its receive loop: an address leads to
\* one only while that loop, which will remove it, runs or is about to.
SessionsCleaned ==
    \A c \in Conns : st[c] = "left" => \A a \in Addrs : own[c] # byConn[a]

\* Every request that is received is answered, as long as its connection is
\* open: unless another connection of the same address has replaced or removed
\* the session (OnDisconnect goes by the address alone), or the client reads
\* so slowly that its send queue is full.
Answered ==
    \A r \in Requests : \A c \in Conns :
        (r <= Len(from) /\ from[r] = c)
            ~> (r \in written[c] \cup dropped \/ c \notin open \/ own[c] \in displaced)
=============================================================================
