------------------------------- MODULE PeerMgr -------------------------------
(***************************************************************************)
(* The connection of a RouterAgent to one other RouterAgent: the entry of  *)
(* PeerMgr for one key and the steps of PeerForwarder on it                *)
(* (ragent/agent/peer_mgr.go, peer_forward.go).  Three kinds of goroutine  *)
(* meet at the entry, each holding the lock for one operation only: the    *)
(* main loop, which sends requests and handles the results of dials; the   *)
(* dials; and the incoming connections.  The link of a connection is       *)
(* closed by its replacement or breaks at any time, and its read loop then *)
(* takes it off the entry.  The specification has names of its own, so     *)
(* that a module can extend this one and Routing.                          *)
(***************************************************************************)
EXTENDS Integers, Sequences, Functions

CONSTANTS Requests,     \* requests to be sent to the peer
          Dials,        \* dial goroutines under way at a time; as many as requests
                        \* bound nothing, since an enqueue starts at most one
          Links,        \* links; bounds those ever made
          Incoming,     \* those of them that are incoming connections
          NoLink,       \* a nil link
          PendingLimit  \* peerPendingLimit

\* How far a dial goroutine is before it has a link.
DialSteps == {"idle", "started", "dialing", "err"}

ASSUME PeerMgrAssumption ==
    /\ Incoming \subseteq Links
    /\ Links \cap DialSteps = {}
    /\ NoLink \notin Links
    /\ PendingLimit \in Nat

VARIABLES state,     \* PeerInfo.State, or "none" when there is no entry
          link,      \* PeerInfo.Link
          pending,   \* PeerMgr.pending
          dial,      \* per dial goroutine, how far it is, or its link
          conn,      \* per link: "new", "open", "closed", "gone" (detached)
          main,      \* the main loop: what it is doing to which requests
          flushing,  \* requests an incoming connection has yet to flush
          sent,      \* requests put into the send queue of a link
          failed,    \* requests answered with an error
          finished   \* requests for which SendOrQueue has returned

peerVars == <<state, link, pending, dial, conn, main, flushing, sent, failed,
          finished>>

\* Types: one entry, its dials and connections, and what the main loop holds
\* between two operations under the lock.
PeerTypeOK ==
    /\ state \in {"none", "disconnected", "connecting", "connected"}
    /\ link \in Links \cup {NoLink}
    /\ pending \in Seq(Requests)
    /\ Len(pending) <= PendingLimit
    /\ dial \in [Dials -> DialSteps \cup Links]
    /\ conn \in [Links -> {"new", "open", "closed", "gone"}]
    /\ main \in [at : {"loop", "send", "enqueue", "flush"},
                link : Links \cup {NoLink}, todo : Seq(Requests)]
    /\ flushing \in [Incoming -> Seq(Requests)]
    /\ sent \subseteq Requests
    /\ failed \subseteq Requests
    /\ finished \subseteq Requests

Idle == [at |-> "loop", link |-> NoLink, todo |-> <<>>]

PeerInit ==
    /\ state = "none"
    /\ link = NoLink
    /\ pending = <<>>
    /\ dial = [d \in Dials |-> "idle"]
    /\ conn = [l \in Links |-> "new"]
    /\ main = Idle
    /\ flushing = [l \in Incoming |-> <<>>]
    /\ sent = {}
    /\ failed = {}
    /\ finished = {}

-----------------------------------------------------------------------------
(* tcpPeerLink.Send and what sendPeerOutbound makes of it *)

\* The request is in the queue of the link, also of one that is closed when
\* select takes that branch; or it is not, because the link is closed or the
\* queue is full, and is answered with an error.
SendOk(r) == sent' = sent \cup {r} /\ UNCHANGED failed
SendFails(r) == failed' = failed \cup {r} /\ UNCHANGED sent

-----------------------------------------------------------------------------
(* SendOrQueue, on the main loop *)

\* getLink: the snapshot decides between sending and queueing.
GetLink(r) ==
    /\ main = Idle
    /\ r \notin finished
    /\ main' = IF state = "connected" /\ link # NoLink
               THEN [at |-> "send", link |-> link, todo |-> <<r>>]
               ELSE [at |-> "enqueue", link |-> NoLink, todo |-> <<r>>]
    /\ UNCHANGED <<state, link, pending, dial, conn, flushing, sent, failed,
                   finished>>

\* A send that fails goes on to queue the request.
SendNow ==
    /\ main.at = "send"
    /\ \/ /\ SendOk(main.todo[1])
          /\ main' = Idle
          /\ finished' = finished \cup {main.todo[1]}
       \/ /\ SendFails(main.todo[1])
          /\ main' = [main EXCEPT !.at = "enqueue"]
          /\ UNCHANGED finished
    /\ UNCHANGED <<state, link, pending, dial, conn, flushing>>

\* Wrong variant: whoever queues relies on a dial that is not there.
NeverDials(d) ==
    /\ state' = "connecting"
    /\ UNCHANGED dial

\* enqueue changed the state to connecting and has the caller dial.
StartDial(d) ==
    /\ state' = "connecting"
    /\ dial[d] = "idle"
    /\ dial' = [dial EXCEPT ![d] = "started"]

\* Wrong variant: one more than the limit.
FullTooLate == Len(pending) > PendingLimit

\* The queue of the peer is full.
Full == Len(pending) >= PendingLimit

\* The request is queued unless the peer is connected by now; the first one
\* to find that nobody is connecting starts a dial.
Enqueued(r) ==
    \/ /\ state = "connected" /\ link # NoLink
       /\ UNCHANGED <<state, pending, dial, failed>>
    \/ /\ ~(state = "connected" /\ link # NoLink)
       /\ Full
       /\ state' = IF state = "none" THEN "disconnected" ELSE state
       /\ failed' = failed \cup {r}
       /\ UNCHANGED <<pending, dial>>
    \/ /\ ~(state = "connected" /\ link # NoLink)
       /\ ~Full
       /\ pending' = Append(pending, r)
       /\ IF state # "connecting"
          THEN \E d \in Dials : StartDial(d)
          ELSE UNCHANGED <<state, dial>>
       /\ UNCHANGED failed

Enqueue ==
    /\ main.at = "enqueue"
    /\ Enqueued(main.todo[1])
    /\ main' = Idle
    /\ finished' = finished \cup {main.todo[1]}
    /\ UNCHANGED <<link, conn, flushing, sent>>

-----------------------------------------------------------------------------
(* The dial goroutine and its result on the main loop *)

SetState(s) == state' = s

DialStart(d) ==
    /\ dial[d] = "started"
    /\ dial' = [dial EXCEPT ![d] = "dialing"]
    /\ SetState("connecting")
    /\ UNCHANGED <<link, pending, conn, main, flushing, sent, failed, finished>>

\* Connected and shaken hands, which makes a link, or failed on the way.
DialResult(d) ==
    /\ dial[d] = "dialing"
    /\ \/ \E l \in Links \ Incoming :
             /\ conn[l] = "new"
             /\ \A e \in Dials : dial[e] # l
             /\ dial' = [dial EXCEPT ![d] = l]
             /\ UNCHANGED state
       \/ /\ dial' = [dial EXCEPT ![d] = "err"]
          /\ SetState("disconnected")
    /\ UNCHANGED <<link, pending, conn, main, flushing, sent, failed, finished>>

\* Wrong variant: the requests stay when the dial has failed.
KeepPending == UNCHANGED pending

\* failPending hands out all that is queued.
ClearPending == pending' = <<>>

\* FailOutbound for every request that was queued.
FailOutbounds == failed' = failed \cup Range(pending)

\* The result of a failed dial: failPending, and an error for each request.
failPending(d) ==
    /\ main = Idle
    /\ dial[d] = "err"
    /\ dial' = [dial EXCEPT ![d] = "idle"]
    /\ FailOutbounds
    /\ ClearPending
    /\ state' = IF state \in {"none", "connecting"} THEN "disconnected" ELSE state
    /\ UNCHANGED <<link, conn, main, flushing, sent, finished>>

\* Wrong variant: the link that was there is left open.
LeaveOld(l) == [conn EXCEPT ![l] = "open"]

\* The link that was there is closed.
CloseOld(l) ==
    [k \in Links |-> IF k = l THEN "open"
                     ELSE IF k = link /\ conn[k] = "open" THEN "closed"
                     ELSE conn[k]]

\* Attach makes the link the one of the entry and hands out what is queued.
Attach(l) ==
    /\ conn[l] = "new"
    /\ conn' = CloseOld(l)
    /\ link' = l
    /\ state' = "connected"
    /\ pending' = <<>>

\* The result of a dial that succeeded; the main loop goes on to flush.
AttachOutgoing(d, l) ==
    /\ main = Idle
    /\ dial[d] = l
    /\ Attach(l)
    /\ dial' = [dial EXCEPT ![d] = "idle"]
    /\ main' = IF pending = <<>> THEN Idle
               ELSE [at |-> "flush", link |-> l, todo |-> pending]
    /\ UNCHANGED <<flushing, sent, failed, finished>>

\* FlushPending on the main loop.
Flush ==
    /\ main.at = "flush"
    /\ SendOk(main.todo[1]) \/ SendFails(main.todo[1])
    /\ main' = IF Len(main.todo) = 1 THEN Idle
               ELSE [main EXCEPT !.todo = Tail(@)]
    /\ UNCHANGED <<state, link, pending, dial, conn, flushing, finished>>

-----------------------------------------------------------------------------
(* Incoming connections, and the end of a link *)

\* HandleIncomingPeer attaches the link itself and flushes beside the main loop.
AttachIncoming(l) ==
    /\ l \in Incoming
    /\ Attach(l)
    /\ flushing' = [flushing EXCEPT ![l] = pending]
    /\ UNCHANGED <<dial, main, sent, failed, finished>>

FlushIncoming(l) ==
    /\ flushing[l] # <<>>
    /\ SendOk(flushing[l][1]) \/ SendFails(flushing[l][1])
    /\ flushing' = [flushing EXCEPT ![l] = Tail(@)]
    /\ UNCHANGED <<state, link, pending, dial, conn, main, finished>>

Break(l) ==
    /\ conn[l] = "open"
    /\ conn' = [conn EXCEPT ![l] = "closed"]
    /\ UNCHANGED <<state, link, pending, dial, main, flushing, sent, failed,
                   finished>>

\* Wrong variant: a link takes whatever is attached off the entry.
Always(l) == TRUE

\* Only the link that is attached is taken off.
IsAttached(l) == link = l

\* Detach, when the read loop of a link has ended.
Detach(l) ==
    /\ conn[l] = "closed"
    /\ l \in Incoming => flushing[l] = <<>>
    /\ conn' = [conn EXCEPT ![l] = "gone"]
    /\ IF IsAttached(l)
       THEN state' = "none" /\ link' = NoLink
       ELSE UNCHANGED <<state, link>>
    /\ UNCHANGED <<pending, dial, main, flushing, sent, failed, finished>>

MainStep ==
    \/ SendNow \/ Enqueue \/ Flush
    \/ \E d \in Dials : failPending(d) \/ \E l \in Links : AttachOutgoing(d, l)

DialStep(d) == DialStart(d) \/ DialResult(d)

PeerNext ==
    \/ \E r \in Requests : GetLink(r)
    \/ MainStep
    \/ \E d \in Dials : DialStep(d)
    \/ \E l \in Incoming : AttachIncoming(l) \/ FlushIncoming(l)
    \/ \E l \in Links : Break(l) \/ Detach(l)

PeerSpec == PeerInit /\ [][PeerNext]_peerVars

\* The main loop runs what is posted to it, and a dial ends in time because
\* of its deadline.  Nothing is assumed of the connections.
PeerFairSpec ==
    /\ PeerSpec
    /\ WF_peerVars(MainStep)
    /\ \A d \in Dials : WF_peerVars(DialStep(d))

-----------------------------------------------------------------------------

\* Whatever is queued has a dial under way whose result will send or fail it,
\* although dials overlap, incoming connections come between, and a failed
\* dial resets the state of the one after it (enqueue, failPending).
PendingHasDial == pending # <<>> => \E d \in Dials : dial[d] # "idle"

\* What makes the invariants inductive: the main loop holds a request whenever
\* it is at one, and nobody leaves the state at connecting who is not dialing
\* (SetState, enqueue, failPending).
DialInv ==
    /\ PeerTypeOK
    /\ main.at # "loop" => main.todo # <<>>
    /\ state = "connecting" => \E d \in Dials : dial[d] # "idle"
    /\ PendingHasDial

\* Of the connections to a peer at most one is open, the one on the entry
\* (Attach closes the one it replaces).
OneActiveLink == \A l \in Links : conn[l] = "open" => l = link

\* A link that is open stays on the entry until another one replaces it: the
\* end of an older one does not take it off (Detach).
OpenLinkStays ==
    [][link # NoLink /\ conn[link] = "open" => link' # NoLink]_peerVars

\* What is queued is sent or answered with an error in the end.
PendingResolved ==
    \A r \in Requests : (r \in Range(pending)) ~> (r \notin Range(pending))

\* A request that SendOrQueue is done with was put on a link, is queued or
\* being flushed, or was answered with an error.
NotDropped ==
    \A r \in finished :
        \/ r \in sent \cup failed
        \/ r \in Range(pending)
        \/ main.at = "flush" /\ r \in Range(main.todo)
        \/ \E l \in Incoming : r \in Range(flushing[l])

\* From connected the state only goes to disconnected or no entry.
StateMachine ==
    [][state = "connected" => state' # "connecting"]_peerVars
=============================================================================
