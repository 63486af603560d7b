------------------------------- MODULE RpcCore -------------------------------
(***************************************************************************)
(* rpc.Core (internal/core/rpc/core.go) with the three goroutines that     *)
(* enter it and the queue they meet in:                                    *)
(*   - the main loop of the process (app.runLoop), which takes tasks from  *)
(*     postQueue one at a time; a task is either a job that calls          *)
(*     Core.Call (a client packet, posted by a receive loop) or the        *)
(*     callback of an earlier call;                                        *)
(*   - the read loop of the RouterAgent client, which enters               *)
(*     OnResponseWithRelease for each response frame;                      *)
(*   - scanLoop, which collects requests past their deadline.              *)
(* Each critical section of Core.mu is one action.  taskqueue.Post blocks  *)
(* while the queue is full, the main loop itself included when the error   *)
(* path of Call posts from inside a task.  When the loop ends, Close runs  *)
(* in the same goroutine and waits for scanLoop.                           *)
(***************************************************************************)
EXTENDS Integers, Sequences, FiniteSets

CONSTANTS MaxCalls,    \* bound on the number of requests made
          MaxRsp,      \* bound on the responses that arrive for one request
          QueueCap     \* capacity of postQueue

ASSUME ConstantsAssumption ==
    /\ MaxCalls \in Nat
    /\ MaxRsp \in Nat
    /\ QueueCap \in Nat \ {0}

VARIABLES seq,         \* Core.seq
          pending,     \* keys of Core.pending
          late,        \* requests whose deadline is over
          sent,        \* requests whose frame SendFrame accepted
          arrived,     \* per request, how many responses came in
          queue,       \* postQueue: jobs and callbacks
          jobs,        \* number of jobs posted so far
          mainPc,      \* where the main goroutine is
          cur,         \* the request Call is working on
          reader,      \* the request whose callback the read loop is posting, or 0
          expired,     \* scanExpired's local list, not yet posted
          scanning,    \* scanLoop has not returned (scanWG)
          stopCh,      \* stopCh is closed
          buffers,     \* frame buffers taken by the read loop and not released
          results      \* per request, the codes its callback was run with

vars == <<seq, pending, late, sent, arrived, queue, jobs, mainPc, cur, reader,
          expired, scanning, stopCh, buffers, results>>

Requests == 1..MaxCalls
Codes == {"rsp", "fail", "timeout"}

Job == [seq |-> 0, code |-> "job"]
Callback(s, code) == [seq |-> s, code |-> code]
Tasks == {Job} \cup [seq : Requests, code : Codes]

TypeOK ==
    /\ seq \in 0..MaxCalls
    /\ pending \subseteq Requests
    /\ late \subseteq Requests
    /\ sent \subseteq Requests
    /\ arrived \in [Requests -> 0..MaxRsp]
    /\ queue \in Seq(Tasks)
    /\ Len(queue) <= QueueCap
    /\ jobs \in 0..MaxCalls
    /\ mainPc \in {"select", "send", "post", "close", "done"}
    /\ cur \in 0..MaxCalls
    /\ reader \in 0..MaxCalls
    /\ expired \subseteq Requests
    /\ scanning \in BOOLEAN
    /\ stopCh \in BOOLEAN
    /\ buffers \in Int
    /\ results \in [Requests -> Seq(Codes)]

Init ==
    /\ seq = 0
    /\ pending = {}
    /\ late = {}
    /\ sent = {}
    /\ arrived = [s \in Requests |-> 0]
    /\ queue = <<>>
    /\ jobs = 0
    /\ mainPc = "select"
    /\ cur = 0
    /\ reader = 0
    /\ expired = {}
    /\ scanning = TRUE
    /\ stopCh = FALSE
    /\ buffers = 0
    /\ results = [s \in Requests |-> <<>>]

-----------------------------------------------------------------------------
(* The operations on the shared state, each with a wrong variant that the  *)
(* properties below are tested against.                                    *)

\* Wrong variant: the entry is found but not deleted.
WithoutNoDelete(s) == pending

\* delete(c.pending, seq), under the lock, by whoever finds the entry.
Without(s) == pending \ {s}

\* Wrong variant: expired entries are deleted but not appended to the list.
OverdueNotCollected == {}

\* Wrong variant: the deadline is not compared with the clock.
OverdueAnyDeadline == pending

\* The entries scanExpired takes out of pending.
Overdue == pending \cap late

\* Wrong variant: every callback releases a buffer, not only a response's.
ReleaseAlways(code) == buffers - 1

\* The deferred release of the frame buffer once the callback has run.
Release(code) == IF code = "rsp" THEN buffers - 1 ELSE buffers

-----------------------------------------------------------------------------
(* taskqueue.Queue *)

\* Wrong variant: the queue takes a task whether or not there is room.
PostUnbounded(task) == queue' = Append(queue, task)

\* Post: the caller proceeds only once there is room.
Post(task) ==
    /\ Len(queue) < QueueCap
    /\ queue' = Append(queue, task)

\* A receive loop of the gate posts a packet that will make a request.
PostJob ==
    /\ jobs < MaxCalls
    /\ mainPc # "done"
    /\ Post(Job)
    /\ jobs' = jobs + 1
    /\ UNCHANGED <<seq, pending, late, sent, arrived, mainPc, cur, reader,
                   expired, scanning, stopCh, buffers, results>>

-----------------------------------------------------------------------------
(* The main loop *)

\* Call, up to the unlock after the request is registered.
CallRegister ==
    /\ mainPc = "select"
    /\ queue # <<>>
    /\ Head(queue).code = "job"
    /\ seq < MaxCalls
    /\ queue' = Tail(queue)
    /\ seq' = seq + 1
    /\ pending' = pending \cup {seq + 1}
    /\ mainPc' = "send"
    /\ cur' = seq + 1
    /\ UNCHANGED <<late, sent, arrived, jobs, reader, expired, scanning,
                   stopCh, buffers, results>>

\* SendFrame returns nil: Call is done.
CallSent ==
    /\ mainPc = "send"
    /\ sent' = sent \cup {cur}
    /\ mainPc' = "select"
    /\ UNCHANGED <<seq, pending, late, arrived, queue, jobs, cur, reader,
                   expired, scanning, stopCh, buffers, results>>

\* SendFrame returns an error: Call takes the request back, unless the scan
\* got hold of it first, and goes on to post the callback.
CallFailed ==
    /\ mainPc = "send"
    /\ pending' = Without(cur)
    /\ mainPc' = IF cur \in pending THEN "post" ELSE "select"
    /\ UNCHANGED <<seq, late, sent, arrived, queue, jobs, cur, reader,
                   expired, scanning, stopCh, buffers, results>>

\* dispatch on the error path of Call: the main loop posts to its own queue.
CallPostFailure ==
    /\ mainPc = "post"
    /\ Post(Callback(cur, "fail"))
    /\ mainPc' = "select"
    /\ UNCHANGED <<seq, pending, late, sent, arrived, jobs, cur, reader,
                   expired, scanning, stopCh, buffers, results>>

\* The main loop runs a callback; the one of a response releases its buffer.
RunCallback ==
    /\ mainPc = "select"
    /\ queue # <<>>
    /\ Head(queue).code # "job"
    /\ queue' = Tail(queue)
    /\ results' = [results EXCEPT ![Head(queue).seq] =
                                      Append(@, Head(queue).code)]
    /\ buffers' = Release(Head(queue).code)
    /\ UNCHANGED <<seq, pending, late, sent, arrived, jobs, mainPc, cur,
                   reader, expired, scanning, stopCh>>

-----------------------------------------------------------------------------
(* The read loop of the RouterAgent client *)

\* OnResponseWithRelease, up to the unlock.  A response nobody waits for
\* gives its buffer back at once.
OnResponse(s) ==
    /\ reader = 0
    /\ mainPc # "done"
    /\ s \in sent
    /\ arrived[s] < MaxRsp
    /\ arrived' = [arrived EXCEPT ![s] = @ + 1]
    /\ pending' = Without(s)
    /\ IF s \in pending
       THEN /\ reader' = s
            /\ buffers' = buffers + 1
       ELSE UNCHANGED <<reader, buffers>>
    /\ UNCHANGED <<seq, late, sent, queue, jobs, mainPc, cur, expired,
                   scanning, stopCh, results>>

\* dispatch of the response's callback.
OnResponsePost ==
    /\ reader # 0
    /\ Post(Callback(reader, "rsp"))
    /\ reader' = 0
    /\ UNCHANGED <<seq, pending, late, sent, arrived, jobs, mainPc, cur,
                   expired, scanning, stopCh, buffers, results>>

-----------------------------------------------------------------------------
(* scanLoop *)

\* Time passes the deadline of a registered request.
Elapse(s) ==
    /\ s \in pending \ late
    /\ late' = late \cup {s}
    /\ UNCHANGED <<seq, pending, sent, arrived, queue, jobs, mainPc, cur,
                   reader, expired, scanning, stopCh, buffers, results>>

\* scanExpired, up to the unlock.
ScanExpired ==
    /\ scanning
    /\ expired = {}
    /\ pending \cap late # {}
    /\ expired' = Overdue
    /\ pending' = pending \ late
    /\ UNCHANGED <<seq, late, sent, arrived, queue, jobs, mainPc, cur, reader,
                   scanning, stopCh, buffers, results>>

\* scanExpired dispatches the collected callbacks one by one.
ScanPost ==
    /\ \E s \in expired :
        /\ Post(Callback(s, "timeout"))
        /\ expired' = expired \ {s}
    /\ UNCHANGED <<seq, pending, late, sent, arrived, jobs, mainPc, cur,
                   reader, scanning, stopCh, buffers, results>>

\* scanLoop sees stopCh, only between two scans.
ScanStop ==
    /\ scanning
    /\ expired = {}
    /\ stopCh
    /\ scanning' = FALSE
    /\ UNCHANGED <<seq, pending, late, sent, arrived, queue, jobs, mainPc,
                   cur, reader, expired, stopCh, buffers, results>>

-----------------------------------------------------------------------------
(* Shutdown *)

\* Wrong variant: stopCh is not closed.
CloseStartForgets ==
    /\ mainPc = "select"
    /\ mainPc' = "close"
    /\ UNCHANGED <<seq, pending, late, sent, arrived, queue, jobs, cur,
                   reader, expired, scanning, stopCh, buffers, results>>

\* runLoop ends on a signal or dieChan and the module calls Core.Close.
CloseStart ==
    /\ mainPc = "select"
    /\ stopCh' = TRUE
    /\ mainPc' = "close"
    /\ UNCHANGED <<seq, pending, late, sent, arrived, queue, jobs, cur,
                   reader, expired, scanning, buffers, results>>

\* scanWG.Wait returns.
CloseReturn ==
    /\ mainPc = "close"
    /\ ~scanning
    /\ mainPc' = "done"
    /\ UNCHANGED <<seq, pending, late, sent, arrived, queue, jobs, cur,
                   reader, expired, scanning, stopCh, buffers, results>>

MainLoop ==
    \/ CallRegister
    \/ CallSent
    \/ CallFailed
    \/ CallPostFailure
    \/ RunCallback

Next ==
    \/ PostJob
    \/ MainLoop
    \/ \E s \in Requests : OnResponse(s) \/ Elapse(s)
    \/ OnResponsePost
    \/ ScanExpired
    \/ ScanPost
    \/ ScanStop
    \/ CloseStart
    \/ CloseReturn

Spec == Init /\ [][Next]_vars

\* The main loop and scanLoop keep running, a blocked Post is served when
\* there is room, deadlines pass.  No response, job or shutdown is promised.
Fairness ==
    /\ WF_vars(MainLoop)
    /\ WF_vars(OnResponsePost)
    /\ \A s \in Requests : WF_vars(Elapse(s))
    /\ WF_vars(ScanExpired)
    /\ WF_vars(ScanPost)
    /\ WF_vars(ScanStop)
    /\ WF_vars(CloseReturn)

FairSpec == Spec /\ Fairness

-----------------------------------------------------------------------------
(* Properties *)

\* The places a request can be in, once it has been made.
CallbacksIn(q) == {q[i].seq : i \in {j \in DOMAIN q : q[j].code # "job"}}
Queued == CallbacksIn(queue)
Posting == IF mainPc = "post" THEN {cur} ELSE {}
Reading == {reader} \ {0}
Answered == {s \in Requests : results[s] # <<>>}

\* No request has two callbacks in the queue.
NoTwins(q) ==
    \A i, j \in DOMAIN q :
        q[i].code # "job" /\ q[i].seq = q[j].seq => i = j

\* Every request Call has numbered is in exactly one place: waiting in
\* pending, in the hands of exactly one of the three goroutines that may
\* take it out (error path of Call, OnResponse, scanExpired), in the queue
\* once, or answered once.  So no race between a late response, the scan and
\* a failed send answers a request twice, and none loses it.
OneOwner ==
    /\ pending \cup Posting \cup Reading \cup expired \cup Queued \cup Answered
          = 1..seq
    /\ pending \cap (Posting \cup Reading \cup expired \cup Queued \cup Answered) = {}
    /\ Posting \cap (Reading \cup expired \cup Queued \cup Answered) = {}
    /\ Reading \cap (expired \cup Queued \cup Answered) = {}
    /\ expired \cap (Queued \cup Answered) = {}
    /\ Queued \cap Answered = {}
    /\ NoTwins(queue)
    /\ \A s \in Requests : Len(results[s]) <= 1

\* The cause of an answer is there before the answer: a response for a
\* request that was sent, a failure for one that was not, a timeout after
\* the deadline.  With OneOwner this is inductive.
CausesKept ==
    /\ sent \subseteq 1..seq
    /\ late \subseteq 1..seq
    /\ cur <= seq
    /\ mainPc \in {"send", "post"} => cur # 0 /\ cur \notin sent
    /\ Reading \subseteq sent
    /\ expired \subseteq late
    /\ \A i \in DOMAIN queue :
          /\ queue[i].code = "rsp" => queue[i].seq \in sent
          /\ queue[i].code = "timeout" => queue[i].seq \in late
          /\ queue[i].code = "fail" =>
                /\ queue[i].seq \notin sent
                /\ mainPc = "send" => queue[i].seq # cur

\* Every frame buffer the read loop handed over is released once: the buffers
\* in use are those of responses being posted or waiting in the queue
\* (OnResponseWithRelease releases at once what nobody waits for).
BuffersBalanced ==
    buffers = Cardinality(Reading)
              + Cardinality({i \in DOMAIN queue : queue[i].code = "rsp"})

\* rpc.Core keeps its contract: numbering, one callback per request, and a
\* code that has its cause.
Contract == INSTANCE RpcContract
ImplementsContract == Contract!Spec

\* The main loop waits for room in the queue that only it can empty.
SelfBlocked == mainPc = "post" /\ Len(queue) = QueueCap

\* A request that was made is answered: by a response, the error of the send
\* or, at the latest, the scan after its deadline.  Only a main loop blocked
\* on its own queue, or shutdown, leaves a request without an answer.
EveryCallAnswered ==
    \A s \in Requests :
        (s <= seq) ~> (s \in Answered \/ SelfBlocked \/ stopCh)

\* Calls do not block the main loop: the loop never waits for itself.
CallNeverBlocksLoop == ~SelfBlocked

\* scanExpired waits for room in a queue that nobody empties any more.
ScanBlocked == mainPc = "close" /\ expired # {} /\ Len(queue) = QueueCap

\* Close returns: scanLoop ends once it has posted what it collected, also when
\* the read loop and the receive loops go on to post.  Only a queue that is full
\* when callbacks of expired requests are left keeps it for ever, because the
\* goroutine that waits in Close is the one that would empty the queue.
CloseReturnsIfRoom == (mainPc = "close") ~> (mainPc = "done" \/ ScanBlocked)

\* Close stops the scan goroutine and returns.
CloseReturns == (mainPc = "close") ~> (mainPc = "done")
=============================================================================
