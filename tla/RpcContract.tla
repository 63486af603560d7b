----------------------------- MODULE RpcContract -----------------------------
(***************************************************************************)
(* What rpc.Core promises to the code that calls it, whatever goroutines,  *)
(* queues and locks are used to keep the promise: requests are numbered    *)
(* from 1 in the order they are made, and the callback of each one runs at *)
(* most once, with a code that has a cause:                                *)
(*   "rsp"      the transport accepted the frame and a response came back, *)
(*   "fail"     the transport refused the frame,                           *)
(*   "timeout"  the deadline of the request is over.                       *)
(***************************************************************************)
EXTENDS Naturals, Sequences

CONSTANT MaxCalls    \* bound on the number of requests

VARIABLES seq,       \* number of the last request made
          sent,      \* requests whose frame the transport accepted
          late,      \* requests whose deadline is over
          results    \* per request, the codes its callback was run with

vars == <<seq, sent, late, results>>

Requests == 1..MaxCalls

Init ==
    /\ seq = 0
    /\ sent = {}
    /\ late = {}
    /\ results = [s \in Requests |-> <<>>]

\* A request is made.
Issue ==
    /\ seq < MaxCalls
    /\ seq' = seq + 1
    /\ UNCHANGED <<sent, late, results>>

\* The transport takes the frame of a request.
Accept(s) ==
    /\ s <= seq
    /\ sent' = sent \cup {s}
    /\ UNCHANGED <<seq, late, results>>

\* The deadline of a request passes.
Elapse(s) ==
    /\ s <= seq
    /\ late' = late \cup {s}
    /\ UNCHANGED <<seq, sent, results>>

\* The callback of a request runs, for the first and only time.
Answer(s, code) ==
    /\ s <= seq
    /\ results[s] = <<>>
    /\ code = "rsp" => s \in sent
    /\ code = "fail" => s \notin sent
    /\ code = "timeout" => s \in late
    /\ results' = [results EXCEPT ![s] = <<code>>]
    /\ UNCHANGED <<seq, sent, late>>

Next ==
    \/ Issue
    \/ \E s \in Requests : Accept(s) \/ Elapse(s)
    \/ \E s \in Requests, code \in {"rsp", "fail", "timeout"} : Answer(s, code)

Spec == Init /\ [][Next]_vars
=============================================================================
