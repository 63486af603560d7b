---------------------------- MODULE RpcCoreProofs ----------------------------
(***************************************************************************)
(* Proofs about RpcCore for every number of requests and responses and     *)
(* every capacity of the queue.                                            *)
(***************************************************************************)
EXTENDS RpcCore, FiniteSetTheorems, TLAPS

\* A leaf that names no prover goes to Zenon first and then to the SMT solver.
USE ZenonT(2), SMTT(30), ZenonT(30)

-----------------------------------------------------------------------------
(* What Append and Tail do to the callbacks in a queue. *)

\* Posting a callback of a request that has none in the queue adds that one
\* request and keeps the queue free of twins.
LEMMA PostCallback ==
    ASSUME NEW q \in Seq(Tasks), NEW s \in Requests, NEW code \in Codes,
           NoTwins(q), s \notin CallbacksIn(q)
    PROVE  /\ Append(q, Callback(s, code)) \in Seq(Tasks)
           /\ CallbacksIn(Append(q, Callback(s, code))) = CallbacksIn(q) \cup {s}
           /\ NoTwins(Append(q, Callback(s, code)))
<1> DEFINE t == Callback(s, code)
           r == Append(q, t)
<1>1. t \in Tasks /\ t.seq = s /\ t.code = code /\ code # "job"
  BY DEF Callback, Tasks, Codes
<1>2. /\ r \in Seq(Tasks)
      /\ DOMAIN r = 1..(Len(q) + 1)
      /\ DOMAIN q = 1..Len(q)
      /\ Len(q) \in Nat
      /\ r[Len(q) + 1] = t
      /\ \A i \in 1..Len(q) : r[i] = q[i]
  BY <1>1
<1> HIDE DEF r, t
<1>3. CallbacksIn(r) = CallbacksIn(q) \cup {s}
  BY <1>1, <1>2 DEF CallbacksIn
<1>4. NoTwins(r)
  <2> SUFFICES ASSUME NEW i \in DOMAIN r, NEW j \in DOMAIN r,
                      r[i].code # "job", r[i].seq = r[j].seq
               PROVE  i = j
    BY DEF NoTwins
  <2>1. CASE i \in DOMAIN q /\ j \in DOMAIN q
    BY <1>2, <2>1 DEF NoTwins
  <2>2. CASE i \in DOMAIN q /\ j = Len(q) + 1
    BY <1>1, <1>2, <2>2 DEF CallbacksIn
  <2>3. CASE i = Len(q) + 1 /\ j \in DOMAIN q
    <3>1. q[j].seq = s
      BY <1>1, <1>2, <2>3
    <3>2. q[j].code # "job"
      <4>1. q[j] \in Tasks
        BY <1>2, <2>3
      <4>2. s # 0
        BY ConstantsAssumption DEF Requests
      <4> QED
        BY <3>1, <4>1, <4>2 DEF Tasks, Job, Codes
    <3> QED
      BY <2>3, <3>1, <3>2 DEF CallbacksIn
  <2> QED
    BY <1>2, <2>1, <2>2, <2>3
<1> QED
  BY <1>2, <1>3, <1>4 DEF r, t

\* Posting a job changes no callback.
LEMMA PostsJob ==
    ASSUME NEW q \in Seq(Tasks), NoTwins(q)
    PROVE  /\ Append(q, Job) \in Seq(Tasks)
           /\ CallbacksIn(Append(q, Job)) = CallbacksIn(q)
           /\ NoTwins(Append(q, Job))
<1> DEFINE r == Append(q, Job)
<1>1. Job \in Tasks /\ Job.seq = 0 /\ Job.code = "job"
  BY DEF Job, Tasks
<1>2. /\ r \in Seq(Tasks)
      /\ DOMAIN r = 1..(Len(q) + 1)
      /\ DOMAIN q = 1..Len(q)
      /\ Len(q) \in Nat
      /\ r[Len(q) + 1] = Job
      /\ \A i \in 1..Len(q) : r[i] = q[i]
  BY <1>1
<1> HIDE DEF r
<1>3. CallbacksIn(r) = CallbacksIn(q)
  BY <1>1, <1>2 DEF CallbacksIn
<1>4. NoTwins(r)
  <2> SUFFICES ASSUME NEW i \in DOMAIN r, NEW j \in DOMAIN r,
                      r[i].code # "job", r[i].seq = r[j].seq
               PROVE  i = j
    BY DEF NoTwins
  <2>1. i \in DOMAIN q
    BY <1>1, <1>2
  <2>2. q[i].seq # 0
    <3>1. q[i] \in Tasks /\ q[i].code # "job"
      BY <1>2, <2>1
    <3> QED
      BY <3>1, ConstantsAssumption DEF Tasks, Job, Requests
  <2> QED
    BY <1>1, <1>2, <2>1, <2>2 DEF NoTwins
<1> QED
  BY <1>2, <1>3, <1>4 DEF r

\* Taking the first task removes its callback, if it is one, and no other.
LEMMA TakeTask ==
    ASSUME NEW q \in Seq(Tasks), q # <<>>, NoTwins(q)
    PROVE  /\ Head(q) \in Tasks
           /\ Tail(q) \in Seq(Tasks)
           /\ Len(Tail(q)) < Len(q)
           /\ NoTwins(Tail(q))
           /\ Head(q).code = "job" => CallbacksIn(Tail(q)) = CallbacksIn(q)
           /\ Head(q).code # "job" =>
                /\ Head(q).seq \in CallbacksIn(q)
                /\ CallbacksIn(Tail(q)) = CallbacksIn(q) \ {Head(q).seq}
<1> DEFINE r == Tail(q)
<1>1. /\ Len(q) \in Nat \ {0}
      /\ DOMAIN q = 1..Len(q)
      /\ Head(q) = q[1]
      /\ r \in Seq(Tasks)
      /\ Len(r) = Len(q) - 1
      /\ DOMAIN r = 1..(Len(q) - 1)
      /\ \A i \in 1..(Len(q) - 1) : r[i] = q[i + 1]
  OBVIOUS
<1> HIDE DEF r
<1>2. NoTwins(r)
  <2> SUFFICES ASSUME NEW i \in DOMAIN r, NEW j \in DOMAIN r,
                      r[i].code # "job", r[i].seq = r[j].seq
               PROVE  i = j
    BY DEF NoTwins
  <2>1. /\ i + 1 \in DOMAIN q /\ q[i + 1] = r[i]
        /\ j + 1 \in DOMAIN q /\ q[j + 1] = r[j]
    BY <1>1
  <2>2. i + 1 = j + 1
    BY <2>1 DEF NoTwins
  <2> QED
    BY <1>1, <2>2
<1>3. ASSUME Head(q).code = "job" PROVE CallbacksIn(r) = CallbacksIn(q)
  <2>1. CallbacksIn(r) \subseteq CallbacksIn(q)
    BY <1>1 DEF CallbacksIn
  <2>2. ASSUME NEW i \in DOMAIN q, q[i].code # "job"
        PROVE  q[i].seq \in CallbacksIn(r)
    <3>1. i - 1 \in DOMAIN r /\ r[i - 1] = q[i]
      BY <1>1, <1>3, <2>2
    <3> QED
      BY <2>2, <3>1 DEF CallbacksIn
  <2> QED
    BY <2>1, <2>2 DEF CallbacksIn
<1>4. ASSUME Head(q).code # "job"
      PROVE  /\ Head(q).seq \in CallbacksIn(q)
             /\ CallbacksIn(r) = CallbacksIn(q) \ {Head(q).seq}
  <2>1. Head(q).seq \in CallbacksIn(q)
    BY <1>1, <1>4 DEF CallbacksIn
  <2>2. ASSUME NEW i \in DOMAIN r, r[i].code # "job"
        PROVE  r[i].seq \in CallbacksIn(q) \ {Head(q).seq}
    <3>1. i + 1 \in DOMAIN q /\ q[i + 1] = r[i] /\ i + 1 # 1 /\ 1 \in DOMAIN q
      BY <1>1
    <3>2. q[i + 1].seq # q[1].seq
      BY <1>1, <1>4, <2>2, <3>1 DEF NoTwins
    <3> QED
      BY <1>1, <2>2, <3>1, <3>2 DEF CallbacksIn
  <2>3. ASSUME NEW i \in DOMAIN q, q[i].code # "job", q[i].seq # Head(q).seq
        PROVE  q[i].seq \in CallbacksIn(r)
    <3>1. i - 1 \in DOMAIN r /\ r[i - 1] = q[i]
      BY <1>1, <2>3
    <3> QED
      BY <2>3, <3>1 DEF CallbacksIn
  <2> QED
    BY <2>1, <2>2, <2>3 DEF CallbacksIn
<1> QED
  BY <1>1, <1>2, <1>3, <1>4 DEF r
-----------------------------------------------------------------------------
(* The inductive invariant. *)

IInv == TypeOK /\ OneOwner /\ CausesKept

\* The invariant holds before the first request.
LEMMA InitIInv == Init => IInv
<1> SUFFICES ASSUME Init PROVE IInv
  OBVIOUS
<1> USE ConstantsAssumption DEF Init
<1>1. TypeOK
  <2>1. queue \in Seq(Tasks) /\ Len(queue) <= QueueCap
    OBVIOUS
  <2>2. arrived \in [Requests -> 0..MaxRsp]
    OBVIOUS
  <2>3. results \in [Requests -> Seq(Codes)]
    OBVIOUS
  <2>4. scanning \in BOOLEAN /\ stopCh \in BOOLEAN
    BY Zenon
  <2>5. /\ seq \in 0..MaxCalls /\ jobs \in 0..MaxCalls
        /\ cur \in 0..MaxCalls /\ reader \in 0..MaxCalls /\ buffers \in Int
    OBVIOUS
  <2> QED
    BY <2>1, <2>2, <2>3, <2>4, <2>5 DEF TypeOK
<1>2. /\ Queued = {} /\ Posting = {} /\ Reading = {} /\ Answered = {}
      /\ NoTwins(queue)
  BY DEF Queued, CallbacksIn, Posting, Reading, Answered, NoTwins
<1>3. 1..seq = {}
  OBVIOUS
<1>4. OneOwner
  BY <1>2, <1>3 DEF OneOwner, Requests
<1>5. CausesKept
  BY <1>2 DEF CausesKept
<1> QED
  BY <1>1, <1>4, <1>5 DEF IInv

\* A step that leaves every place of a request where it is.
LEMMA SamePlaces ==
    ASSUME UNCHANGED <<queue, mainPc, cur, reader, results>>
    PROVE  UNCHANGED <<Queued, Posting, Reading, Answered>>
BY DEF Queued, Posting, Reading, Answered

\* PostJob preserves the invariant.
LEMMA PostJobIInv == IInv /\ PostJob => IInv'
<1> SUFFICES ASSUME IInv, PostJob PROVE IInv'
  OBVIOUS
<1> USE ConstantsAssumption
<1>1. /\ queue \in Seq(Tasks) /\ NoTwins(queue) /\ queue' = Append(queue, Job)
      /\ Len(queue) < QueueCap
  BY DEF IInv, TypeOK, OneOwner, PostJob, Post
<1>2. /\ queue' \in Seq(Tasks) /\ NoTwins(queue') /\ Queued' = Queued
  BY <1>1, PostsJob DEF Queued
<1>3. UNCHANGED <<Posting, Reading, Answered>>
  BY DEF PostJob, Posting, Reading, Answered
<1>4. TypeOK'
  BY <1>1, <1>2 DEF IInv, TypeOK, PostJob
<1>5. OneOwner'
  BY <1>2, <1>3 DEF IInv, OneOwner, PostJob
<1>6. CausesKept'
  <2>1. ASSUME NEW i \in DOMAIN queue'
        PROVE  \/ i \in DOMAIN queue /\ queue'[i] = queue[i]
               \/ queue'[i].code = "job"
    BY <1>1 DEF Job, Tasks
  <2> QED
    BY <1>3, <2>1 DEF IInv, CausesKept, PostJob
<1> QED
  BY <1>4, <1>5, <1>6 DEF IInv

\* CallRegister preserves the invariant: the new request starts in pending.
LEMMA CallRegisterIInv == IInv /\ CallRegister => IInv'
<1> SUFFICES ASSUME IInv, CallRegister PROVE IInv'
  OBVIOUS
<1> USE ConstantsAssumption
<1>1. /\ queue \in Seq(Tasks) /\ NoTwins(queue) /\ queue # <<>>
      /\ queue' = Tail(queue) /\ Head(queue).code = "job"
      /\ mainPc = "select" /\ mainPc' = "send" /\ seq < MaxCalls
      /\ seq' = seq + 1 /\ cur' = seq + 1 /\ pending' = pending \cup {seq + 1}
      /\ seq \in 0..MaxCalls
  BY DEF IInv, TypeOK, OneOwner, CallRegister
<1>2. /\ queue' \in Seq(Tasks) /\ NoTwins(queue') /\ Queued' = Queued
      /\ Len(queue') < Len(queue)
  BY <1>1, TakeTask DEF Queued
<1>3. Posting = {} /\ Posting' = {} /\ UNCHANGED <<Reading, Answered>>
  BY <1>1 DEF CallRegister, Posting, Reading, Answered
<1>4. TypeOK'
  <2>1. /\ seq + 1 \in 0..MaxCalls
        /\ pending' \subseteq Requests
    BY <1>1 DEF IInv, TypeOK, Requests
  <2>2. Len(queue') <= QueueCap
    BY <1>1, <1>2 DEF IInv, TypeOK
  <2> QED
    BY <1>1, <1>2, <2>1, <2>2 DEF IInv, TypeOK, CallRegister
<1>5. OneOwner'
  <2>1. 1..seq' = 1..seq \cup {seq + 1} /\ seq + 1 \notin 1..seq
    BY <1>1
  <2> QED
    BY <1>1, <1>2, <1>3, <2>1 DEF IInv, OneOwner, CallRegister
<1>6. CausesKept'
  <2>1. ASSUME NEW i \in DOMAIN queue'
        PROVE  /\ i + 1 \in DOMAIN queue /\ queue'[i] = queue[i + 1]
               /\ queue'[i].code = "fail" => queue'[i].seq \in 1..seq
    <3>1. i + 1 \in DOMAIN queue /\ queue'[i] = queue[i + 1]
      BY <1>1
    <3>2. queue[i + 1].code # "job" => queue[i + 1].seq \in Queued
      BY <3>1 DEF Queued, CallbacksIn
    <3> QED
      BY <3>1, <3>2 DEF IInv, OneOwner
  <2>2. /\ sent' = sent /\ late' = late /\ expired' = expired
        /\ sent \subseteq 1..seq /\ late \subseteq 1..seq
    BY DEF IInv, CausesKept, CallRegister
  <2>3. seq + 1 \notin sent
    BY <1>1, <2>2
  <2> QED
    BY <1>1, <1>3, <2>1, <2>2, <2>3 DEF IInv, CausesKept
<1> QED
  BY <1>4, <1>5, <1>6 DEF IInv

\* CallSent preserves the invariant: no failure of the request is queued.
LEMMA CallSentIInv == IInv /\ CallSent => IInv'
<1> SUFFICES ASSUME IInv, CallSent PROVE IInv'
  OBVIOUS
<1> USE ConstantsAssumption
<1>1. UNCHANGED <<Queued, Posting, Reading, Answered>>
  BY DEF CallSent, Queued, Posting, Reading, Answered
<1>2. TypeOK'
  <2>1. cur \in Requests
    BY DEF IInv, TypeOK, CausesKept, CallSent, Requests
  <2>2. sent' \subseteq Requests
    BY <2>1 DEF IInv, TypeOK, CallSent
  <2> QED
    BY <2>2 DEF IInv, TypeOK, CallSent
<1>3. OneOwner'
  BY <1>1 DEF IInv, OneOwner, CallSent
<1>4. CausesKept'
  BY <1>1 DEF IInv, TypeOK, CausesKept, CallSent
<1> QED
  BY <1>2, <1>3, <1>4 DEF IInv

\* CallFailed preserves the invariant: the request moves from pending to the
\* main goroutine, or stays with whoever took it.
LEMMA CallFailedIInv == IInv /\ CallFailed => IInv'
<1> SUFFICES ASSUME IInv, CallFailed PROVE IInv'
  OBVIOUS
<1> USE ConstantsAssumption
<1>1. UNCHANGED <<Queued, Reading, Answered>> /\ Posting = {}
  BY DEF CallFailed, Queued, Posting, Reading, Answered
<1>2. Posting' = pending \cap {cur} /\ pending' = pending \ {cur}
  BY DEF CallFailed, Posting, Without
<1>3. TypeOK'
  BY <1>2 DEF IInv, TypeOK, CallFailed
<1>4. OneOwner'
  BY <1>1, <1>2 DEF IInv, OneOwner, CallFailed
<1>5. CausesKept'
  BY <1>1 DEF IInv, CausesKept, CallFailed
<1> QED
  BY <1>3, <1>4, <1>5 DEF IInv

\* CallPostFailure preserves the invariant: the request moves from the main
\* goroutine to the queue.
LEMMA CallPostFailureIInv == IInv /\ CallPostFailure => IInv'
<1> SUFFICES ASSUME IInv, CallPostFailure PROVE IInv'
  OBVIOUS
<1> USE ConstantsAssumption
<1>1. /\ mainPc = "post" /\ mainPc' = "select" /\ cur' = cur
      /\ queue' = Append(queue, Callback(cur, "fail")) /\ Len(queue) < QueueCap
      /\ queue \in Seq(Tasks) /\ NoTwins(queue)
      /\ cur \in Requests /\ cur \notin sent /\ "fail" \in Codes
      /\ Posting = {cur} /\ Posting' = {}
  BY DEF IInv, TypeOK, OneOwner, CausesKept, CallPostFailure, Post, Requests,
         Codes, Posting
<1>2. cur \notin Queued
  BY <1>1 DEF IInv, OneOwner
<1>3. /\ queue' \in Seq(Tasks) /\ NoTwins(queue')
      /\ Queued' = Queued \cup {cur}
  BY <1>1, <1>2, PostCallback DEF Queued
<1>4. UNCHANGED <<Reading, Answered>>
  BY DEF CallPostFailure, Reading, Answered
<1>5. TypeOK'
  <2>1. Len(queue') <= QueueCap
    BY <1>1 DEF Callback
  <2> QED
    BY <1>1, <1>3, <2>1 DEF IInv, TypeOK, CallPostFailure
<1>6. OneOwner'
  BY <1>1, <1>3, <1>4 DEF IInv, OneOwner, CallPostFailure
<1>7. CausesKept'
  <2>1. ASSUME NEW i \in DOMAIN queue'
        PROVE  \/ i \in DOMAIN queue /\ queue'[i] = queue[i]
               \/ queue'[i].code = "fail" /\ queue'[i].seq = cur
    BY <1>1 DEF Callback
  <2> QED
    BY <1>1, <1>4, <2>1 DEF IInv, CausesKept, CallPostFailure
<1> QED
  BY <1>5, <1>6, <1>7 DEF IInv

\* RunCallback preserves the invariant: the request moves from the queue to
\* the answered ones, where it was not yet.
LEMMA RunCallbackIInv == IInv /\ RunCallback => IInv'
<1> SUFFICES ASSUME IInv, RunCallback PROVE IInv'
  OBVIOUS
<1> USE ConstantsAssumption
<1> DEFINE s == Head(queue).seq
           code == Head(queue).code
<1>1. /\ queue \in Seq(Tasks) /\ NoTwins(queue) /\ queue # <<>>
      /\ queue' = Tail(queue) /\ code # "job"
      /\ results' = [results EXCEPT ![s] = Append(@, code)]
      /\ results \in [Requests -> Seq(Codes)]
  BY DEF IInv, TypeOK, OneOwner, RunCallback
<1>2. /\ Head(queue) \in Tasks
      /\ queue' \in Seq(Tasks) /\ NoTwins(queue') /\ Len(queue') < Len(queue)
      /\ s \in Queued /\ Queued' = Queued \ {s}
  BY <1>1, TakeTask DEF Queued
<1>3. s \in Requests /\ code \in Codes
  BY <1>1, <1>2 DEF Tasks, Job
<1>4. results[s] = <<>>
  BY <1>2, <1>3 DEF IInv, OneOwner, Answered
<1> HIDE DEF s, code
<1>5. /\ results' \in [Requests -> Seq(Codes)]
      /\ results'[s] = <<code>>
      /\ \A r \in Requests \ {s} : results'[r] = results[r]
  BY <1>1, <1>3, <1>4
<1>51. /\ Len(results'[s]) = 1 /\ results'[s] # <<>>
  BY <1>5
<1>6. Answered' = Answered \cup {s}
  BY <1>3, <1>5, <1>51 DEF Answered
<1>7. UNCHANGED <<Posting, Reading>>
  BY DEF RunCallback, Posting, Reading
<1>8. TypeOK'
  <2>1. Len(queue') <= QueueCap
    BY <1>1, <1>2 DEF IInv, TypeOK
  <2>2. buffers' \in Int
    BY DEF IInv, TypeOK, RunCallback, Release
  <2> QED
    BY <1>2, <1>5, <2>1, <2>2 DEF IInv, TypeOK, RunCallback
<1>9. OneOwner'
  <2>1. \A r \in Requests : Len(results'[r]) <= 1
    <3>1. \A r \in Requests : Len(results[r]) <= 1
      BY DEF IInv, OneOwner
    <3> SUFFICES ASSUME NEW r \in Requests PROVE Len(results'[r]) <= 1
      OBVIOUS
    <3>2. CASE r = s
      <4>1. Len(results'[r]) = 1
        BY <1>51, <3>2, Zenon
      <4> QED
        BY <4>1
    <3>3. CASE r # s
      <4>1. results'[r] = results[r]
        BY <1>5, <3>3
      <4> QED
        BY <3>1, <4>1
    <3> QED
      BY <3>2, <3>3
  <2> QED
    BY <1>2, <1>6, <1>7, <2>1 DEF IInv, OneOwner, RunCallback
<1>10. CausesKept'
  <2>1. ASSUME NEW i \in DOMAIN queue'
        PROVE  i + 1 \in DOMAIN queue /\ queue'[i] = queue[i + 1]
    BY <1>1
  <2> QED
    BY <1>7, <2>1 DEF IInv, CausesKept, RunCallback
<1> QED
  BY <1>8, <1>9, <1>10 DEF IInv

\* OnResponse preserves the invariant: a pending request moves to the read
\* loop, any other stays where it is.
LEMMA OnResponseIInv ==
    ASSUME NEW s \in Requests, IInv, OnResponse(s) PROVE IInv'
<1> USE ConstantsAssumption
<1>1. UNCHANGED <<Queued, Posting, Answered>>
  BY DEF OnResponse, Queued, Posting, Answered
<1>2. arrived' \in [Requests -> 0..MaxRsp]
  BY DEF IInv, TypeOK, OnResponse
<1>3. CASE s \in pending
  <2>1. /\ Reading = {} /\ Reading' = {s}
        /\ pending' = pending \ {s} /\ reader' = s /\ buffers' = buffers + 1
        /\ s \in 0..MaxCalls /\ s \in sent
    BY <1>3 DEF OnResponse, Reading, Without, Requests
  <2>2. TypeOK'
    BY <1>2, <2>1 DEF IInv, TypeOK, OnResponse
  <2>3. OneOwner'
    BY <1>1, <1>3, <2>1 DEF IInv, OneOwner, OnResponse
  <2>4. CausesKept'
    BY <2>1 DEF IInv, CausesKept, OnResponse
  <2> QED
    BY <2>2, <2>3, <2>4 DEF IInv
<1>4. CASE s \notin pending
  <2>1. /\ Reading' = Reading /\ reader' = reader /\ buffers' = buffers
        /\ pending' = pending
    BY <1>4 DEF OnResponse, Reading, Without
  <2>2. TypeOK'
    BY <1>2, <2>1 DEF IInv, TypeOK, OnResponse
  <2>3. OneOwner'
    BY <1>1, <2>1 DEF IInv, OneOwner, OnResponse
  <2>4. CausesKept'
    BY <2>1 DEF IInv, CausesKept, OnResponse
  <2> QED
    BY <2>2, <2>3, <2>4 DEF IInv
<1> QED
  BY <1>3, <1>4

\* OnResponsePost preserves the invariant: the request moves from the read
\* loop to the queue.
LEMMA OnResponsePostIInv == IInv /\ OnResponsePost => IInv'
<1> SUFFICES ASSUME IInv, OnResponsePost PROVE IInv'
  OBVIOUS
<1> USE ConstantsAssumption
<1>1. /\ queue' = Append(queue, Callback(reader, "rsp")) /\ Len(queue) < QueueCap
      /\ queue \in Seq(Tasks) /\ NoTwins(queue)
      /\ reader \in Requests /\ reader \in sent /\ "rsp" \in Codes
      /\ reader' = 0 /\ Reading = {reader} /\ Reading' = {}
  BY DEF IInv, TypeOK, OneOwner, CausesKept, OnResponsePost, Post, Requests,
         Codes, Reading
<1>2. reader \notin Queued
  BY <1>1 DEF IInv, OneOwner
<1>3. /\ queue' \in Seq(Tasks) /\ NoTwins(queue')
      /\ Queued' = Queued \cup {reader}
  BY <1>1, <1>2, PostCallback DEF Queued
<1>4. UNCHANGED <<Posting, Answered>>
  BY DEF OnResponsePost, Posting, Answered
<1>5. TypeOK'
  <2>1. Len(queue') <= QueueCap
    BY <1>1 DEF Callback
  <2> QED
    BY <1>1, <1>3, <2>1 DEF IInv, TypeOK, OnResponsePost
<1>6. OneOwner'
  BY <1>1, <1>3, <1>4 DEF IInv, OneOwner, OnResponsePost
<1>7. CausesKept'
  <2>1. ASSUME NEW i \in DOMAIN queue'
        PROVE  \/ i \in DOMAIN queue /\ queue'[i] = queue[i]
               \/ queue'[i].code = "rsp" /\ queue'[i].seq = reader
    BY <1>1 DEF Callback
  <2> QED
    BY <1>1, <2>1 DEF IInv, CausesKept, OnResponsePost
<1> QED
  BY <1>5, <1>6, <1>7 DEF IInv

\* Time passing preserves the invariant: only late changes, and it grows.
LEMMA ElapseIInv ==
    ASSUME NEW s \in Requests, IInv, Elapse(s) PROVE IInv'
<1>1. UNCHANGED <<Queued, Posting, Reading, Answered>>
  BY DEF Elapse, Queued, Posting, Reading, Answered
<1>2. TypeOK'
  BY DEF IInv, TypeOK, Elapse
<1>3. OneOwner'
  BY <1>1 DEF IInv, OneOwner, Elapse
<1>4. CausesKept'
  <2>1. s \in 1..seq
    BY DEF IInv, OneOwner, Elapse
  <2> QED
    BY <1>1, <2>1 DEF IInv, CausesKept, Elapse
<1> QED
  BY <1>2, <1>3, <1>4 DEF IInv

\* scanExpired preserves the invariant: the overdue requests move from
\* pending to its own list.
LEMMA ScanExpiredIInv == IInv /\ ScanExpired => IInv'
<1> SUFFICES ASSUME IInv, ScanExpired PROVE IInv'
  OBVIOUS
<1>1. UNCHANGED <<Queued, Posting, Reading, Answered>>
  BY DEF ScanExpired, Queued, Posting, Reading, Answered
<1>2. TypeOK'
  BY DEF IInv, TypeOK, ScanExpired, Overdue
<1>3. OneOwner'
  BY <1>1 DEF IInv, OneOwner, ScanExpired, Overdue
<1>4. CausesKept'
  BY <1>1 DEF IInv, CausesKept, ScanExpired, Overdue
<1> QED
  BY <1>2, <1>3, <1>4 DEF IInv

\* Posting one collected request preserves the invariant: it moves from the
\* scan's list to the queue.
LEMMA ScanPostIInv == IInv /\ ScanPost => IInv'
<1> SUFFICES ASSUME IInv, ScanPost PROVE IInv'
  OBVIOUS
<1> USE ConstantsAssumption
<1>1. PICK s \in expired : Post(Callback(s, "timeout")) /\ expired' = expired \ {s}
  BY DEF ScanPost
<1>2. /\ queue' = Append(queue, Callback(s, "timeout")) /\ Len(queue) < QueueCap
      /\ queue \in Seq(Tasks) /\ NoTwins(queue)
      /\ s \in Requests /\ s \in late /\ "timeout" \in Codes
  BY <1>1 DEF IInv, TypeOK, OneOwner, CausesKept, Post, Codes
<1>3. s \notin Queued
  BY DEF IInv, OneOwner
<1>4. /\ queue' \in Seq(Tasks) /\ NoTwins(queue')
      /\ Queued' = Queued \cup {s}
  BY <1>2, <1>3, PostCallback DEF Queued
<1>5. UNCHANGED <<Posting, Reading, Answered>>
  BY DEF ScanPost, Posting, Reading, Answered
<1>6. TypeOK'
  <2>1. Len(queue') <= QueueCap
    BY <1>2 DEF Callback
  <2> QED
    BY <1>1, <1>4, <2>1 DEF IInv, TypeOK, ScanPost
<1>7. OneOwner'
  BY <1>1, <1>4, <1>5 DEF IInv, OneOwner, ScanPost
<1>8. CausesKept'
  <2>1. ASSUME NEW i \in DOMAIN queue'
        PROVE  \/ i \in DOMAIN queue /\ queue'[i] = queue[i]
               \/ queue'[i].code = "timeout" /\ queue'[i].seq = s
    BY <1>2 DEF Callback
  <2> QED
    BY <1>1, <1>2, <1>5, <2>1 DEF IInv, CausesKept, ScanPost
<1> QED
  BY <1>6, <1>7, <1>8 DEF IInv

\* The steps of shutdown preserve the invariant.
LEMMA ShutdownIInv == IInv /\ (ScanStop \/ CloseStart \/ CloseReturn) => IInv'
<1> SUFFICES ASSUME IInv, ScanStop \/ CloseStart \/ CloseReturn PROVE IInv'
  OBVIOUS
<1>1. UNCHANGED <<Queued, Posting, Reading, Answered>>
  BY DEF ScanStop, CloseStart, CloseReturn, Queued, Posting, Reading, Answered
<1>2. TypeOK'
  <2>1. scanning' \in BOOLEAN /\ stopCh' \in BOOLEAN
    BY Zenon DEF IInv, TypeOK, ScanStop, CloseStart, CloseReturn
  <2> QED
    BY <2>1 DEF IInv, TypeOK, ScanStop, CloseStart, CloseReturn
<1>3. OneOwner'
  BY <1>1 DEF IInv, OneOwner, ScanStop, CloseStart, CloseReturn
<1>4. CausesKept'
  BY <1>1 DEF IInv, CausesKept, ScanStop, CloseStart, CloseReturn
<1> QED
  BY <1>2, <1>3, <1>4 DEF IInv

\* A step that changes nothing preserves the invariant.
LEMMA StutterIInv == IInv /\ UNCHANGED vars => IInv'
<1> SUFFICES ASSUME IInv, UNCHANGED vars PROVE IInv'
  OBVIOUS
<1>1. UNCHANGED <<Queued, Posting, Reading, Answered>>
  BY SamePlaces DEF vars
<1>2. TypeOK'
  BY DEF IInv, TypeOK, vars
<1>3. OneOwner'
  BY <1>1 DEF IInv, OneOwner, vars
<1>4. CausesKept'
  BY <1>1 DEF IInv, CausesKept, vars
<1> QED
  BY <1>2, <1>3, <1>4 DEF IInv

-----------------------------------------------------------------------------
(* The invariant holds in every reachable state. *)

\* IInv is an invariant of the rpc core.
THEOREM Invariance == Spec => []IInv
<1>1. IInv /\ [Next]_vars => IInv'
  <2> SUFFICES ASSUME IInv, [Next]_vars PROVE IInv'
    OBVIOUS
  <2>1. CASE PostJob
    BY <2>1, PostJobIInv
  <2>2. CASE MainLoop
    BY <2>2, CallRegisterIInv, CallSentIInv, CallFailedIInv,
       CallPostFailureIInv, RunCallbackIInv DEF MainLoop
  <2>3. CASE \E s \in Requests : OnResponse(s) \/ Elapse(s)
    BY <2>3, OnResponseIInv, ElapseIInv
  <2>4. CASE OnResponsePost
    BY <2>4, OnResponsePostIInv
  <2>5. CASE ScanExpired
    BY <2>5, ScanExpiredIInv
  <2>6. CASE ScanPost
    BY <2>6, ScanPostIInv
  <2>7. CASE ScanStop \/ CloseStart \/ CloseReturn
    BY <2>7, ShutdownIInv
  <2>8. CASE UNCHANGED vars
    BY <2>8, StutterIInv
  <2> QED
    BY <2>1, <2>2, <2>3, <2>4, <2>5, <2>6, <2>7, <2>8 DEF Next
<1> QED
  BY <1>1, InitIInv, PTL DEF Spec

\* The variables of the rpc core keep their types; in particular postQueue
\* never holds more tasks than its capacity.
THEOREM TypeCorrect == Spec => []TypeOK
<1>1. IInv => TypeOK
  BY DEF IInv
<1> QED
  BY <1>1, Invariance, PTL

\* Every request is in exactly one place, so a late response, the deadline
\* scan and a failed send never answer the same request twice and never lose
\* it between them, for any number of requests and any queue capacity.
THEOREM ExactlyOneOwner == Spec => []OneOwner
<1>1. IInv => OneOwner
  BY DEF IInv
<1> QED
  BY <1>1, Invariance, PTL

\* Every callback waiting in the queue has its cause.
THEOREM CausesAreKept == Spec => []CausesKept
<1>1. IInv => CausesKept
  BY DEF IInv
<1> QED
  BY <1>1, Invariance, PTL

-----------------------------------------------------------------------------
(* rpc.Core implements its contract. *)

\* The callback the main loop runs is an answer the contract allows.
LEMMA RunCallbackAnswers ==
    ASSUME IInv, RunCallback
    PROVE  \E s \in Requests, code \in Codes : Contract!Answer(s, code)
<1> USE ConstantsAssumption
<1> DEFINE s == Head(queue).seq
           code == Head(queue).code
<1>1. /\ queue \in Seq(Tasks) /\ NoTwins(queue) /\ queue # <<>>
      /\ code # "job" /\ results \in [Requests -> Seq(Codes)]
      /\ results' = [results EXCEPT ![s] = Append(@, code)]
      /\ UNCHANGED <<seq, sent, late>>
      /\ Head(queue) = queue[1] /\ 1 \in DOMAIN queue
  BY DEF IInv, TypeOK, OneOwner, RunCallback
<1>2. Head(queue) \in Tasks /\ s \in Queued
  BY <1>1, TakeTask DEF Queued
<1>3. s \in Requests /\ code \in Codes
  BY <1>1, <1>2 DEF Tasks, Job
<1>4. results[s] = <<>> /\ s \in 1..seq /\ seq \in Nat
  BY <1>2, <1>3 DEF IInv, OneOwner, Answered, TypeOK
<1>5. /\ code = "rsp" => s \in sent
      /\ code = "fail" => s \notin sent
      /\ code = "timeout" => s \in late
  BY <1>1 DEF IInv, CausesKept
<1> HIDE DEF s, code
<1>6. results' = [results EXCEPT ![s] = <<code>>]
  BY <1>1, <1>3, <1>4
<1>7. s <= seq
  BY <1>4
<1>8. Contract!Answer(s, code)
  BY <1>1, <1>4, <1>5, <1>6, <1>7, Zenon DEF Contract!Answer
<1> QED
  BY <1>3, <1>8

\* Whatever the goroutines do, the callers of rpc.Core see the contract:
\* requests numbered in order, each answered at most once, with a code that
\* has its cause.
THEOREM Refinement == Spec => ImplementsContract
<1>1. Init => Contract!Init
  BY DEF Init, Contract!Init, Requests, Contract!Requests
<1>2. IInv /\ [Next]_vars => [Contract!Next]_Contract!vars
  <2> SUFFICES ASSUME IInv, [Next]_vars
               PROVE  Contract!Next \/ UNCHANGED Contract!vars
    OBVIOUS
  <2> USE DEF Contract!vars
  <2>1. CASE CallRegister
    BY <2>1 DEF CallRegister, Contract!Next, Contract!Issue
  <2>2. CASE CallSent
    <3>1. cur \in Requests /\ cur <= seq
      BY <2>2, ConstantsAssumption
      DEF CallSent, IInv, TypeOK, CausesKept, Requests
    <3>2. Contract!Accept(cur)
      BY <2>2, <3>1 DEF CallSent, Contract!Accept
    <3> QED
      BY <3>1, <3>2 DEF Contract!Next, Contract!Requests, Requests
  <2>3. CASE \E s \in Requests : Elapse(s)
    <3>1. PICK s \in Requests : Elapse(s)
      BY <2>3
    <3>2. s \in 1..seq /\ seq \in Nat
      BY <3>1, ConstantsAssumption DEF IInv, TypeOK, OneOwner, Elapse
    <3>3. Contract!Elapse(s)
      BY <3>1, <3>2 DEF Elapse, Contract!Elapse
    <3> QED
      BY <3>3 DEF Contract!Next, Contract!Requests, Requests
  <2>4. CASE RunCallback
    BY <2>4, RunCallbackAnswers
    DEF Contract!Next, Contract!Requests, Requests, Codes
  <2>5. CASE \/ PostJob \/ CallFailed \/ CallPostFailure
             \/ \E s \in Requests : OnResponse(s)
             \/ OnResponsePost \/ ScanExpired \/ ScanPost
             \/ ScanStop \/ CloseStart \/ CloseReturn \/ UNCHANGED vars
    BY <2>5 DEF PostJob, CallFailed, CallPostFailure, OnResponse,
                OnResponsePost, ScanExpired, ScanPost, ScanStop, CloseStart,
                CloseReturn, vars
  <2> QED
    BY <2>1, <2>2, <2>3, <2>4, <2>5 DEF Next, MainLoop
<1> QED
  BY <1>1, <1>2, Invariance, PTL DEF Spec, ImplementsContract, Contract!Spec

-----------------------------------------------------------------------------
(***************************************************************************)
(* No frame buffer of a response is leaked or released twice: the buffers  *)
(* in use are counted by the places responses are in.  The argument is     *)
(* about the number of responses in the queue: Post adds one, running a    *)
(* callback takes the first away and shifts the others.                    *)
(***************************************************************************)

\* The places of responses in a queue.
RspIn(q) == {i \in DOMAIN q : q[i].code = "rsp"}

\* They are finitely many.
LEMMA RspFinite ==
    ASSUME NEW q \in Seq(Tasks)
    PROVE  IsFiniteSet(RspIn(q)) /\ Cardinality(RspIn(q)) \in Nat
<1>1. IsFiniteSet(1..Len(q))
  BY FS_Interval
<1>2. RspIn(q) \in SUBSET (1..Len(q))
  BY DEF RspIn
<1>3. IsFiniteSet(RspIn(q))
  BY <1>1, <1>2, FS_Subset
<1> QED
  BY <1>3, FS_CardinalityType

\* Post of a task.
LEMMA RspAppend ==
    ASSUME NEW q \in Seq(Tasks), NEW t \in Tasks
    PROVE  Cardinality(RspIn(Append(q, t)))
             = Cardinality(RspIn(q)) + (IF t.code = "rsp" THEN 1 ELSE 0)
<1>1. /\ DOMAIN Append(q, t) = DOMAIN q \cup {Len(q) + 1} /\ Len(q) + 1 \notin DOMAIN q
      /\ Append(q, t)[Len(q) + 1] = t
      /\ \A i \in DOMAIN q : Append(q, t)[i] = q[i]
  OBVIOUS
<1>2. Len(q) + 1 \notin RspIn(q)
  BY <1>1 DEF RspIn
<1>3. CASE t.code = "rsp"
  <2>1. RspIn(Append(q, t)) = RspIn(q) \cup {Len(q) + 1}
    BY <1>1, <1>3 DEF RspIn
  <2> QED
    BY <1>2, <1>3, <2>1, RspFinite, FS_AddElement
<1>4. CASE t.code # "rsp"
  <2>1. RspIn(Append(q, t)) = RspIn(q)
    BY <1>1, <1>4 DEF RspIn
  <2> QED
    BY <1>4, <2>1, RspFinite
<1> QED
  BY <1>3, <1>4

\* The main loop takes the first task: the others move up by one.
LEMMA RspTail ==
    ASSUME NEW q \in Seq(Tasks), q # <<>>
    PROVE  Cardinality(RspIn(Tail(q)))
             = Cardinality(RspIn(q)) - (IF Head(q).code = "rsp" THEN 1 ELSE 0)
<1> DEFINE rest == RspIn(q) \ {1}
           f == [i \in RspIn(Tail(q)) |-> i + 1]
<1>1. /\ Head(q) = q[1] /\ 1 \in DOMAIN q /\ Tail(q) \in Seq(Tasks)
      /\ Len(q) \in Nat /\ DOMAIN q = 1..Len(q) /\ DOMAIN Tail(q) = 1..(Len(q) - 1)
      /\ \A i \in 1..(Len(q) - 1) : Tail(q)[i] = q[i + 1]
  OBVIOUS
<1>2. f \in Bijection(RspIn(Tail(q)), rest)
  <2>1. \A i \in RspIn(Tail(q)) : i \in 1..(Len(q) - 1) /\ i + 1 \in rest
    BY <1>1 DEF RspIn
  <2>2. f \in [RspIn(Tail(q)) -> rest]
    BY <2>1
  <2>3. \A i, j \in RspIn(Tail(q)) : f[i] = f[j] => i = j
    BY <2>1
  <2>4. ASSUME NEW k \in rest PROVE \E i \in RspIn(Tail(q)) : f[i] = k
    <3>1. k - 1 \in RspIn(Tail(q))
      BY <1>1 DEF RspIn
    <3>2. f[k - 1] = k
      BY <1>1, <3>1 DEF RspIn
    <3> QED
      BY <3>1, <3>2
  <2> HIDE DEF f, rest
  <2> QED
    BY <2>2, <2>3, <2>4 DEF Bijection, Injection, Surjection, IsInjective
<1>3. Cardinality(rest) = Cardinality(RspIn(Tail(q)))
  <2>1. ExistsBijection(RspIn(Tail(q)), rest)
    BY <1>2 DEF ExistsBijection
  <2>2. IsFiniteSet(RspIn(Tail(q)))
    BY <1>1, RspFinite
  <2> HIDE DEF f, rest
  <2> QED
    BY <2>1, <2>2, FS_Bijection
<1>4. Cardinality(rest) = IF 1 \in RspIn(q) THEN Cardinality(RspIn(q)) - 1 ELSE Cardinality(RspIn(q))
  BY RspFinite, FS_RemoveElement
<1>5. 1 \in RspIn(q) <=> Head(q).code = "rsp"
  BY <1>1 DEF RspIn
<1> HIDE DEF f, rest
<1> QED
  BY <1>3, <1>4, <1>5, RspFinite

-----------------------------------------------------------------------------
Balance == (IF reader = 0 THEN 0 ELSE 1) + Cardinality(RspIn(queue))

\* What BuffersBalanced counts.
LEMMA BalancedIs == TypeOK => (BuffersBalanced <=> buffers = Balance)
<1> SUFFICES ASSUME TypeOK PROVE BuffersBalanced <=> buffers = Balance
  OBVIOUS
<1>1. Cardinality(Reading) = IF reader = 0 THEN 0 ELSE 1
  <2>1. CASE reader = 0
    <3>1. Reading = {}
      BY <2>1 DEF Reading
    <3> QED
      BY <2>1, <3>1, FS_EmptySet
  <2>2. CASE reader # 0
    <3>1. Reading = {reader}
      BY <2>2 DEF Reading
    <3> QED
      BY <2>2, <3>1, FS_Singleton
  <2> QED
    BY <2>1, <2>2
<1> QED
  BY <1>1 DEF BuffersBalanced, Balance, RspIn

\* A task that is posted beside the read loop carries no buffer.
LEMMA PostKeepsBalance ==
    ASSUME TypeOK, buffers = Balance, NEW t \in Tasks, t.code # "rsp", Post(t),
           UNCHANGED <<reader, buffers>>
    PROVE  buffers' = Balance'
<1>1. queue \in Seq(Tasks) /\ queue' = Append(queue, t)
  BY DEF TypeOK, Post
<1>2. Cardinality(RspIn(queue')) = Cardinality(RspIn(queue))
  BY <1>1, RspAppend, RspFinite
<1> QED
  BY <1>2 DEF Balance, RspIn

\* Every step keeps the balance: a response is counted from the moment the read
\* loop finds its request until its callback has run.
LEMMA NextBalance ==
    ASSUME IInv, buffers = Balance, [Next]_vars PROVE buffers' = Balance'
<1> USE ConstantsAssumption
<1>1. /\ queue \in Seq(Tasks) /\ reader \in 0..MaxCalls /\ buffers \in Int /\ TypeOK
      /\ Cardinality(RspIn(queue)) \in Nat
  BY RspFinite DEF IInv, TypeOK
<1>2. \A s \in Requests, code \in Codes :
          Callback(s, code) \in Tasks /\ Callback(s, code).code = code
  BY DEF Callback, Tasks
<1>3. CASE PostJob
  BY <1>1, <1>3, PostKeepsBalance DEF PostJob, Job, Tasks
<1>4. CASE CallRegister
  <2>1. /\ queue # <<>> /\ Head(queue).code = "job" /\ queue' = Tail(queue)
        /\ UNCHANGED <<reader, buffers>>
    BY <1>4 DEF CallRegister
  <2>2. Cardinality(RspIn(queue')) = Cardinality(RspIn(queue))
    BY <1>1, <2>1, RspTail
  <2> QED
    BY <2>1, <2>2 DEF Balance
<1>5. CASE CallPostFailure
  <2>1. cur \in Requests /\ "fail" \in Codes
    BY <1>5 DEF CallPostFailure, IInv, TypeOK, CausesKept, Requests, Codes
  <2> QED
    BY <1>1, <1>2, <1>5, <2>1, PostKeepsBalance DEF CallPostFailure
<1>6. CASE RunCallback
  <2>1. /\ queue # <<>> /\ queue' = Tail(queue) /\ reader' = reader
        /\ buffers' = IF Head(queue).code = "rsp" THEN buffers - 1 ELSE buffers
    BY <1>6 DEF RunCallback, Release
  <2>2. Cardinality(RspIn(queue'))
           = Cardinality(RspIn(queue)) - (IF Head(queue).code = "rsp" THEN 1 ELSE 0)
    BY <1>1, <2>1, RspTail
  <2> QED
    BY <1>1, <2>1, <2>2 DEF Balance
<1>7. CASE \E s \in Requests : OnResponse(s)
  BY <1>1, <1>7 DEF OnResponse, Balance, Requests
<1>8. CASE OnResponsePost
  <2>1. /\ reader # 0 /\ reader' = 0 /\ buffers' = buffers
        /\ queue' = Append(queue, Callback(reader, "rsp"))
    BY <1>8 DEF OnResponsePost, Post
  <2>2. Callback(reader, "rsp") \in Tasks /\ Callback(reader, "rsp").code = "rsp"
    BY <1>1, <1>2, <2>1 DEF Requests, Codes
  <2>3. Cardinality(RspIn(queue')) = Cardinality(RspIn(queue)) + 1
    BY <1>1, <2>1, <2>2, RspAppend
  <2> QED
    BY <1>1, <2>1, <2>3 DEF Balance
<1>9. CASE ScanPost
  <2>1. PICK s \in expired : Post(Callback(s, "timeout"))
    BY <1>9 DEF ScanPost
  <2>2. s \in Requests /\ "timeout" \in Codes
    BY <2>1 DEF IInv, TypeOK, Codes
  <2> QED
    BY <1>1, <1>2, <1>9, <2>1, <2>2, PostKeepsBalance DEF ScanPost
<1>10. CASE \/ CallSent \/ CallFailed \/ ScanExpired \/ ScanStop \/ CloseStart \/ CloseReturn
            \/ (\E s \in Requests : Elapse(s)) \/ UNCHANGED vars
  <2>1. UNCHANGED <<queue, reader, buffers>>
    BY <1>10 DEF CallSent, CallFailed, ScanExpired, ScanStop, CloseStart, CloseReturn, Elapse, vars
  <2> QED
    BY <2>1 DEF Balance
<1> QED
  BY <1>3, <1>4, <1>5, <1>6, <1>7, <1>8, <1>9, <1>10 DEF Next, MainLoop

\* No buffer is leaked or released twice: OnResponseWithRelease gives back at
\* once what nobody waits for, and the callback of a response what it was given.
THEOREM BuffersTheorem == Spec => []BuffersBalanced
<1> DEFINE Balanced == buffers = Balance
<1>1. Init => Balanced
  <2> SUFFICES ASSUME Init PROVE Balanced
    OBVIOUS
  <2>1. RspIn(queue) = {}
    BY DEF Init, RspIn
  <2> QED
    BY <2>1, FS_EmptySet DEF Init, Balance
<1>2. IInv /\ Balanced /\ [Next]_vars => Balanced'
  BY NextBalance
<1>3. IInv /\ Balanced => BuffersBalanced
  BY BalancedIs DEF IInv
<1> HIDE DEF Balanced
<1>4. Spec => []Balanced
  BY <1>1, <1>2, Invariance, PTL DEF Spec
<1> QED
  BY <1>3, <1>4, Invariance, PTL
=============================================================================
