----------------------------- MODULE LobbyProofs -----------------------------
(***************************************************************************)
(* The lobby, for any auctions and any number of logins, settlements,      *)
(* failed operations and crashes:                                          *)
(*   - a component whose dirty flag is down has been stored as it is, or a *)
(*     flush that carries its present content has yet to call back         *)
(*     (CleanIsCarried);                                                   *)
(*   - the item of a settlement is granted at most once (ItemOnce);        *)
(*   - a settlement delivered once is charged at most once                 *)
(*     (ChargedPerDelivery);                                               *)
(*   - an offline message leaves the store only once its item is safe      *)
(*     (OfflineKept).                                                      *)
(*                                                                         *)
(* The first is about a sequence of copies and a set of operations, so it  *)
(* is made once for any two of them (CleanIn) and then applied to the      *)
(* handlers, some of which change a copy before they flush it.             *)
(*                                                                         *)
(* The others follow the documents: Within(C, B, M) says that every        *)
(* currency in the system (document, copies, pushes, snapshots, results)   *)
(* is in C, every bag in B and every offline message about a game of M,    *)
(* and WithinNext that the steps keep it when C, B and M are closed under  *)
(* what settling and replaying do (Closed).  It is used three times: with  *)
(* the currencies and bags whose counts follow the op-ids kept beside      *)
(* them, and, for one game and the way in which it was delivered, with     *)
(* the currencies that are charged in that way only.  Replayed and         *)
(* RemoveAll are loops, so what they compute is proved by induction over   *)
(* their rounds (UpTo, Recursion).                                         *)
(***************************************************************************)
EXTENDS Lobby, WellFoundedInduction, TLAPS

\* A leaf that names no prover goes to Zenon first and then to the SMT solver.
USE ZenonT(2), SMTT(30), ZenonT(30)

\* A working copy, and a sequence of them.
Copy(o) == o = [data |-> o.data, dirty |-> o.dirty, saved |-> o.saved]
Copies(os) ==
    /\ os \in Seq({os[i] : i \in DOMAIN os})
    /\ \A i \in DOMAIN os : Copy(os[i])

\* The flush op carries the content of the component f of the copy i.
Carries(op, os, i, f) ==
    op.kind = "flush" /\ op.obj = i /\ f \in op.fields /\ op.snap[f] = os[i].data[f]

CleanIn(os, P) ==
    \A i \in DOMAIN os : \A f \in Fields \ os[i].dirty :
        f \in os[i].saved \/ \E op \in P : Carries(op, os, i, f)

\* CleanIsCarried is this, for the copies and operations there are.
LEMMA CleanIs == CleanIsCarried <=> CleanIn(objs, ops)
BY DEF CleanIsCarried, CleanIn, Carries

\* The flags of a copy.
LEMMA CopyExcept ==
    ASSUME NEW o, Copy(o), NEW x
    PROVE  /\ [o EXCEPT !.dirty = x] = [data |-> o.data, dirty |-> x, saved |-> o.saved]
           /\ [o EXCEPT !.saved = x] = [data |-> o.data, dirty |-> o.dirty, saved |-> x]
<1>1. PICK a, b, c : o = [data |-> a, dirty |-> b, saved |-> c]
  BY DEF Copy
<1> QED
  BY <1>1

\* One copy is replaced by another.
LEMMA Replace ==
    ASSUME NEW os, Copies(os), NEW i \in DOMAIN os, NEW o, Copy(o)
    PROVE  /\ Copies([os EXCEPT ![i] = o])
           /\ DOMAIN [os EXCEPT ![i] = o] = DOMAIN os
           /\ Len([os EXCEPT ![i] = o]) = Len(os)
<1> DEFINE qs == [os EXCEPT ![i] = o]
<1>1. /\ Len(os) \in Nat /\ DOMAIN os = 1..Len(os) /\ os = [j \in 1..Len(os) |-> os[j]]
  BY DEF Copies
<1>2. /\ qs = [j \in 1..Len(os) |-> IF j = i THEN o ELSE os[j]] /\ DOMAIN qs = 1..Len(os)
  BY <1>1
<1>3. qs \in Seq({qs[j] : j \in DOMAIN qs})
  <2> DEFINE S == {qs[j] : j \in DOMAIN qs}
  <2>1. qs \in [1..Len(os) -> S]
    BY <1>2
  <2> HIDE DEF S, qs
  <2>2. qs \in Seq(S)
    BY <1>1, <2>1
  <2> QED
    BY <2>2 DEF S
<1>4. Len(qs) = Len(os)
  BY <1>1, <1>2, <1>3
<1> QED
  BY <1>1, <1>2, <1>3, <1>4 DEF Copies

\* A change sets the flags of what it changes, and leaves the rest.
LEMMA ChangeClean ==
    ASSUME NEW os, NEW P, Copies(os), CleanIn(os, P), NEW i \in DOMAIN os, NEW d
    PROVE  /\ Copies([os EXCEPT ![i] = Changed(@, d)])
           /\ CleanIn([os EXCEPT ![i] = Changed(@, d)], P)
           /\ DOMAIN [os EXCEPT ![i] = Changed(@, d)] = DOMAIN os
<1> DEFINE o == Changed(os[i], d)
           qs == [os EXCEPT ![i] = o]
<1>1. /\ o.data = d
      /\ o.dirty = os[i].dirty \cup {f \in Fields : d[f] # os[i].data[f]}
      /\ o.saved = os[i].saved \ {f \in Fields : d[f] # os[i].data[f]}
      /\ Copy(o)
  BY DEF Changed, Copy
<1> HIDE DEF o
<1>2. Copies(qs) /\ DOMAIN qs = DOMAIN os
  BY <1>1, Replace
<1>3. ASSUME NEW j \in DOMAIN qs, NEW f \in Fields \ qs[j].dirty
      PROVE  f \in qs[j].saved \/ \E op \in P : Carries(op, qs, j, f)
  <2>1. CASE j = i
    <3>1. qs[j] = o
      BY <2>1
    <3>2. f \notin os[i].dirty /\ d[f] = os[i].data[f]
      BY <1>1, <1>3, <3>1
    <3> QED
      BY <1>1, <1>3, <2>1, <3>1, <3>2 DEF CleanIn, Carries
  <2>2. CASE j # i
    <3>1. qs[j] = os[j] /\ j \in DOMAIN os
      BY <1>2, <2>2
    <3> QED
      BY <1>3, <3>1 DEF CleanIn, Carries
  <2> QED
    BY <2>1, <2>2
<1>4. [os EXCEPT ![i] = Changed(@, d)] = qs
  BY DEF o
<1> HIDE DEF qs
<1> QED
  BY <1>2, <1>3, <1>4 DEF CleanIn

\* Operations other than flushes come and go, flushes may pass a phase.
LEMMA OtherOps ==
    ASSUME NEW os, NEW P, NEW Q, CleanIn(os, P),
           \A op \in P : op.kind = "flush" =>
               \E x \in Q : x.kind = "flush" /\ x.obj = op.obj /\ x.fields = op.fields
                                /\ x.snap = op.snap
    PROVE  CleanIn(os, Q)
BY DEF CleanIn, Carries

\* flushPlayer takes the flags down of what the new operation carries.
LEMMA FlushClean ==
    ASSUME NEW os, NEW P, NEW Q, Copies(os), CleanIn(os, P), NEW i \in DOMAIN os,
           NEW games, NEW after,
           \A op \in P : op.kind = "flush" => op \in Q,
           Op("flush", i, os[i].data, os[i].dirty, games, after) \in Q
    PROVE  /\ Copies([os EXCEPT ![i] = ClearDirty(@)])
           /\ CleanIn([os EXCEPT ![i] = ClearDirty(@)], Q)
           /\ DOMAIN [os EXCEPT ![i] = ClearDirty(@)] = DOMAIN os
<1> DEFINE o == ClearDirty(os[i])
           qs == [os EXCEPT ![i] = o]
           new == Op("flush", i, os[i].data, os[i].dirty, games, after)
<1>1. o.data = os[i].data /\ o.dirty = {} /\ o.saved = os[i].saved /\ Copy(o)
  <2>1. Copy(os[i])
    BY DEF Copies
  <2>2. o = [data |-> os[i].data, dirty |-> {}, saved |-> os[i].saved]
    BY <2>1, CopyExcept DEF ClearDirty
  <2> HIDE DEF o
  <2> QED
    BY <2>2 DEF Copy
<1>2. new.kind = "flush" /\ new.obj = i /\ new.fields = os[i].dirty /\ new.snap = os[i].data
  BY DEF Op
<1>3. new \in Q /\ [os EXCEPT ![i] = ClearDirty(@)] = qs
  OBVIOUS
<1> HIDE DEF o, new
<1>4. Copies(qs) /\ DOMAIN qs = DOMAIN os
  BY <1>1, Replace
<1>5. ASSUME NEW j \in DOMAIN qs, NEW f \in Fields \ qs[j].dirty
      PROVE  f \in qs[j].saved \/ \E op \in Q : Carries(op, qs, j, f)
  <2>1. CASE j = i
    <3>1. qs[j] = o
      BY <2>1
    <3>2. CASE f \in os[i].dirty
      BY <1>1, <1>2, <1>3, <2>1, <3>1, <3>2 DEF Carries
    <3>3. CASE f \notin os[i].dirty
      BY <1>1, <2>1, <3>1, <3>3 DEF CleanIn, Carries
    <3> QED
      BY <3>2, <3>3
  <2>2. CASE j # i
    <3>1. qs[j] = os[j] /\ j \in DOMAIN os
      BY <1>4, <2>2
    <3> QED
      BY <1>5, <3>1 DEF CleanIn, Carries
  <2> QED
    BY <2>1, <2>2
<1> HIDE DEF qs
<1> QED
  BY <1>3, <1>4, <1>5 DEF CleanIn

\* The callback of a flush: what it carried is stored if it is still the
\* content, and dirty again if it failed.
LEMMA DoneClean ==
    ASSUME NEW os, NEW P, NEW Q, Copies(os), CleanIn(os, P), NEW op \in P,
           op.obj \in DOMAIN os, \A x \in P : x.kind = "flush" => x = op \/ x \in Q
    PROVE  /\ Copies([os EXCEPT ![op.obj] = MarkDirty(@, op)])
           /\ CleanIn([os EXCEPT ![op.obj] = MarkDirty(@, op)], Q)
           /\ DOMAIN [os EXCEPT ![op.obj] = MarkDirty(@, op)] = DOMAIN os
<1> DEFINE i == op.obj
           o == MarkDirty(os[i], op)
           qs == [os EXCEPT ![i] = o]
<1>1. /\ o.data = os[i].data /\ Copy(o)
      /\ o.dirty = IF op.phase = "error" THEN os[i].dirty \cup op.fields ELSE os[i].dirty
      /\ o.saved = IF op.phase = "error" THEN os[i].saved
                   ELSE os[i].saved \cup {f \in op.fields : op.snap[f] = os[i].data[f]}
  <2>1. Copy(os[i])
    BY DEF Copies
  <2>2. o = IF op.phase = "error"
            THEN [data |-> os[i].data, dirty |-> os[i].dirty \cup op.fields, saved |-> os[i].saved]
            ELSE [data |-> os[i].data, dirty |-> os[i].dirty,
                  saved |-> os[i].saved \cup {f \in op.fields : op.snap[f] = os[i].data[f]}]
    BY <2>1, CopyExcept DEF MarkDirty
  <2> HIDE DEF o
  <2> QED
    BY <2>2 DEF Copy
<1>2. [os EXCEPT ![op.obj] = MarkDirty(@, op)] = qs /\ i \in DOMAIN os
  OBVIOUS
<1> HIDE DEF o
<1>3. Copies(qs) /\ DOMAIN qs = DOMAIN os
  BY <1>1, <1>2, Replace
<1>4. ASSUME NEW j \in DOMAIN qs, NEW f \in Fields \ qs[j].dirty
      PROVE  f \in qs[j].saved \/ \E x \in Q : Carries(x, qs, j, f)
  <2>1. CASE j = i
    <3>1. qs[j] = o
      BY <1>2, <2>1
    <3>2. f \notin os[i].dirty /\ (op.phase = "error" => f \notin op.fields)
      BY <1>1, <1>4, <3>1
    <3>3. CASE f \in os[i].saved
      BY <1>1, <3>1, <3>3
    <3>4. ASSUME NEW x \in P, Carries(x, os, i, f)
          PROVE  f \in o.saved \/ \E y \in Q : Carries(y, qs, j, f)
      <4>1. CASE x = op
        BY <1>1, <3>2, <3>4, <4>1 DEF Carries
      <4>2. CASE x # op
        BY <1>1, <2>1, <3>1, <3>4, <4>2 DEF Carries
      <4> QED
        BY <4>1, <4>2
    <3> QED
      BY <1>2, <3>1, <3>2, <3>3, <3>4 DEF CleanIn
  <2>2. CASE j # i
    <3>1. qs[j] = os[j] /\ j \in DOMAIN os
      BY <1>3, <2>2
    <3>2. \A x \in P : Carries(x, os, j, f) => x \in Q
      BY <2>2 DEF Carries
    <3> QED
      BY <1>4, <3>1, <3>2 DEF CleanIn, Carries
  <2> QED
    BY <2>1, <2>2
<1> HIDE DEF qs
<1> QED
  BY <1>2, <1>3, <1>4 DEF CleanIn

\* A copy that was just loaded is stored as it is.
LEMMA LoadClean ==
    ASSUME NEW os, NEW P, Copies(os), CleanIn(os, P), NEW d
    PROVE  LET qs == Append(os, [data |-> d, dirty |-> {}, saved |-> Fields])
           IN  Copies(qs) /\ CleanIn(qs, P) /\ DOMAIN os \subseteq DOMAIN qs
                          /\ Len(qs) \in DOMAIN qs
<1> DEFINE o == [data |-> d, dirty |-> {}, saved |-> Fields]
           qs == Append(os, o)
           S == {os[i] : i \in DOMAIN os} \cup {o}
<1>1. Copy(o) /\ o.dirty = {} /\ o.saved = Fields
  BY DEF Copy
<1>2. os \in Seq(S) /\ o \in S
  <2>1. Len(os) \in Nat /\ os \in [1..Len(os) -> S]
    BY DEF Copies
  <2> HIDE DEF S, o
  <2> QED
    BY <2>1 DEF S
<1> HIDE DEF o
<1>3. /\ Len(os) \in Nat /\ DOMAIN os = 1..Len(os) /\ Len(qs) = Len(os) + 1
      /\ qs \in [1..(Len(os) + 1) -> S]
      /\ qs[Len(os) + 1] = o /\ \A i \in 1..Len(os) : qs[i] = os[i]
  <2> HIDE DEF S
  <2>1. Len(os) \in Nat /\ DOMAIN os = 1..Len(os) /\ Len(qs) = Len(os) + 1 /\ qs \in Seq(S)
    BY <1>2
  <2>2. qs[Len(os) + 1] = o /\ \A i \in 1..Len(os) : qs[i] = os[i]
    BY <1>2
  <2>3. qs \in [1..(Len(os) + 1) -> S]
    <3> HIDE DEF qs
    <3> QED
      BY <2>1
  <2> QED
    BY <2>1, <2>2, <2>3
<1>4. qs \in Seq({qs[i] : i \in DOMAIN qs})
  <2> DEFINE T == {qs[i] : i \in DOMAIN qs}
  <2>1. qs \in [1..(Len(os) + 1) -> T]
    BY <1>3
  <2> HIDE DEF T, qs
  <2>2. qs \in Seq(T)
    BY <1>3, <2>1
  <2> QED
    BY <2>2 DEF T
<1> HIDE DEF qs
<1>5. Copies(qs)
  BY <1>1, <1>3, <1>4, ZenonT(30) DEF Copies
<1>6. CleanIn(qs, P)
  BY <1>1, <1>3 DEF CleanIn, Carries
<1> QED
  BY <1>3, <1>5, <1>6 DEF qs, o

-----------------------------------------------------------------------------
(* The invariant, and the kinds of steps that keep it *)

IsOp(op) ==
    op = [kind |-> op.kind, obj |-> op.obj, snap |-> op.snap, fields |-> op.fields,
          games |-> op.games, after |-> op.after, phase |-> op.phase]

\* An operation about a copy is about one of the copies.
ValidOp(op, D) == IsOp(op) /\ (op.kind \notin {"load", "push"} => op.obj \in D)

LobbyInv ==
    /\ Copies(objs)
    /\ CleanIsCarried
    /\ player \in 0..Len(objs)
    /\ \A op \in ops : ValidOp(op, DOMAIN objs)

\* Copies are numbered from 1.
LEMMA CopyNumbers ==
    ASSUME NEW os, Copies(os) PROVE Len(os) \in Nat /\ DOMAIN os = 1..Len(os)
BY DEF Copies

\* A new operation.
LEMMA NewOp ==
    ASSUME NEW kind, NEW obj, NEW snap, NEW fields, NEW games, NEW after
    PROVE  /\ IsOp(Op(kind, obj, snap, fields, games, after))
           /\ Op(kind, obj, snap, fields, games, after).kind = kind
           /\ Op(kind, obj, snap, fields, games, after).obj = obj
BY DEF IsOp, Op

\* One that carries no snapshot.
LEMMA NewAsk ==
    ASSUME NEW kind, NEW obj, NEW games
    PROVE  /\ IsOp(Ask(kind, obj, games))
           /\ Ask(kind, obj, games).kind = kind /\ Ask(kind, obj, games).obj = obj
BY NewOp DEF Ask

\* The copies change as they may and valid operations are issued.
LEMMA Step ==
    ASSUME LobbyInv, Copies(objs'), CleanIn(objs', ops'), DOMAIN objs \subseteq DOMAIN objs',
           player' \in 0..Len(objs'),
           \A op \in ops' : op \in ops \/ ValidOp(op, DOMAIN objs')
    PROVE  LobbyInv'
<1>1. CleanIsCarried'
  BY DEF CleanIsCarried, CleanIn, Carries
<1> QED
  BY <1>1 DEF LobbyInv, ValidOp

\* No copy changes, and no flush is issued or called back.
LEMMA OpsStep ==
    ASSUME LobbyInv, objs' = objs, player' \in {0, player},
           \A op \in ops : op.kind = "flush" => op \in ops',
           \A op \in ops' : op \in ops \/ ValidOp(op, DOMAIN objs)
    PROVE  LobbyInv'
<1>1. CleanIn(objs', ops')
  BY CleanIs, OtherOps DEF LobbyInv
<1>2. player' \in 0..Len(objs') /\ DOMAIN objs \subseteq DOMAIN objs'
  BY CopyNumbers DEF LobbyInv
<1> QED
  BY <1>1, <1>2, Step DEF LobbyInv

\* A handler or callback changes a copy.
LEMMA ChangeStep ==
    ASSUME LobbyInv, NEW i \in DOMAIN objs, NEW d,
           objs' = [objs EXCEPT ![i] = Changed(@, d)], player' = player,
           \A op \in ops : op.kind = "flush" => op \in ops',
           \A op \in ops' : op \in ops \/ ValidOp(op, DOMAIN objs)
    PROVE  LobbyInv'
<1>1. CleanIn(objs, ops')
  BY CleanIs, OtherOps DEF LobbyInv
<1>2. Copies(objs') /\ CleanIn(objs', ops') /\ DOMAIN objs' = DOMAIN objs
  BY <1>1, ChangeClean DEF LobbyInv
<1>3. player' \in 0..Len(objs')
  BY <1>2, CopyNumbers DEF LobbyInv
<1> QED
  BY <1>2, <1>3, Step

\* flushPlayer of a copy, which the handler may have changed before.
LEMMA FlushStep ==
    ASSUME LobbyInv, NEW os, Copies(os), CleanIn(os, ops), DOMAIN os = DOMAIN objs,
           NEW i \in DOMAIN objs, NEW after, NEW games, NEW answered,
           IssueFlush(os, i, after, games, answered), player' = player,
           \A op \in answered : op.kind # "flush"
    PROVE  LobbyInv'
<1> DEFINE new == Op("flush", i, os[i].data, os[i].dirty, games, after)
<1>1. /\ ops' = (ops \ answered) \cup {new}
      /\ objs' = [os EXCEPT ![i] = ClearDirty(@)]
  BY DEF IssueFlush, Issue
<1>2. ValidOp(new, DOMAIN objs)
  BY NewOp DEF ValidOp
<1>3. Copies(objs') /\ CleanIn(objs', ops') /\ DOMAIN objs' = DOMAIN objs
  <2>1. /\ \A op \in ops : op.kind = "flush" => op \in ops'
        /\ Op("flush", i, os[i].data, os[i].dirty, games, after) \in ops'
        /\ i \in DOMAIN os
    BY <1>1
  <2>2. /\ Copies([os EXCEPT ![i] = ClearDirty(@)])
        /\ CleanIn([os EXCEPT ![i] = ClearDirty(@)], ops')
        /\ DOMAIN [os EXCEPT ![i] = ClearDirty(@)] = DOMAIN os
    BY <2>1, FlushClean
  <2> QED
    BY <1>1, <2>2
<1>4. player' \in 0..Len(objs')
  BY <1>3, CopyNumbers DEF LobbyInv
<1> HIDE DEF new
<1> QED
  BY <1>1, <1>2, <1>3, <1>4, Step

-----------------------------------------------------------------------------
(* The handlers and callbacks *)

\* Login asks for the document, or for nothing.
LEMMA LoginInv == ASSUME LobbyInv, Login PROVE LobbyInv'
<1>1. objs' = objs /\ player' = player
  BY DEF Login
<1>2. ops' = ops \/ ops' = ops \cup {Ask("load", logins', <<>>)}
  BY DEF Login, IssueNothing, Issue
<1>3. ValidOp(Ask("load", logins', <<>>), DOMAIN objs)
  BY NewAsk DEF ValidOp
<1> QED
  BY <1>1, <1>2, <1>3, OpsStep

\* The callback of Load makes a new copy, which is the resident one from then.
LEMMA LoadedInv == ASSUME LobbyInv, NEW op \in ops, Loaded(op) PROVE LobbyInv'
<1>1. op.kind = "load"
  BY DEF Loaded, Callback
<1>2. CASE op.phase = "error"
  <2>1. objs' = objs /\ player' = player /\ ops' = ops \ {op}
    BY <1>2 DEF Loaded, IssueNothing
  <2> QED
    BY <1>1, <2>1, OpsStep
<1>3. CASE op.phase # "error"
  <2>1. /\ objs' = Append(objs, [data |-> op.snap, dirty |-> {}, saved |-> Fields])
        /\ player' = Len(objs')
        /\ ops' = (ops \ {op}) \cup {Ask("replay", player', <<>>)}
    BY <1>3 DEF Loaded, Issue
  <2>2. CleanIn(objs, ops')
    <3>1. \A x \in ops : x.kind = "flush" => x \in ops'
      BY <1>1, <2>1
    <3> QED
      BY <3>1, CleanIs, OtherOps DEF LobbyInv
  <2>3. /\ Copies(objs') /\ CleanIn(objs', ops') /\ DOMAIN objs \subseteq DOMAIN objs'
        /\ player' \in DOMAIN objs'
    BY <2>1, <2>2, LoadClean DEF LobbyInv
  <2>4. ValidOp(Ask("replay", player', <<>>), DOMAIN objs')
    BY <2>3, NewAsk DEF ValidOp
  <2>5. player' \in 0..Len(objs')
    BY <2>3, CopyNumbers
  <2> QED
    BY <2>1, <2>3, <2>4, <2>5, Step
<1> QED
  BY <1>2, <1>3

\* The login of a copy ends: the friend_accept mails are asked for.
LEMMA LoginDoneInv ==
    ASSUME LobbyInv, NEW op \in ops, op.kind \notin {"load", "push", "flush"},
           LoginDone(op.obj, {op}), objs' = objs, player' = player
    PROVE  LobbyInv'
<1>1. ops' = (ops \ {op}) \cup {Ask("accepts", op.obj, <<>>)}
  BY DEF LoginDone, Issue
<1>2. ValidOp(Ask("accepts", op.obj, <<>>), DOMAIN objs)
  BY NewAsk DEF ValidOp, LobbyInv
<1> QED
  BY <1>1, <1>2, OpsStep

\* replayOffline changes the copy, then flushes it or has nothing to flush.
LEMMA OfflineLoadedInv == ASSUME LobbyInv, NEW op \in ops, OfflineLoaded(op) PROVE LobbyInv'
<1> DEFINE i == op.obj
           d == Replayed(objs[i].data, op.games)
           os == [objs EXCEPT ![i] = Changed(@, d)]
<1>1. op.kind = "replay" /\ player' = player
  BY DEF OfflineLoaded, Callback
<1>2. i \in DOMAIN objs
  BY <1>1 DEF LobbyInv, ValidOp
<1>3. CASE op.phase = "error" \/ op.games = <<>>
  <2>1. LoginDone(op.obj, {op}) /\ objs' = objs
    BY <1>3 DEF OfflineLoaded
  <2> QED
    BY <1>1, <2>1, LoginDoneInv
<1>4. CASE ~(op.phase = "error" \/ op.games = <<>>)
  <2>1. FlushThenAck(op)
    BY <1>4 DEF OfflineLoaded
  <2>2. [objs EXCEPT ![op.obj] = Changed(@, Replayed(@.data, op.games))] = os
    BY <1>2
  <2> HIDE DEF d
  <2>3. Copies(os) /\ CleanIn(os, ops) /\ DOMAIN os = DOMAIN objs
    BY <1>2, CleanIs, ChangeClean DEF LobbyInv
  <2>4. CASE os[op.obj].dirty = {}
    <3>1. objs' = os /\ ops' = (ops \ {op}) \cup {Ask("ack", op.obj, op.games)}
      BY <2>1, <2>2, <2>4 DEF FlushThenAck, Issue
    <3>2. ValidOp(Ask("ack", op.obj, op.games), DOMAIN objs)
      BY <1>2, NewAsk DEF ValidOp
    <3> QED
      BY <1>1, <1>2, <3>1, <3>2, ChangeStep
  <2>5. CASE os[op.obj].dirty # {}
    <3>1. IssueFlush(os, i, "ack", op.games, {op})
      BY <2>1, <2>2, <2>5 DEF FlushThenAck
    <3> HIDE DEF os, i
    <3> QED
      BY <1>1, <1>2, <2>3, <3>1, FlushStep
  <2> QED
    BY <2>4, <2>5
<1> QED
  BY <1>3, <1>4

\* scanFriendAccepts changes the copy of the login, resident or not.
LEMMA AcceptsLoadedInv == ASSUME LobbyInv, NEW op \in ops, AcceptsLoaded(op) PROVE LobbyInv'
<1>1. op.kind = "accepts" /\ player' = player
  BY DEF AcceptsLoaded, Callback
<1>2. op.obj \in DOMAIN objs
  BY <1>1 DEF LobbyInv, ValidOp
<1>3. CASE op.phase = "error" \/ op.fields = {}
  <2>1. objs' = objs /\ ops' = ops \ {op}
    BY <1>3 DEF AcceptsLoaded, IssueNothing
  <2> QED
    BY <1>1, <2>1, OpsStep
<1>4. CASE ~(op.phase = "error" \/ op.fields = {})
  <2>1. /\ objs' = [objs EXCEPT ![op.obj] =
                       Changed(@, [objs[op.obj].data EXCEPT !.friend = TRUE])]
        /\ ops' = (ops \ {op}) \cup {Ask("claim", op.obj, <<>>)}
    BY <1>2, <1>4 DEF AcceptsLoaded, Issue
  <2>2. ValidOp(Ask("claim", op.obj, <<>>), DOMAIN objs)
    BY <1>2, NewAsk DEF ValidOp
  <2> QED
    BY <1>1, <1>2, <2>1, <2>2, ChangeStep
<1> QED
  BY <1>3, <1>4

\* The callback of a flush, with whatever its caller asked to follow.
LEMMA FlushedInv == ASSUME LobbyInv, NEW op \in ops, Flushed(op) PROVE LobbyInv'
<1>1. op.kind = "flush" /\ objs' = [objs EXCEPT ![op.obj] = MarkDirty(@, op)]
  BY DEF Flushed, Callback
<1>2. op.obj \in DOMAIN objs
  BY <1>1 DEF LobbyInv, ValidOp
<1>3. PICK B : /\ ops' = (ops \ {op}) \cup B
               /\ B \subseteq {Ask("ack", op.obj, op.games), Ask("accepts", op.obj, <<>>)}
               /\ player' \in {0, player}
  <2>1. CASE op.after \in {"none", "drop"} /\ IssueNothing({op}) /\ player' \in {0, player}
    <3>1. ops' = (ops \ {op}) \cup {}
      BY <2>1 DEF IssueNothing
    <3> QED
      BY <2>1, <3>1
  <2>2. CASE AckOrLoginDone(op) /\ player' = player
    <3>1. \/ ops' = (ops \ {op}) \cup {Ask("ack", op.obj, op.games)}
          \/ ops' = (ops \ {op}) \cup {Ask("accepts", op.obj, <<>>)}
      BY <2>2 DEF AckOrLoginDone, LoginDone, Issue
    <3> QED
      BY <2>2, <3>1
  <2> QED
    BY <2>1, <2>2 DEF Flushed
<1>4. \A x \in B : ValidOp(x, DOMAIN objs)
  BY <1>2, <1>3, NewAsk DEF ValidOp
<1>5. Copies(objs') /\ CleanIn(objs', ops') /\ DOMAIN objs' = DOMAIN objs
  <2>1. \A x \in ops : x.kind = "flush" => x = op \/ x \in ops'
    BY <1>3
  <2> QED
    BY <1>1, <1>2, <2>1, CleanIs, DoneClean DEF LobbyInv
<1>6. player' \in 0..Len(objs')
  BY <1>3, <1>5, CopyNumbers DEF LobbyInv
<1> QED
  BY <1>3, <1>4, <1>5, <1>6, Step

\* What the ticks and Stop flush is the resident copy, if it is dirty.
LEMMA FlushResidentInv ==
    ASSUME LobbyInv, FlushResident, player' = player PROVE LobbyInv'
<1>1. CASE player # 0 /\ objs[player].dirty # {}
  <2>1. IssueFlush(objs, player, "none", <<>>, {})
    BY <1>1 DEF FlushResident
  <2>2. player \in DOMAIN objs
    BY <1>1, CopyNumbers DEF LobbyInv
  <2> QED
    BY <2>1, <2>2, CleanIs, FlushStep DEF LobbyInv
<1>2. CASE ~(player # 0 /\ objs[player].dirty # {})
  <2>1. objs' = objs /\ ops' = ops
    BY <1>2 DEF FlushResident, IssueNothing
  <2> QED
    BY <2>1, OpsStep
<1> QED
  BY <1>1, <1>2

\* Disconnect drops a clean copy at once and flushes a dirty one.
LEMMA DisconnectInv == ASSUME LobbyInv, Disconnect PROVE LobbyInv'
<1>1. player \in DOMAIN objs
  BY CopyNumbers DEF LobbyInv, Disconnect
<1>2. CASE objs[player].dirty # {}
  <2>1. IssueFlush(objs, player, "drop", <<>>, {}) /\ player' = player
    BY <1>2 DEF Disconnect
  <2> QED
    BY <1>1, <2>1, CleanIs, FlushStep DEF LobbyInv
<1>3. CASE objs[player].dirty = {}
  <2>1. objs' = objs /\ ops' = ops /\ player' = 0
    BY <1>3 DEF Disconnect, IssueNothing
  <2> QED
    BY <2>1, OpsStep
<1> QED
  BY <1>2, <1>3

\* Settle changes the resident copy or stores an offline message.
LEMMA SettleInv == ASSUME LobbyInv, NEW g \in Games, Settle(g) PROVE LobbyInv'
<1>1. player' = player
  BY DEF Settle
<1>2. CASE SettleOnline(g)
  <2>1. player \in DOMAIN objs /\ ops' = ops
    BY <1>2, CopyNumbers DEF LobbyInv, SettleOnline, IssueNothing
  <2>2. \/ objs' = objs
        \/ objs' = [objs EXCEPT ![player] = Changed(@, Settled(objs[player].data, g))]
    BY <1>2, <2>1 DEF SettleOnline
  <2> QED
    BY <1>1, <2>1, <2>2, OpsStep, ChangeStep
<1>3. CASE SettleOffline(g)
  <2>1. objs' = objs /\ ops' = ops \cup {Ask("push", settles'[g], <<g>>)}
    BY <1>3 DEF SettleOffline, Issue
  <2>2. ValidOp(Ask("push", settles'[g], <<g>>), DOMAIN objs)
    BY NewAsk DEF ValidOp
  <2> QED
    BY <1>1, <2>1, <2>2, OpsStep
<1> QED
  BY <1>2, <1>3 DEF Settle

\* The database executes an operation or fails: a flush carries what it did.
LEMMA ExecuteInv == ASSUME LobbyInv, NEW op \in ops, Execute(op) \/ Fail(op) PROVE LobbyInv'
<1>1. objs' = objs /\ player' = player
  BY DEF Execute, Fail
<1>2. PICK x : /\ ops' = (ops \ {op}) \cup {x}
               /\ x.kind = op.kind /\ x.obj = op.obj /\ IsOp(x)
               /\ op.kind = "flush" => x.fields = op.fields /\ x.snap = op.snap
  <2>1. PICK k, o, sn, fs, gs, af, ph :
            op = [kind |-> k, obj |-> o, snap |-> sn, fields |-> fs, games |-> gs,
                  after |-> af, phase |-> ph]
    BY DEF LobbyInv, ValidOp, IsOp
  <2>2. CASE Fail(op)
    <3> DEFINE x == [kind |-> k, obj |-> o, snap |-> sn, fields |-> fs, games |-> gs,
                     after |-> af, phase |-> "error"]
    <3>1. ops' = (ops \ {op}) \cup {x}
      BY <2>1, <2>2 DEF Fail
    <3>2. x.kind = op.kind /\ x.obj = op.obj /\ IsOp(x) /\ x.fields = op.fields /\ x.snap = op.snap
      BY <2>1 DEF IsOp
    <3> QED
      BY <3>1, <3>2
  <2>3. CASE Execute(op)
    <3>1. ops' = (ops \ {op}) \cup {Result(op)}
      BY <2>3 DEF Execute
    <3>2. /\ Result(op).kind = op.kind /\ Result(op).obj = op.obj /\ IsOp(Result(op))
          /\ op.kind = "flush" => Result(op).fields = op.fields /\ Result(op).snap = op.snap
      BY <2>1 DEF Result, IsOp
    <3> QED
      BY <3>1, <3>2
  <2> QED
    BY <2>2, <2>3
<1>3. CleanIn(objs, ops')
  <2>1. \A y \in ops : y.kind = "flush" =>
            \E z \in ops' : z.kind = "flush" /\ z.obj = y.obj /\ z.fields = y.fields
                                /\ z.snap = y.snap
    BY <1>2
  <2> QED
    BY <2>1, CleanIs, OtherOps DEF LobbyInv
<1>4. ValidOp(x, DOMAIN objs)
  BY <1>2 DEF LobbyInv, ValidOp
<1> QED
  BY <1>1, <1>2, <1>3, <1>4, Step DEF LobbyInv

\* A crash leaves neither copies nor operations.
LEMMA CrashInv == ASSUME Crash PROVE LobbyInv'
<1>1. objs' = <<>> /\ ops' = {} /\ player' = 0
  BY DEF Crash
<1>2. Copies(<<>>) /\ CleanIn(<<>>, {})
  BY DEF Copies, CleanIn
<1>3. CleanIsCarried'
  BY <1>1 DEF CleanIsCarried
<1> QED
  BY <1>1, <1>2, <1>3 DEF LobbyInv

\* Every step of the runtime keeps the invariant.
LEMMA NextLobbyInv == LobbyInv /\ [Next]_vars => LobbyInv'
<1> SUFFICES ASSUME LobbyInv, [Next]_vars PROVE LobbyInv'
  OBVIOUS
<1>1. ASSUME NEW op \in ops, Acked(op) PROVE LobbyInv'
  <2>1. op.kind = "ack" /\ LoginDone(op.obj, {op}) /\ objs' = objs /\ player' = player
    BY <1>1 DEF Acked, Callback
  <2> QED
    BY <2>1, LoginDoneInv
<1>2. ASSUME NEW op \in ops, Claimed(op) \/ Pushed(op) PROVE LobbyInv'
  <2>1. op.kind # "flush" /\ ops' = ops \ {op} /\ objs' = objs /\ player' = player
    BY <1>2 DEF Claimed, Pushed, Callback, IssueNothing
  <2> QED
    BY <2>1, OpsStep
<1>3. CASE RunCallback
  BY <1>1, <1>2, <1>3, LoadedInv, OfflineLoadedInv, AcceptsLoadedInv, FlushedInv DEF RunCallback
<1>4. CASE flushAllDirty \/ coalesceFlush \/ Stop
  BY <1>4, FlushResidentInv DEF flushAllDirty, coalesceFlush, Stop
<1>5. CASE FriendAccepts \/ Drained \/ DrainTimeout \/ UNCHANGED vars
  <2>1. objs' = objs /\ ops' = ops /\ player' = player
    BY <1>5 DEF FriendAccepts, Drained, DrainTimeout, Return, vars
  <2> QED
    BY <2>1, OpsStep
<1> QED
  BY <1>3, <1>4, <1>5, LoginInv, DisconnectInv, SettleInv, ExecuteInv, CrashInv DEF Next

\* A clean component is stored as it is, or a flush of it is under way: no
\* order of callbacks, failed flush, second login or crash makes flushPlayer
\* forget a change.
THEOREM CleanTheorem == Spec => []CleanIsCarried
<1>1. Init => LobbyInv
  <2> SUFFICES ASSUME Init PROVE LobbyInv
    OBVIOUS
  <2>1. Copies(objs)
    BY DEF Init, Copies
  <2> QED
    BY <2>1 DEF Init, LobbyInv, CleanIsCarried
<1>2. LobbyInv => CleanIsCarried
  BY DEF LobbyInv
<1> QED
  BY <1>1, <1>2, NextLobbyInv, PTL DEF Spec

-----------------------------------------------------------------------------
(* Induction and recursion over the rounds of a loop *)

\* A set of natural numbers has a least one.
LEMMA Least ==
    ASSUME NEW T, T \subseteq Nat, T # {}
    PROVE  \E n \in T : \A m \in T : n <= m
<1>1. IsWellFoundedOn(OpToRel(<, Nat), Nat)
  BY NatLessThanWellFounded
<1>2. PICK n \in T : \A m \in T : ~(<<m, n>> \in OpToRel(<, Nat))
  BY <1>1, WFMin, Zenon
<1>3. \A m \in T : ~(m < n)
  BY <1>2 DEF OpToRel
<1> QED
  BY <1>3

\* What holds of 0, and of each number of 1..N with the one before it, holds of
\* all numbers of 0..N.
LEMMA UpTo ==
    ASSUME NEW N \in Nat, NEW T, 0 \in T, \A n \in 1..N : n - 1 \in T => n \in T
    PROVE  0..N \subseteq T
<1> SUFFICES ASSUME (0..N) \ T # {} PROVE FALSE
  OBVIOUS
<1>1. PICK n \in (0..N) \ T : \A m \in (0..N) \ T : n <= m
  <2> DEFINE U == (0..N) \ T
  <2>1. U \subseteq Nat /\ U # {}
    OBVIOUS
  <2> HIDE DEF U
  <2>2. \E n \in U : \A m \in U : n <= m
    BY <2>1, Least
  <2> QED
    BY <2>2 DEF U
<1>2. n \in 1..N /\ n - 1 \in 0..N
  BY <1>1
<1>3. n - 1 \in T
  BY <1>1, <1>2
<1> QED
  BY <1>1, <1>2, <1>3

\* f follows a recursion: it starts with a, and step gives each value from the
\* one before.
Follows(f, N, a, step) == f[0] = a /\ \A k \in 1..N : f[k] = step[k][f[k - 1]]

\* Functions of 0..N may be defined by recursion.
LEMMA Recursion ==
    ASSUME NEW N \in Nat, NEW S, NEW a \in S, NEW step \in [1..N -> [S -> S]]
    PROVE  \E f \in [0..N -> S] : Follows(f, N, a, step)
<1> DEFINE T == {n \in 0..N : \E g \in [0..n -> S] : Follows(g, n, a, step)}
<1>1. 0 \in T
  <2> DEFINE g == [k \in 0..0 |-> a]
  <2>1. g \in [0..0 -> S] /\ Follows(g, 0, a, step)
    BY DEF Follows
  <2> HIDE DEF g
  <2> QED
    BY <2>1
<1>2. ASSUME NEW n \in 1..N, n - 1 \in T PROVE n \in T
  <2>1. PICK g \in [0..n-1 -> S] : Follows(g, n - 1, a, step)
    BY <1>2
  <2> DEFINE b == step[n][g[n - 1]]
             h == [k \in 0..n |-> IF k = n THEN b ELSE g[k]]
  <2>2. b \in S
    OBVIOUS
  <2>3. h \in [0..n -> S] /\ h[0] = a /\ h[n] = b /\ \A k \in 0..n-1 : h[k] = g[k]
    BY <2>1, <2>2 DEF Follows
  <2> HIDE DEF h
  <2>4. ASSUME NEW k \in 1..n PROVE h[k] = step[k][h[k - 1]]
    <3>1. k - 1 \in 0..n-1
      OBVIOUS
    <3>2. CASE k = n
      BY <2>3, <3>1, <3>2
    <3>3. CASE k # n
      BY <2>1, <2>3, <3>1, <3>3 DEF Follows
    <3> QED
      BY <3>2, <3>3
  <2>5. Follows(h, n, a, step)
    BY <2>3, <2>4 DEF Follows
  <2> QED
    BY <2>3, <2>5
<1> HIDE DEF T
<1>3. 0..N \subseteq T
  BY <1>1, <1>2, UpTo
<1> QED
  BY <1>3 DEF T

-----------------------------------------------------------------------------
(* Documents whose components are of given sets *)

DocsOf(C, B) == [currency : C, bag : B, friend : BOOLEAN]

\* The components of a new player are in C and B, and so is what the replay of
\* a message of M makes of one that is.
Closed(C, B, M) ==
    /\ NewPlayerDoc \in DocsOf(C, B)
    /\ \A g \in M : /\ \A c \in C : Spend(c, <<g, "spend">>) \in C
                    /\ \A b \in B : Add(b, g) \in B

\* The parts of a document.
LEMMA DocParts ==
    ASSUME NEW C, NEW B, NEW d \in DocsOf(C, B)
    PROVE  d.currency \in C /\ d.bag \in B /\ d.friend \in BOOLEAN
BY DEF DocsOf

\* A document with other components.
With(d, c, b) == [d EXCEPT !.currency = c, !.bag = b]
Befriended(d) == [d EXCEPT !.friend = TRUE]

\* One message applied.
LEMMA ApplySound ==
    ASSUME NEW C, NEW B, NEW M, Closed(C, B, M), NEW d \in DocsOf(C, B), NEW g \in M
    PROVE  /\ applyOfflineMsg(d, g) \in DocsOf(C, B)
           /\ applyOfflineMsg(d, g).bag.ops = d.bag.ops \cup {g}
<1> DEFINE c == Spend(d.currency, <<g, "spend">>)
           b == Add(d.bag, g)
<1>1. c \in C /\ b \in B
  BY DocParts DEF Closed
<1>2. b.ops = d.bag.ops \cup {g}
  BY DEF Add
<1>3. applyOfflineMsg(d, g) = With(d, c, b)
  BY Zenon DEF applyOfflineMsg, With
<1> HIDE DEF c, b
<1>4. With(d, c, b) \in DocsOf(C, B) /\ With(d, c, b).bag = b
  <2>1. ASSUME NEW x \in C, NEW y \in B
        PROVE  With(d, x, y) \in DocsOf(C, B) /\ With(d, x, y).bag = y
    BY DEF With, DocsOf
  <2> QED
    BY <1>1, <2>1
<1> QED
  BY <1>2, <1>3, <1>4

\* f holds the document after each of the messages.
Replaying(d, q, f) ==
    f = [n \in 0..Len(q) |-> IF n = 0 THEN d ELSE applyOfflineMsg(f[n - 1], q[n])]

\* The messages, one after the other.
LEMMA ReplayingExists ==
    ASSUME NEW C, NEW B, NEW M, Closed(C, B, M), NEW d \in DocsOf(C, B), NEW q \in Seq(M)
    PROVE  \E f : Replaying(d, q, f)
<1> DEFINE N == Len(q)
           S == DocsOf(C, B)
           step == [n \in 1..N |-> [x \in S |-> applyOfflineMsg(x, q[n])]]
<1>0. N \in Nat /\ \A n \in 1..N : q[n] \in M
  OBVIOUS
<1>1. step \in [1..N -> [S -> S]]
  <2>1. ASSUME NEW n \in 1..N, NEW x \in S PROVE applyOfflineMsg(x, q[n]) \in S
    BY <1>0, ApplySound
  <2> HIDE DEF S
  <2> QED
    BY <2>1
<1> HIDE DEF S
<1>2. PICK f \in [0..N -> S] : Follows(f, N, d, step)
  <2>1. d \in S
    BY DEF S
  <2> HIDE DEF step, N
  <2> QED
    BY <1>0, <1>1, <2>1, Recursion
<1>3. f = [n \in 0..N |-> IF n = 0 THEN d ELSE applyOfflineMsg(f[n - 1], q[n])]
  <2>1. f[0] = d
    BY <1>2 DEF Follows
  <2>2. ASSUME NEW n \in 1..N PROVE f[n] = applyOfflineMsg(f[n - 1], q[n])
    <3>1. f[n] = step[n][f[n - 1]]
      <4> HIDE DEF step
      <4> QED
        BY <1>2 DEF Follows
    <3>2. n - 1 \in 0..N
      BY <1>0
    <3>3. f[n - 1] \in S
      BY <3>2
    <3> QED
      BY <3>1, <3>3
  <2>3. \A n \in 0..N : n = 0 \/ n \in 1..N
    BY <1>0
  <2>4. \A n \in 0..N : f[n] = IF n = 0 THEN d ELSE applyOfflineMsg(f[n - 1], q[n])
    BY <1>0, <2>1, <2>2, <2>3
  <2> HIDE DEF N
  <2> QED
    BY <2>4
<1> QED
  BY <1>3 DEF Replaying

\* What a replay leaves is of the same sets, and holds the item of each message
\* besides those it held.
LEMMA ReplayedSound ==
    ASSUME NEW C, NEW B, NEW M, Closed(C, B, M), NEW d \in DocsOf(C, B), NEW q \in Seq(M)
    PROVE  /\ Replayed(d, q) \in DocsOf(C, B)
           /\ Replayed(d, q).bag.ops = d.bag.ops \cup Range(q)
<1> DEFINE f == CHOOSE g : Replaying(d, q, g)
<1>1. Replaying(d, q, f)
  BY ReplayingExists
<1>2. Replayed(d, q) = f[Len(q)]
  BY DEF Replayed, Replaying
<1> HIDE DEF f
<1>3. Len(q) \in Nat /\ DOMAIN q = 1..Len(q) /\ \A n \in 1..Len(q) : q[n] \in M
  OBVIOUS
<1> DEFINE T == {n \in 0..Len(q) :
                   f[n] \in DocsOf(C, B) /\ f[n].bag.ops = d.bag.ops \cup {q[k] : k \in 1..n}}
<1>4. 0 \in T
  <2>1. f[0] = d
    BY <1>1, <1>3 DEF Replaying
  <2>2. {q[k] : k \in 1..0} = {}
    OBVIOUS
  <2> QED
    BY <1>3, <2>1, <2>2
<1>5. ASSUME NEW n \in 1..Len(q), n - 1 \in T PROVE n \in T
  <2>1. f[n] = applyOfflineMsg(f[n - 1], q[n])
    BY <1>1, <1>3 DEF Replaying
  <2>2. f[n] \in DocsOf(C, B) /\ f[n].bag.ops = f[n - 1].bag.ops \cup {q[n]}
    BY <1>3, <1>5, <2>1, ApplySound
  <2>3. {q[k] : k \in 1..n} = {q[k] : k \in 1..n-1} \cup {q[n]}
    <3>1. \A k \in 1..n : k = n \/ k \in 1..n-1
      OBVIOUS
    <3> QED
      BY <3>1
  <2>4. f[n].bag.ops = d.bag.ops \cup {q[k] : k \in 1..n}
    BY <1>5, <2>2, <2>3
  <2> QED
    BY <1>3, <2>2, <2>4
<1>6. 0..Len(q) \subseteq T
  <2> HIDE DEF T
  <2> QED
    BY <1>3, <1>4, <1>5, UpTo
<1>7. Range(q) = {q[k] : k \in 1..Len(q)}
  BY <1>3 DEF Range
<1> QED
  BY <1>2, <1>3, <1>6, <1>7

-----------------------------------------------------------------------------
(* The offline document *)

\* f holds what is left of the first messages of q.
Removing(q, games, f) ==
    f = [n \in 0..Len(q) |-> IF n = 0 THEN <<>> ELSE KeepOther(f[n - 1], q[n], games)]

\* The messages, one after the other.
LEMMA RemovingExists ==
    ASSUME NEW M, NEW q \in Seq(M), NEW games
    PROVE  \E f : Removing(q, games, f)
<1> DEFINE N == Len(q)
           S == Seq(M)
           next(n, x) == KeepOther(x, q[n], games)
           step == [n \in 1..N |-> [x \in S |-> next(n, x)]]
<1>0. N \in Nat /\ (\A n \in 1..N : q[n] \in M) /\ <<>> \in S
  OBVIOUS
<1>1. step \in [1..N -> [S -> S]]
  <2>1. ASSUME NEW n \in 1..N, NEW x \in S PROVE next(n, x) \in S
    <3>1. Append(x, q[n]) \in S
      BY <1>0
    <3> QED
      BY <3>1 DEF KeepOther
  <2> HIDE DEF S, next
  <2> QED
    BY <2>1
<1> HIDE DEF S
<1>2. PICK f \in [0..N -> S] : Follows(f, N, <<>>, step)
  <2> HIDE DEF step, N
  <2> QED
    BY <1>0, <1>1, Recursion
<1>3. f = [n \in 0..N |-> IF n = 0 THEN <<>> ELSE next(n, f[n - 1])]
  <2> HIDE DEF next
  <2>1. f[0] = <<>>
    BY <1>2 DEF Follows
  <2>2. ASSUME NEW n \in 1..N PROVE f[n] = next(n, f[n - 1])
    <3>1. f[n] = step[n][f[n - 1]]
      <4> HIDE DEF step
      <4> QED
        BY <1>2 DEF Follows
    <3>2. n - 1 \in 0..N
      BY <1>0
    <3>3. f[n - 1] \in S
      BY <3>2
    <3> QED
      BY <3>1, <3>3
  <2>3. \A n \in 0..N : n = 0 \/ n \in 1..N
    BY <1>0
  <2>4. \A n \in 0..N : f[n] = IF n = 0 THEN <<>> ELSE next(n, f[n - 1])
    BY <1>0, <2>1, <2>2, <2>3
  <2> HIDE DEF N
  <2> QED
    BY <2>4
<1> QED
  BY <1>3 DEF Removing

\* $pull takes no message that is not acknowledged.
LEMMA RemoveAllFacts ==
    ASSUME NEW M, NEW q \in Seq(M), NEW games
    PROVE  /\ RemoveAll(q, games) \in Seq(M)
           /\ Range(q) \subseteq Range(RemoveAll(q, games)) \cup Range(games)
<1> DEFINE f == CHOOSE h : Removing(q, games, h)
<1>1. Removing(q, games, f)
  BY RemovingExists
<1>2. RemoveAll(q, games) = f[Len(q)]
  BY DEF RemoveAll, Removing
<1> HIDE DEF f
<1>3. Len(q) \in Nat /\ DOMAIN q = 1..Len(q) /\ \A n \in 1..Len(q) : q[n] \in M
  OBVIOUS
<1> DEFINE T == {n \in 0..Len(q) :
                   /\ f[n] \in Seq(M)
                   /\ \A k \in 1..n : q[k] \in Range(f[n]) \/ q[k] \in Range(games)}
<1>4. 0 \in T
  <2>1. f[0] = <<>>
    BY <1>1, <1>3 DEF Removing
  <2>2. (\A k \in 1..0 : FALSE) /\ 0 \in 0..Len(q) /\ <<>> \in Seq(M)
    BY <1>3
  <2>3. f[0] \in Seq(M) /\ \A k \in 1..0 : q[k] \in Range(f[0]) \/ q[k] \in Range(games)
    BY <2>1, <2>2
  <2> QED
    BY <2>2, <2>3
<1>5. ASSUME NEW n \in 1..Len(q), n - 1 \in T PROVE n \in T
  <2> DEFINE x == f[n - 1]
  <2>1. f[n] = IF q[n] \in Range(games) THEN x ELSE Append(x, q[n])
    <3>1. f[n] = KeepOther(x, q[n], games)
      BY <1>1, <1>3 DEF Removing
    <3> QED
      BY <3>1 DEF KeepOther
  <2>2. x \in Seq(M) /\ q[n] \in M /\ \A k \in 1..n-1 : q[k] \in Range(x) \/ q[k] \in Range(games)
    BY <1>3, <1>5
  <2> HIDE DEF x
  <2>3. \A k \in 1..n : k = n \/ k \in 1..n-1
    OBVIOUS
  <2>4. CASE q[n] \in Range(games)
    BY <1>3, <2>1, <2>2, <2>3, <2>4
  <2>5. CASE q[n] \notin Range(games)
    <3> DEFINE y == Append(x, q[n])
    <3>1. /\ y \in Seq(M) /\ DOMAIN x = 1..Len(x) /\ Len(x) \in Nat /\ DOMAIN y = 1..(Len(x) + 1)
          /\ y[Len(x) + 1] = q[n] /\ \A k \in 1..Len(x) : y[k] = x[k]
      BY <2>2
    <3>2. f[n] = y
      BY <2>1, <2>5
    <3> HIDE DEF y
    <3>3. Range(x) \subseteq Range(y) /\ q[n] \in Range(y)
      <4>1. DOMAIN x \subseteq DOMAIN y /\ Len(x) + 1 \in DOMAIN y
        BY <3>1
      <4> QED
        BY <3>1, <4>1 DEF Range
    <3> QED
      BY <1>3, <2>2, <2>3, <3>1, <3>2, <3>3
  <2> QED
    BY <2>4, <2>5
<1>6. 0..Len(q) \subseteq T
  <2> HIDE DEF T
  <2> QED
    BY <1>3, <1>4, <1>5, UpTo
<1>7. /\ f[Len(q)] \in Seq(M)
      /\ \A k \in 1..Len(q) : q[k] \in Range(f[Len(q)]) \/ q[k] \in Range(games)
  BY <1>3, <1>6
<1>8. Range(q) \subseteq Range(f[Len(q)]) \cup Range(games)
  BY <1>3, <1>7 DEF Range
<1> QED
  BY <1>2, <1>7, <1>8

\* $push takes no message.
LEMMA AppendNewFacts ==
    ASSUME NEW M, NEW q \in Seq(M), NEW g \in M
    PROVE  /\ AppendNew(q, g) \in Seq(M)
           /\ Range(q) \subseteq Range(AppendNew(q, g))
<1> DEFINE y == Append(q, g)
<1>1. /\ y \in Seq(M) /\ DOMAIN q = 1..Len(q) /\ Len(q) \in Nat /\ DOMAIN y = 1..(Len(q) + 1)
      /\ \A k \in 1..Len(q) : y[k] = q[k]
  OBVIOUS
<1>2. AppendNew(q, g) = IF g \in Range(q) THEN q ELSE y
  BY DEF AppendNew
<1> HIDE DEF y
<1>3. Range(q) \subseteq Range(y)
  <2>1. DOMAIN q \subseteq DOMAIN y
    BY <1>1
  <2> QED
    BY <1>1, <2>1 DEF Range
<1> QED
  BY <1>1, <1>2, <1>3

-----------------------------------------------------------------------------
(* Where currencies, bags and messages go *)

\* Every currency that is somewhere in the system is in C, every bag in B, and
\* every message in M.
Within(C, B, M) ==
    /\ doc \in DocsOf(C, B)
    /\ offline \in Seq(M)
    /\ \A i \in DOMAIN objs : objs[i].data \in DocsOf(C, B)
    /\ \A op \in ops : /\ op.snap \in DocsOf(C, B)
                       /\ op.games \in Seq(M)
                       /\ op.kind = "push" => op.games # <<>>

\* What the database does to the documents.
LEMMA EffectSound ==
    ASSUME NEW C, NEW B, NEW M, Within(C, B, M), NEW op \in ops, Effect(op)
    PROVE  /\ doc' \in DocsOf(C, B) /\ offline' \in Seq(M)
           /\ doc'.bag = IF op.kind = "flush" /\ "bag" \in op.fields THEN op.snap.bag ELSE doc.bag
<1>1. doc \in DocsOf(C, B) /\ op.snap \in DocsOf(C, B)
  BY DEF Within
<1>2. CASE op.kind = "flush"
  <2> DEFINE d == [f \in Fields |-> IF f \in op.fields THEN op.snap[f] ELSE doc[f]]
  <2>1. doc' = d
    BY <1>2 DEF Effect
  <2>2. d \in DocsOf(C, B) /\ d.bag = IF "bag" \in op.fields THEN op.snap.bag ELSE doc.bag
    BY <1>1 DEF DocsOf, Fields
  <2>3. offline' = offline
    BY <1>2 DEF Effect
  <2> QED
    BY <1>2, <2>1, <2>2, <2>3 DEF Within
<1>3. CASE op.kind # "flush"
  <2>1. doc' = doc
    BY <1>3 DEF Effect
  <2>2. offline' \in Seq(M)
    <3>1. CASE op.kind = "push"
      <4>1. offline' = AppendNew(offline, op.games[1])
        BY <3>1 DEF Effect
      <4>2. op.games[1] \in M /\ offline \in Seq(M)
        BY <3>1 DEF Within
      <4> QED
        BY <4>1, <4>2, AppendNewFacts
    <3>2. CASE op.kind = "ack"
      <4>1. offline' = RemoveAll(offline, op.games) /\ offline \in Seq(M)
        BY <3>2 DEF Effect, Within
      <4> QED
        BY <4>1, RemoveAllFacts
    <3>3. CASE op.kind \notin {"push", "ack"}
      BY <3>3 DEF Effect, Within
    <3> QED
      BY <3>1, <3>2, <3>3
  <2> QED
    BY <1>1, <1>3, <2>1, <2>2
<1> QED
  BY <1>2, <1>3

-----------------------------------------------------------------------------
(* What the steps do to the copies and the operations *)

\* The content of the copies stays, or that of the copy i becomes d.
SameData(os, qs) == DOMAIN qs = DOMAIN os /\ \A i \in DOMAIN os : qs[i].data = os[i].data
OneData(os, qs, i, d) ==
    /\ DOMAIN qs = DOMAIN os
    /\ qs[i].data = d
    /\ \A j \in DOMAIN os \ {i} : qs[j].data = os[j].data

\* flushPlayer and the callback of a flush only touch the flags.
LEMMA FlagsData ==
    ASSUME NEW os, Copies(os), NEW i \in DOMAIN os, NEW op
    PROVE  /\ SameData(os, [os EXCEPT ![i] = ClearDirty(@)])
           /\ SameData(os, [os EXCEPT ![i] = MarkDirty(@, op)])
<1>1. Copy(os[i])
  BY DEF Copies
<1>2. ClearDirty(os[i]).data = os[i].data
  BY <1>1, CopyExcept DEF ClearDirty
<1>3. MarkDirty(os[i], op).data = os[i].data
  BY <1>1, CopyExcept DEF MarkDirty
<1> QED
  BY <1>2, <1>3 DEF SameData

\* A change is a change of one copy.
LEMMA ChangedData ==
    ASSUME NEW os, NEW i \in DOMAIN os, NEW d
    PROVE  /\ OneData(os, [os EXCEPT ![i] = Changed(@, d)], i, d)
           /\ \A f \in Fields :
                 f \notin [os EXCEPT ![i] = Changed(@, d)][i].dirty => d[f] = os[i].data[f]
<1>1. /\ Changed(os[i], d).data = d
      /\ \A f \in Fields : f \notin Changed(os[i], d).dirty => d[f] = os[i].data[f]
  BY DEF Changed
<1> QED
  BY <1>1 DEF OneData

\* A new operation that speaks of no message.
Plain(x) ==
    /\ x.kind \notin {"push", "replay"} /\ x.phase = "sent" /\ x.games = <<>>
    /\ x.snap = NewPlayerDoc \/ \E i \in DOMAIN objs : x.snap = objs[i].data

\* The Ack after a flush that has succeeded.
AckAfter(x, op) ==
    /\ op.kind = "flush" /\ op.phase = "ok"
    /\ x.kind = "ack" /\ x.obj = op.obj /\ x.games = op.games /\ x.snap = NewPlayerDoc

QuietStep ==
    /\ SameData(objs, objs')
    /\ UNCHANGED <<doc, offline, landed>>
    /\ \A x \in ops' : x \in ops \/ Plain(x) \/ \E op \in ops : AckAfter(x, op)

PushStep(g) ==
    /\ SameData(objs, objs')
    /\ UNCHANGED <<doc, offline, landed>>
    /\ \A x \in ops' : \/ x \in ops
                       \/ x.kind = "push" /\ x.games = <<g>> /\ x.snap = NewPlayerDoc

OnlineStep(g) ==
    /\ player \in DOMAIN objs
    /\ OneData(objs, objs', player, Settled(objs[player].data, g))
    /\ UNCHANGED <<doc, offline, landed, ops>>

LoadStep(op) ==
    /\ op.kind = "load" /\ op.phase \notin {"sent", "error"}
    /\ DOMAIN objs' = DOMAIN objs \cup {player'} /\ player' \notin DOMAIN objs
    /\ objs'[player'].data = op.snap
    /\ \A i \in DOMAIN objs : objs'[i].data = objs[i].data
    /\ UNCHANGED <<doc, offline, landed>>
    /\ \A x \in ops' : \/ x \in ops
                       \/ /\ x.kind = "replay" /\ x.obj = player' /\ x.games = <<>>
                          /\ x.snap = NewPlayerDoc
    /\ \A x, y \in ops' : x \notin ops /\ y \notin ops => x = y

AcceptStep(op) ==
    /\ op.obj \in DOMAIN objs
    /\ OneData(objs, objs', op.obj, Befriended(objs[op.obj].data))
    /\ UNCHANGED <<doc, offline, landed>>
    /\ \A x \in ops' : x \in ops \/ Plain(x)

\* The new operation of a replay carries the bag, or the replay has not
\* changed the bag.
ReplayStep(op) ==
    LET i == op.obj
        d == Replayed(objs[i].data, op.games)
    IN  /\ op.kind = "replay"
        /\ i \in DOMAIN objs
        /\ OneData(objs, objs', i, d)
        /\ UNCHANGED <<doc, offline, landed>>
        /\ \A x \in ops' :
              \/ x \in ops \ {op}
              \/ /\ x.kind \in {"ack", "flush"} /\ x.obj = i /\ x.games = op.games
                 /\ x.phase = "sent" /\ x.snap \in {NewPlayerDoc, d}
                 /\ \/ x.kind = "flush" /\ "bag" \in x.fields /\ x.snap = d
                    \/ d.bag = objs[i].data.bag

\* A new operation of an action.
LEMMA OpParts ==
    ASSUME NEW kind, NEW obj, NEW snap, NEW fields, NEW games, NEW after
    PROVE  LET x == Op(kind, obj, snap, fields, games, after)
           IN  /\ x.kind = kind /\ x.obj = obj /\ x.snap = snap /\ x.fields = fields
               /\ x.games = games /\ x.phase = "sent"
BY DEF Op

\* One that carries no snapshot.
LEMMA AskParts ==
    ASSUME NEW kind, NEW obj, NEW games
    PROVE  LET x == Ask(kind, obj, games)
           IN  /\ x.kind = kind /\ x.obj = obj /\ x.snap = NewPlayerDoc
               /\ x.games = games /\ x.phase = "sent"
BY OpParts DEF Ask

\* A flush that speaks of no message is a quiet step.
LEMMA FlushQuiet ==
    ASSUME LobbyInv, NEW i \in DOMAIN objs, NEW after, IssueFlush(objs, i, after, <<>>, {}),
           UNCHANGED <<doc, offline, landed>>
    PROVE  QuietStep
<1> DEFINE new == Op("flush", i, objs[i].data, objs[i].dirty, <<>>, after)
<1>1. ops' = ops \cup {new} /\ objs' = [objs EXCEPT ![i] = ClearDirty(@)]
  BY DEF IssueFlush, Issue
<1>2. Plain(new)
  <2>1. new.kind = "flush" /\ new.phase = "sent" /\ new.games = <<>> /\ new.snap = objs[i].data
    BY OpParts
  <2> HIDE DEF new
  <2> QED
    BY <2>1 DEF Plain
<1> HIDE DEF new
<1>3. SameData(objs, objs')
  BY <1>1, FlagsData DEF LobbyInv
<1> QED
  BY <1>1, <1>2, <1>3 DEF QuietStep

\* No copy changes.
LEMMA SameObjs == ASSUME objs' = objs PROVE SameData(objs, objs')
BY DEF SameData

\* The ticks and Stop.
LEMMA FlushResidentShape ==
    ASSUME LobbyInv, FlushResident, UNCHANGED <<doc, offline, landed>> PROVE QuietStep
<1>1. CASE player # 0 /\ objs[player].dirty # {}
  <2>1. IssueFlush(objs, player, "none", <<>>, {})
    BY <1>1 DEF FlushResident
  <2>2. player \in DOMAIN objs
    BY <1>1, CopyNumbers DEF LobbyInv
  <2> QED
    BY <2>1, <2>2, FlushQuiet
<1>2. CASE ~(player # 0 /\ objs[player].dirty # {})
  <2>1. objs' = objs /\ ops' = ops
    BY <1>2 DEF FlushResident, IssueNothing
  <2> QED
    BY <2>1, SameObjs DEF QuietStep
<1> QED
  BY <1>1, <1>2

\* Disconnect.
LEMMA DisconnectShape == ASSUME LobbyInv, Disconnect PROVE QuietStep
<1>1. player \in DOMAIN objs /\ UNCHANGED <<doc, offline, landed>>
  BY CopyNumbers DEF LobbyInv, Disconnect, Handler
<1>2. CASE objs[player].dirty # {}
  <2>1. IssueFlush(objs, player, "drop", <<>>, {})
    BY <1>2 DEF Disconnect
  <2> QED
    BY <1>1, <2>1, FlushQuiet
<1>3. CASE objs[player].dirty = {}
  <2>1. objs' = objs /\ ops' = ops
    BY <1>3 DEF Disconnect, IssueNothing
  <2> QED
    BY <1>1, <2>1, SameObjs DEF QuietStep
<1> QED
  BY <1>2, <1>3

\* The plain questions to the stores.
LEMMA AskPlain ==
    ASSUME NEW kind, kind \notin {"push", "replay"}, NEW obj
    PROVE  Plain(Ask(kind, obj, <<>>))
<1> DEFINE x == Ask(kind, obj, <<>>)
<1>1. x.kind = kind /\ x.phase = "sent" /\ x.games = <<>> /\ x.snap = NewPlayerDoc
  BY AskParts
<1> HIDE DEF x
<1>2. Plain(x)
  BY <1>1 DEF Plain
<1> QED
  BY <1>2 DEF x

\* Login.
LEMMA LoginShape == ASSUME Login PROVE QuietStep
<1>1. objs' = objs /\ UNCHANGED <<doc, offline, landed>>
  BY DEF Login, Handler
<1>2. ops' = ops \/ ops' = ops \cup {Ask("load", logins', <<>>)}
  BY DEF Login, IssueNothing, Issue
<1>3. Plain(Ask("load", logins', <<>>))
  BY AskPlain
<1> QED
  BY <1>1, <1>2, <1>3, SameObjs DEF QuietStep

\* The end of a login.
LEMMA LoginDoneShape ==
    ASSUME NEW op, LoginDone(op.obj, {op}), objs' = objs, UNCHANGED <<doc, offline, landed>>
    PROVE  QuietStep
<1>1. ops' = (ops \ {op}) \cup {Ask("accepts", op.obj, <<>>)}
  BY DEF LoginDone, Issue
<1>2. Plain(Ask("accepts", op.obj, <<>>))
  BY AskPlain
<1> QED
  BY <1>1, <1>2, SameObjs DEF QuietStep

\* The callback of Load.
LEMMA LoadedShape ==
    ASSUME LobbyInv, NEW op \in ops, Loaded(op) PROVE QuietStep \/ LoadStep(op)
<1>1. op.kind = "load" /\ op.phase # "sent" /\ UNCHANGED <<doc, offline, landed>>
  BY DEF Loaded, Callback
<1>2. CASE op.phase = "error"
  <2>1. objs' = objs /\ ops' = ops \ {op}
    BY <1>2 DEF Loaded, IssueNothing
  <2> QED
    BY <1>1, <2>1, SameObjs DEF QuietStep
<1>3. CASE op.phase # "error"
  <2> DEFINE o == [data |-> op.snap, dirty |-> {}, saved |-> Fields]
             new == Ask("replay", player', <<>>)
  <2>1. objs' = Append(objs, o) /\ player' = Len(objs') /\ ops' = (ops \ {op}) \cup {new}
    BY <1>3 DEF Loaded, Issue
  <2>2. o.data = op.snap
    OBVIOUS
  <2>3. new.kind = "replay" /\ new.obj = player' /\ new.games = <<>> /\ new.snap = NewPlayerDoc
    BY AskParts
  <2> HIDE DEF o, new
  <2>4. /\ Len(objs) \in Nat /\ DOMAIN objs = 1..Len(objs)
        /\ Len(objs') = Len(objs) + 1 /\ DOMAIN objs' = 1..(Len(objs) + 1)
        /\ objs'[Len(objs) + 1] = o /\ \A i \in DOMAIN objs : objs'[i] = objs[i]
    <3>1. PICK S : objs \in Seq(S) /\ o \in S
      <4> DEFINE S == {objs[i] : i \in DOMAIN objs} \cup {o}
      <4>1. Len(objs) \in Nat /\ objs \in [1..Len(objs) -> S]
        BY DEF Copies, LobbyInv
      <4>2. o \in S
        OBVIOUS
      <4> HIDE DEF S
      <4>3. objs \in Seq(S)
        BY <4>1
      <4> QED
        BY <4>2, <4>3
    <3> QED
      BY <2>1, <3>1
  <2>5. /\ DOMAIN objs' = DOMAIN objs \cup {player'} /\ player' \notin DOMAIN objs
        /\ objs'[player'].data = op.snap
        /\ \A i \in DOMAIN objs : objs'[i].data = objs[i].data
    BY <2>1, <2>2, <2>4
  <2> QED
    BY <1>1, <1>3, <2>1, <2>3, <2>5 DEF LoadStep
<1> QED
  BY <1>2, <1>3

\* replayOffline with the messages.
LEMMA OfflineLoadedShape ==
    ASSUME LobbyInv, NEW op \in ops, OfflineLoaded(op) PROVE QuietStep \/ ReplayStep(op)
<1> DEFINE i == op.obj
           d == Replayed(objs[i].data, op.games)
           os == [objs EXCEPT ![i] = Changed(@, d)]
<1>1. op.kind = "replay" /\ UNCHANGED <<doc, offline, landed>>
  BY DEF OfflineLoaded, Callback
<1>2. i \in DOMAIN objs
  BY <1>1 DEF LobbyInv, ValidOp
<1>3. CASE op.phase = "error" \/ op.games = <<>>
  <2>1. LoginDone(op.obj, {op}) /\ objs' = objs
    BY <1>3 DEF OfflineLoaded
  <2> QED
    BY <1>1, <2>1, LoginDoneShape
<1>4. CASE ~(op.phase = "error" \/ op.games = <<>>)
  <2>1. FlushThenAck(op)
    BY <1>4 DEF OfflineLoaded
  <2>2. [objs EXCEPT ![op.obj] = Changed(@, Replayed(@.data, op.games))] = os
    BY <1>2
  <2>3. d = Replayed(objs[op.obj].data, op.games)
    OBVIOUS
  <2> HIDE DEF d
  <2>4. /\ OneData(objs, os, i, d)
        /\ "bag" \notin os[i].dirty => d.bag = objs[i].data.bag
    <3>1. /\ OneData(objs, os, i, d)
          /\ \A f \in Fields : f \notin os[i].dirty => d[f] = objs[i].data[f]
      BY <1>2, ChangedData
    <3> HIDE DEF os
    <3> QED
      BY <3>1 DEF Fields
  <2>5. Copies(os)
    BY <1>2, CleanIs, ChangeClean DEF LobbyInv
  <2>6. CASE os[op.obj].dirty = {}
    <3> DEFINE new == Ask("ack", op.obj, op.games)
    <3>1. objs' = os /\ ops' = (ops \ {op}) \cup {new}
      BY <2>1, <2>2, <2>6 DEF FlushThenAck, Issue
    <3>2. new.kind = "ack" /\ new.obj = i /\ new.games = op.games /\ new.phase = "sent"
              /\ new.snap = NewPlayerDoc
      BY AskParts
    <3>3. d.bag = objs[i].data.bag
      BY <2>4, <2>6
    <3>4. OneData(objs, objs', i, d)
      BY <2>4, <3>1
    <3> HIDE DEF new, os
    <3> QED
      BY <1>1, <1>2, <2>3, <3>1, <3>2, <3>3, <3>4 DEF ReplayStep
  <2>7. CASE os[op.obj].dirty # {}
    <3> DEFINE new == Op("flush", i, os[i].data, os[i].dirty, op.games, "ack")
    <3>1. IssueFlush(os, i, "ack", op.games, {op})
      BY <2>1, <2>2, <2>7 DEF FlushThenAck
    <3>2. ops' = (ops \ {op}) \cup {new} /\ objs' = [os EXCEPT ![i] = ClearDirty(@)]
      BY <3>1 DEF IssueFlush, Issue
    <3>3. new.kind = "flush" /\ new.obj = i /\ new.games = op.games /\ new.phase = "sent"
              /\ new.snap = os[i].data /\ new.fields = os[i].dirty
      BY OpParts
    <3> HIDE DEF new, os
    <3>4. SameData(os, objs')
      BY <1>2, <2>4, <2>5, <3>2, FlagsData DEF OneData
    <3>5. OneData(objs, objs', i, d) /\ os[i].data = d
      BY <1>2, <2>4, <3>4 DEF OneData, SameData
    <3> QED
      BY <1>1, <1>2, <2>3, <2>4, <3>2, <3>3, <3>5 DEF ReplayStep
  <2> QED
    BY <2>6, <2>7
<1> QED
  BY <1>3, <1>4

\* scanFriendAccepts.
LEMMA AcceptsLoadedShape ==
    ASSUME LobbyInv, NEW op \in ops, AcceptsLoaded(op) PROVE QuietStep \/ AcceptStep(op)
<1>1. op.kind = "accepts" /\ UNCHANGED <<doc, offline, landed>>
  BY DEF AcceptsLoaded, Callback
<1>2. op.obj \in DOMAIN objs
  BY <1>1 DEF LobbyInv, ValidOp
<1>3. CASE op.phase = "error" \/ op.fields = {}
  <2>1. objs' = objs /\ ops' = ops \ {op}
    BY <1>3 DEF AcceptsLoaded, IssueNothing
  <2> QED
    BY <1>1, <2>1, SameObjs DEF QuietStep
<1>4. CASE ~(op.phase = "error" \/ op.fields = {})
  <2> DEFINE d == Befriended(objs[op.obj].data)
  <2>1. /\ objs' = [objs EXCEPT ![op.obj] = Changed(@, d)]
        /\ ops' = (ops \ {op}) \cup {Ask("claim", op.obj, <<>>)}
    BY <1>2, <1>4 DEF AcceptsLoaded, Issue, Befriended
  <2>2. Plain(Ask("claim", op.obj, <<>>))
    BY AskPlain
  <2> HIDE DEF d
  <2>3. OneData(objs, objs', op.obj, d)
    BY <1>2, <2>1, ChangedData
  <2> QED
    BY <1>1, <1>2, <2>1, <2>2, <2>3 DEF AcceptStep, d
<1> QED
  BY <1>3, <1>4

\* The callback of a flush.
LEMMA FlushedShape == ASSUME LobbyInv, NEW op \in ops, Flushed(op) PROVE QuietStep
<1>1. /\ op.kind = "flush" /\ objs' = [objs EXCEPT ![op.obj] = MarkDirty(@, op)]
      /\ UNCHANGED <<doc, offline, landed>>
  BY DEF Flushed, Callback
<1>2. op.obj \in DOMAIN objs
  BY <1>1 DEF LobbyInv, ValidOp
<1>3. SameData(objs, objs')
  BY <1>1, <1>2, FlagsData DEF LobbyInv
<1>4. CASE IssueNothing({op})
  BY <1>1, <1>3, <1>4 DEF QuietStep, IssueNothing
<1>5. CASE AckOrLoginDone(op)
  <2>1. CASE op.phase = "ok"
    <3> DEFINE new == Ask("ack", op.obj, op.games)
    <3>1. ops' = (ops \ {op}) \cup {new}
      BY <1>5, <2>1 DEF AckOrLoginDone, Issue
    <3>2. AckAfter(new, op)
      <4>1. new.kind = "ack" /\ new.obj = op.obj /\ new.games = op.games /\ new.snap = NewPlayerDoc
        BY AskParts
      <4> HIDE DEF new
      <4> QED
        BY <1>1, <2>1, <4>1 DEF AckAfter
    <3> HIDE DEF new
    <3> QED
      BY <1>1, <1>3, <3>1, <3>2 DEF QuietStep
  <2>2. CASE op.phase # "ok"
    <3>1. ops' = (ops \ {op}) \cup {Ask("accepts", op.obj, <<>>)}
      BY <1>5, <2>2 DEF AckOrLoginDone, LoginDone, Issue
    <3>2. Plain(Ask("accepts", op.obj, <<>>))
      BY AskPlain
    <3> QED
      BY <1>1, <1>3, <3>1, <3>2 DEF QuietStep
  <2> QED
    BY <2>1, <2>2
<1> QED
  BY <1>4, <1>5 DEF Flushed

\* Settle.
LEMMA SettleShape ==
    ASSUME LobbyInv, NEW g \in Games, Settle(g)
    PROVE  \/ QuietStep
           \/ SettleOnline(g) /\ OnlineStep(g)
           \/ SettleOffline(g) /\ PushStep(g)
<1>1. UNCHANGED <<doc, offline, landed>>
  BY DEF Settle, Handler
<1>2. CASE SettleOnline(g)
  <2>1. player \in DOMAIN objs /\ ops' = ops
    BY <1>2, CopyNumbers DEF LobbyInv, SettleOnline, IssueNothing
  <2> DEFINE d == Settled(objs[player].data, g)
  <2>2. \/ objs' = objs
        \/ objs' = [objs EXCEPT ![player] = Changed(@, d)]
    BY <1>2, <2>1 DEF SettleOnline
  <2> HIDE DEF d
  <2>3. CASE objs' = objs
    BY <1>1, <2>1, <2>3, SameObjs DEF QuietStep
  <2>4. CASE objs' = [objs EXCEPT ![player] = Changed(@, d)]
    <3>1. OneData(objs, objs', player, d)
      BY <2>1, <2>4, ChangedData
    <3> QED
      BY <1>1, <1>2, <2>1, <3>1 DEF OnlineStep, d
  <2> QED
    BY <2>2, <2>3, <2>4
<1>3. CASE SettleOffline(g)
  <2> DEFINE new == Ask("push", settles'[g], <<g>>)
  <2>1. objs' = objs /\ ops' = ops \cup {new}
    BY <1>3 DEF SettleOffline, Issue
  <2>2. new.kind = "push" /\ new.games = <<g>> /\ new.snap = NewPlayerDoc
    BY AskParts
  <2> HIDE DEF new
  <2> QED
    BY <1>1, <1>3, <2>1, <2>2, SameObjs DEF PushStep
<1> QED
  BY <1>2, <1>3 DEF Settle

\* A step is one of these, a step of the database, or a crash; settles counts
\* the deliveries.
LEMMA NextShape ==
    ASSUME LobbyInv, [Next]_vars
    PROVE  \/ /\ settles' = settles
              /\ \/ QuietStep
                 \/ \E op \in ops : \/ LoadStep(op) \/ ReplayStep(op) \/ AcceptStep(op)
                                    \/ Execute(op) \/ Fail(op)
                 \/ Crash
           \/ \E g \in Games :
                 /\ settles' = [settles EXCEPT ![g] = @ + 1]
                 /\ \/ QuietStep
                    \/ SettleOnline(g) /\ OnlineStep(g)
                    \/ SettleOffline(g) /\ PushStep(g)
<1>1. ASSUME NEW op \in ops, Acked(op) PROVE QuietStep
  <2>1. LoginDone(op.obj, {op}) /\ objs' = objs /\ UNCHANGED <<doc, offline, landed>>
    BY <1>1 DEF Acked, Callback
  <2> QED
    BY <2>1, LoginDoneShape
<1>2. ASSUME NEW op \in ops, Claimed(op) \/ Pushed(op) PROVE QuietStep
  <2>1. ops' = ops \ {op} /\ objs' = objs /\ UNCHANGED <<doc, offline, landed>>
    BY <1>2 DEF Claimed, Pushed, Callback, IssueNothing
  <2> QED
    BY <2>1, SameObjs DEF QuietStep
<1>3. CASE RunCallback
  <2>1. PICK op \in ops : \/ Loaded(op) \/ OfflineLoaded(op) \/ Acked(op)
                          \/ AcceptsLoaded(op) \/ Claimed(op) \/ Flushed(op) \/ Pushed(op)
    BY <1>3 DEF RunCallback
  <2>2. settles' = settles
    BY <2>1 DEF Loaded, OfflineLoaded, Acked, AcceptsLoaded, Claimed, Flushed, Pushed, Callback
  <2>3. QuietStep \/ LoadStep(op) \/ ReplayStep(op) \/ AcceptStep(op)
    BY <1>1, <1>2, <2>1, LoadedShape, OfflineLoadedShape, AcceptsLoadedShape, FlushedShape
  <2> QED
    BY <2>2, <2>3
<1>4. CASE flushAllDirty \/ coalesceFlush \/ Stop
  <2>1. settles' = settles /\ UNCHANGED <<doc, offline, landed>> /\ FlushResident
    BY <1>4 DEF flushAllDirty, coalesceFlush, Stop, Handler
  <2> QED
    BY <2>1, FlushResidentShape
<1>5. CASE FriendAccepts \/ Drained \/ DrainTimeout \/ UNCHANGED vars
  <2>1. objs' = objs /\ ops' = ops /\ settles' = settles /\ UNCHANGED <<doc, offline, landed>>
    BY <1>5 DEF FriendAccepts, Drained, DrainTimeout, Return, vars
  <2> QED
    BY <2>1, SameObjs DEF QuietStep
<1>6. CASE Login \/ Disconnect
  <2>1. settles' = settles
    BY <1>6 DEF Login, Disconnect
  <2> QED
    BY <1>6, <2>1, LoginShape, DisconnectShape
<1>7. ASSUME NEW g \in Games, Settle(g)
      PROVE  settles' = [settles EXCEPT ![g] = @ + 1]
  BY <1>7 DEF Settle
<1>8. ASSUME NEW op \in ops, Execute(op) \/ Fail(op) PROVE settles' = settles
  BY <1>8 DEF Execute, Fail
<1>9. Crash => settles' = settles
  BY DEF Crash
<1> QED
  BY <1>3, <1>4, <1>5, <1>6, <1>7, <1>8, <1>9, SettleShape DEF Next

-----------------------------------------------------------------------------
(* Where currencies, bags and messages go *)

\* An online settlement of g leads from C and B to C and B.
OpenTo(C, B, g) == /\ \A c \in C : Spend(c, <<g, "settle">>) \in C
                   /\ \A b \in B : Add(b, g) \in B

\* One settlement applied.
LEMMA SettledSound ==
    ASSUME NEW C, NEW B, NEW g, OpenTo(C, B, g), NEW d \in DocsOf(C, B)
    PROVE  /\ Settled(d, g) \in DocsOf(C, B)
           /\ Settled(d, g).bag.ops = d.bag.ops \cup {g}
<1> DEFINE c == Spend(d.currency, <<g, "settle">>)
           b == Add(d.bag, g)
<1>1. c \in C /\ b \in B
  BY DocParts DEF OpenTo
<1>2. b.ops = d.bag.ops \cup {g}
  BY DEF Add
<1>3. Settled(d, g) = With(d, c, b)
  BY Zenon DEF Settled, With
<1> HIDE DEF c, b
<1>4. With(d, c, b) \in DocsOf(C, B) /\ With(d, c, b).bag = b
  <2>1. ASSUME NEW x \in C, NEW y \in B
        PROVE  With(d, x, y) \in DocsOf(C, B) /\ With(d, x, y).bag = y
    BY DEF With, DocsOf
  <2> QED
    BY <1>1, <2>1
<1> QED
  BY <1>2, <1>3, <1>4

\* A new friend.
LEMMA BefriendedSound ==
    ASSUME NEW C, NEW B, NEW d \in DocsOf(C, B)
    PROVE  Befriended(d) \in DocsOf(C, B) /\ Befriended(d).bag = d.bag
BY DEF Befriended, DocsOf

\* What an executed operation and a failed one become.
LEMMA ResultParts ==
    ASSUME NEW op, IsOp(op)
    PROVE  /\ Result(op).kind = op.kind /\ Result(op).obj = op.obj /\ Result(op).phase = "ok"
           /\ Result(op).snap = IF op.kind = "load" THEN doc ELSE op.snap
           /\ Result(op).games = IF op.kind = "replay" THEN offline ELSE op.games
           /\ LET x == [op EXCEPT !.phase = "error"]
              IN  /\ x.kind = op.kind /\ x.obj = op.obj /\ x.phase = "error"
                  /\ x.snap = op.snap /\ x.games = op.games
<1>1. PICK k, o, sn, fs, gs, af, ph :
          op = [kind |-> k, obj |-> o, snap |-> sn, fields |-> fs, games |-> gs,
                after |-> af, phase |-> ph]
  BY DEF IsOp
<1> QED
  BY <1>1 DEF Result

\* A step of the database: one operation goes on, and the documents follow.
DbStep(op) ==
    /\ objs' = objs
    /\ landed \subseteq landed'
    /\ Effect(op) \/ UNCHANGED <<doc, offline, landed>>
    /\ op.phase = "sent"
    /\ \E x : /\ ops' = (ops \ {op}) \cup {x}
              /\ x.kind = op.kind /\ x.obj = op.obj
              /\ x.snap = IF op.kind = "load" /\ x.phase = "ok" THEN doc ELSE op.snap
              /\ x.games = IF op.kind = "replay" /\ x.phase = "ok" THEN offline ELSE op.games
              /\ x.phase = "error" \/ (x.phase = "ok" /\ Effect(op))

\* Execute and Fail are such steps.
LEMMA DbShape ==
    ASSUME LobbyInv, NEW op \in ops, Execute(op) \/ Fail(op) PROVE DbStep(op)
<1>1. IsOp(op)
  BY DEF LobbyInv, ValidOp
<1>2. Effect(op) => landed \subseteq landed'
  BY DEF Effect
<1>3. CASE Execute(op)
  <2> DEFINE x == Result(op)
  <2>1. ops' = (ops \ {op}) \cup {x} /\ objs' = objs /\ Effect(op) /\ op.phase = "sent"
    BY <1>3 DEF Execute
  <2>2. /\ x.kind = op.kind /\ x.obj = op.obj /\ x.phase = "ok"
        /\ x.snap = IF op.kind = "load" THEN doc ELSE op.snap
        /\ x.games = IF op.kind = "replay" THEN offline ELSE op.games
    BY <1>1, ResultParts
  <2> HIDE DEF x
  <2>3. \E y : /\ ops' = (ops \ {op}) \cup {y}
               /\ y.kind = op.kind /\ y.obj = op.obj
               /\ y.snap = IF op.kind = "load" /\ y.phase = "ok" THEN doc ELSE op.snap
               /\ y.games = IF op.kind = "replay" /\ y.phase = "ok" THEN offline ELSE op.games
               /\ y.phase = "error" \/ (y.phase = "ok" /\ Effect(op))
    BY <2>1, <2>2
  <2> QED
    BY <1>2, <2>1, <2>3 DEF DbStep
<1>4. CASE Fail(op)
  <2> DEFINE x == [op EXCEPT !.phase = "error"]
  <2>1. /\ ops' = (ops \ {op}) \cup {x} /\ objs' = objs /\ op.phase = "sent"
        /\ Effect(op) \/ UNCHANGED <<doc, offline, landed>>
    BY <1>4 DEF Fail
  <2>2. /\ x.kind = op.kind /\ x.obj = op.obj /\ x.phase = "error" /\ x.phase # "ok"
        /\ x.snap = op.snap /\ x.games = op.games
    BY <1>1, ResultParts
  <2> HIDE DEF x
  <2>3. \E y : /\ ops' = (ops \ {op}) \cup {y}
               /\ y.kind = op.kind /\ y.obj = op.obj
               /\ y.snap = IF op.kind = "load" /\ y.phase = "ok" THEN doc ELSE op.snap
               /\ y.games = IF op.kind = "replay" /\ y.phase = "ok" THEN offline ELSE op.games
               /\ y.phase = "error" \/ (y.phase = "ok" /\ Effect(op))
    BY <2>1, <2>2
  <2> QED
    BY <1>2, <2>1, <2>3 DEF DbStep
<1> QED
  BY <1>3, <1>4

\* Nothing comes into the system but what the sets allow.
LEMMA WithinNext ==
    ASSUME LobbyInv, [Next]_vars, NEW C, NEW B, NEW M, Within(C, B, M), Closed(C, B, M),
           \A g \in Games : settles' = [settles EXCEPT ![g] = @ + 1] =>
               (SettleOffline(g) => g \in M) /\ (SettleOnline(g) => OpenTo(C, B, g))
    PROVE  Within(C, B, M)'
<1>1. NewPlayerDoc \in DocsOf(C, B) /\ <<>> \in Seq(M)
  BY DEF Closed
<1>2. ASSUME UNCHANGED <<doc, offline>>,
             \A i \in DOMAIN objs' : objs'[i].data \in DocsOf(C, B),
             \A x \in ops' : \/ x \in ops
                             \/ /\ x.snap \in DocsOf(C, B) /\ x.games \in Seq(M)
                                /\ x.kind = "push" => x.games # <<>>
      PROVE  Within(C, B, M)'
  BY <1>2 DEF Within
<1>3. ASSUME NEW x, Plain(x)
      PROVE  x.snap \in DocsOf(C, B) /\ x.games \in Seq(M) /\ x.kind # "push"
  BY <1>1, <1>3 DEF Plain, Within
<1>4. SameData(objs, objs') => \A i \in DOMAIN objs' : objs'[i].data \in DocsOf(C, B)
  BY DEF SameData, Within
<1>5. ASSUME NEW i \in DOMAIN objs, NEW d \in DocsOf(C, B), OneData(objs, objs', i, d)
      PROVE  \A j \in DOMAIN objs' : objs'[j].data \in DocsOf(C, B)
  BY <1>5 DEF OneData, Within
<1>6. ASSUME QuietStep PROVE Within(C, B, M)'
  <2>1. ASSUME NEW x \in ops', NEW op \in ops, AckAfter(x, op)
        PROVE  x.snap \in DocsOf(C, B) /\ x.games \in Seq(M) /\ x.kind # "push"
    BY <1>1, <2>1 DEF AckAfter, Within
  <2> QED
    BY <1>2, <1>3, <1>4, <1>6, <2>1 DEF QuietStep
<1>7. ASSUME NEW op \in ops, LoadStep(op) PROVE Within(C, B, M)'
  <2>1. \A i \in DOMAIN objs' : objs'[i].data \in DocsOf(C, B)
    BY <1>7 DEF LoadStep, Within
  <2>2. \A x \in ops' : \/ x \in ops
                        \/ x.snap \in DocsOf(C, B) /\ x.games \in Seq(M) /\ x.kind # "push"
    BY <1>1, <1>7 DEF LoadStep
  <2> QED
    BY <1>2, <1>7, <2>1, <2>2 DEF LoadStep
<1>8. ASSUME NEW op \in ops, ReplayStep(op) PROVE Within(C, B, M)'
  <2> DEFINE i == op.obj
             d == Replayed(objs[i].data, op.games)
  <2>1. i \in DOMAIN objs /\ OneData(objs, objs', i, d) /\ UNCHANGED <<doc, offline>>
    BY <1>8 DEF ReplayStep
  <2>2. d \in DocsOf(C, B) /\ op.games \in Seq(M)
    <3>1. objs[i].data \in DocsOf(C, B) /\ op.games \in Seq(M)
      BY <2>1 DEF Within
    <3> QED
      BY <3>1, ReplayedSound
  <2>3. \A x \in ops' : \/ x \in ops
                        \/ /\ x.kind \in {"ack", "flush"} /\ x.games = op.games
                           /\ x.snap \in {NewPlayerDoc, d}
    BY <1>8 DEF ReplayStep
  <2> HIDE DEF d, i
  <2>4. \A x \in ops' : \/ x \in ops
                        \/ x.snap \in DocsOf(C, B) /\ x.games \in Seq(M) /\ x.kind # "push"
    BY <1>1, <2>2, <2>3
  <2> QED
    BY <1>2, <1>5, <2>1, <2>2, <2>4
<1>9. ASSUME NEW op \in ops, AcceptStep(op) PROVE Within(C, B, M)'
  <2>1. Befriended(objs[op.obj].data) \in DocsOf(C, B) /\ op.obj \in DOMAIN objs
    BY <1>9, BefriendedSound DEF AcceptStep, Within
  <2> QED
    BY <1>2, <1>3, <1>5, <1>9, <2>1 DEF AcceptStep
<1>10. ASSUME NEW op \in ops, DbStep(op) PROVE Within(C, B, M)'
  <2>1. doc' \in DocsOf(C, B) /\ offline' \in Seq(M)
    BY <1>10, EffectSound DEF DbStep, Within
  <2>2. PICK x : /\ ops' = (ops \ {op}) \cup {x} /\ x.kind = op.kind
                 /\ x.snap \in {doc, op.snap}
                 /\ x.games = op.games \/ (x.games = offline /\ op.kind = "replay")
    BY <1>10 DEF DbStep
  <2>3. x.snap \in DocsOf(C, B) /\ x.games \in Seq(M) /\ (x.kind = "push" => x.games # <<>>)
    BY <2>2 DEF Within
  <2>4. objs' = objs
    BY <1>10 DEF DbStep
  <2> QED
    BY <2>1, <2>2, <2>3, <2>4 DEF Within
<1>11. ASSUME Crash PROVE Within(C, B, M)'
  <2>1. ops' = {} /\ objs' = <<>> /\ UNCHANGED <<doc, offline>>
    BY <1>11 DEF Crash
  <2> QED
    BY <2>1 DEF Within
<1>12. ASSUME NEW g \in Games, settles' = [settles EXCEPT ![g] = @ + 1],
              SettleOnline(g), OnlineStep(g)
       PROVE  Within(C, B, M)'
  <2>1. Settled(objs[player].data, g) \in DocsOf(C, B) /\ player \in DOMAIN objs
    <3>1. OpenTo(C, B, g) /\ player \in DOMAIN objs
      BY <1>12 DEF OnlineStep
    <3> QED
      BY <3>1, SettledSound DEF Within
  <2> QED
    BY <1>2, <1>5, <1>12, <2>1 DEF OnlineStep
<1>13. ASSUME NEW g \in Games, settles' = [settles EXCEPT ![g] = @ + 1],
              SettleOffline(g), PushStep(g)
       PROVE  Within(C, B, M)'
  <2>1. g \in M
    BY <1>13
  <2>2. <<g>> \in Seq(M) /\ <<g>> # <<>>
    BY <2>1
  <2> QED
    BY <1>1, <1>2, <1>4, <1>13, <2>2 DEF PushStep
<1> QED
  BY <1>6, <1>7, <1>8, <1>9, <1>10, <1>11, <1>12, <1>13, DbShape, NextShape

-----------------------------------------------------------------------------
(* Charges and items follow the op-ids kept beside them *)

Holds(S, x) == IF x \in S THEN 1 ELSE 0

\* A currency in which each op-id stands for one payment.
Payings ==
    {c \in [paid : [Games -> Nat], ops : SUBSET (Games \X {"settle", "spend"})] :
        \A g \in Games :
            c.paid[g] = Holds(c.ops, <<g, "settle">>) + Holds(c.ops, <<g, "spend">>)}

\* A bag in which each op-id stands for one item.
Holdings ==
    {b \in [items : [Games -> Nat], ops : SUBSET Games] :
        \A g \in Games : b.items[g] = Holds(b.ops, g)}

\* Currency.Spend under a new op-id is one payment and keeps the op-id.
LEMMA SpendFacts ==
    ASSUME NEW c \in Payings, NEW g \in Games, NEW k \in {"settle", "spend"}
    PROVE  /\ Spend(c, <<g, k>>) \in Payings
           /\ Spend(c, <<g, k>>).ops \subseteq c.ops \cup {<<g, k>>}
<1> DEFINE o == <<g, k>>
           p == [c.paid EXCEPT ![g] = @ + 1]
           n == [paid |-> p, ops |-> c.ops \cup {o}]
<1>1. CASE Seen(c, o) \/ Balance(c) < 1
  <2>1. Spend(c, o) = c
    BY <1>1 DEF Spend
  <2> QED
    BY <2>1
<1>2. CASE ~(Seen(c, o) \/ Balance(c) < 1)
  <2>1. o[1] = g
    OBVIOUS
  <2>2. Spend(c, o) = n
    BY <1>2, <2>1 DEF Spend
  <2>3. o \notin c.ops
    BY <1>2 DEF Seen
  <2>4. /\ c.paid \in [Games -> Nat] /\ c.ops \subseteq Games \X {"settle", "spend"}
        /\ \A h \in Games :
              c.paid[h] = Holds(c.ops, <<h, "settle">>) + Holds(c.ops, <<h, "spend">>)
    BY DEF Payings
  <2>5. p \in [Games -> Nat] /\ p[g] = c.paid[g] + 1 /\ \A h \in Games \ {g} : p[h] = c.paid[h]
    BY <2>4
  <2>6. o \in Games \X {"settle", "spend"}
    OBVIOUS
  <2>7. ASSUME NEW h \in Games, NEW j \in {"settle", "spend"}
        PROVE  Holds(c.ops \cup {o}, <<h, j>>)
                 = IF <<h, j>> = o THEN 1 ELSE Holds(c.ops, <<h, j>>)
    BY DEF Holds
  <2>8. Holds(c.ops, o) = 0
    BY <2>3 DEF Holds
  <2>9. ASSUME NEW h \in Games
        PROVE  p[h] = Holds(c.ops \cup {o}, <<h, "settle">>) + Holds(c.ops \cup {o}, <<h, "spend">>)
    <3> DEFINE x == Holds(c.ops, <<h, "settle">>)
               y == Holds(c.ops, <<h, "spend">>)
    <3>1. x \in Nat /\ y \in Nat /\ c.paid[h] = x + y
      BY <2>4 DEF Holds
    <3>2. CASE h # g
      <4>1. <<h, "settle">> # o /\ <<h, "spend">> # o /\ p[h] = c.paid[h]
        BY <2>5, <3>2
      <4> QED
        BY <2>7, <3>1, <4>1
    <3>3. CASE h = g /\ k = "settle"
      <4>1. <<h, "settle">> = o /\ <<h, "spend">> # o /\ x = 0 /\ p[h] = x + y + 1
        BY <2>5, <2>8, <3>1, <3>3
      <4>2. /\ Holds(c.ops \cup {o}, <<h, "settle">>) = 1
            /\ Holds(c.ops \cup {o}, <<h, "spend">>) = y
        BY <2>7, <4>1
      <4> QED
        BY <3>1, <4>1, <4>2
    <3>4. CASE h = g /\ k = "spend"
      <4>1. <<h, "spend">> = o /\ <<h, "settle">> # o /\ y = 0 /\ p[h] = x + y + 1
        BY <2>5, <2>8, <3>1, <3>4
      <4>2. /\ Holds(c.ops \cup {o}, <<h, "settle">>) = x
            /\ Holds(c.ops \cup {o}, <<h, "spend">>) = 1
        BY <2>7, <4>1
      <4> QED
        BY <3>1, <4>1, <4>2
    <3> QED
      BY <3>2, <3>3, <3>4
  <2>10. n.paid = p /\ n.ops = c.ops \cup {o}
    OBVIOUS
  <2>11. n \in [paid : [Games -> Nat], ops : SUBSET (Games \X {"settle", "spend"})]
    <3>1. c.ops \cup {o} \in SUBSET (Games \X {"settle", "spend"})
      BY <2>4, <2>6
    <3> HIDE DEF p, o
    <3> QED
      BY <2>5, <3>1
  <2> HIDE DEF n, p, o
  <2>12. n \in Payings
    BY <2>9, <2>10, <2>11 DEF Payings
  <2> QED
    BY <2>2, <2>10, <2>12 DEF o
<1> QED
  BY <1>1, <1>2

\* Bag.Add under a new op-id is one item and keeps the op-id.
LEMMA AddFacts ==
    ASSUME NEW b \in Holdings, NEW g \in Games PROVE Add(b, g) \in Holdings
<1> DEFINE p == [b.items EXCEPT ![g] = @ + 1]
           n == [items |-> p, ops |-> b.ops \cup {g}]
<1>1. CASE g \in b.ops
  BY <1>1 DEF Add
<1>2. CASE g \notin b.ops
  <2>1. Add(b, g) = n
    BY <1>2 DEF Add
  <2>2. /\ b.items \in [Games -> Nat] /\ b.ops \subseteq Games
        /\ \A h \in Games : b.items[h] = Holds(b.ops, h)
    BY DEF Holdings
  <2>3. b.items[g] = 0
    BY <1>2, <2>2 DEF Holds
  <2>4. p \in [Games -> Nat] /\ p[g] = 1 /\ \A h \in Games \ {g} : p[h] = b.items[h]
    BY <2>2, <2>3
  <2>5. ASSUME NEW h \in Games PROVE p[h] = Holds(b.ops \cup {g}, h)
    BY <2>2, <2>4 DEF Holds
  <2>6. n.items = p /\ n.ops = b.ops \cup {g}
    OBVIOUS
  <2>7. n \in [items : [Games -> Nat], ops : SUBSET Games]
    BY <2>2, <2>4
  <2> HIDE DEF n, p
  <2> QED
    BY <2>1, <2>5, <2>6, <2>7 DEF Holdings
<1> QED
  BY <1>1, <1>2

\* The document of a new player.
LEMMA NewDocFacts ==
    /\ NewPlayerDoc \in DocsOf(Payings, Holdings)
    /\ NewPlayerDoc.currency.ops = {} /\ NewPlayerDoc.bag.ops = {}
<1> DEFINE z == [g \in Games |-> 0]
           c == [paid |-> z, ops |-> {}]
           b == [items |-> z, ops |-> {}]
<1>1. NewPlayerDoc = [currency |-> c, bag |-> b, friend |-> FALSE]
  BY DEF NewPlayerDoc
<1>2. z \in [Games -> Nat] /\ \A g \in Games : z[g] = 0
  OBVIOUS
<1>3. c.paid = z /\ c.ops = {} /\ b.items = z /\ b.ops = {}
  OBVIOUS
<1>4. /\ c \in [paid : [Games -> Nat], ops : SUBSET (Games \X {"settle", "spend"})]
      /\ b \in [items : [Games -> Nat], ops : SUBSET Games]
  BY <1>2
<1> HIDE DEF z, c, b
<1>5. c \in Payings
  BY <1>2, <1>3, <1>4 DEF Payings, Holds
<1>6. b \in Holdings
  BY <1>2, <1>3, <1>4 DEF Holdings, Holds
<1> QED
  BY <1>1, <1>3, <1>5, <1>6 DEF DocsOf

\* The currencies in which g is charged in no way but w, and the messages
\* there may be then.
Charged(g, w) == {c \in Payings : \A k \in {"settle", "spend"} : <<g, k>> \in c.ops => k = w}
Sent(g, w) == IF w = "spend" THEN Games ELSE Games \ {g}

\* All currencies, bags and messages are closed under replays and settlements.
LEMMA AllClosed ==
    /\ Closed(Payings, Holdings, Games)
    /\ \A g \in Games : OpenTo(Payings, Holdings, g)
<1>1. \A g \in Games, c \in Payings :
          Spend(c, <<g, "spend">>) \in Payings /\ Spend(c, <<g, "settle">>) \in Payings
  BY SpendFacts
<1> QED
  BY <1>1, AddFacts, NewDocFacts DEF Closed, OpenTo

\* So are those of one way of charging g, as far as they are not about g.
LEMMA ChargedClosed ==
    ASSUME NEW g \in Games, NEW w
    PROVE  /\ Closed(Charged(g, w), Holdings, Sent(g, w))
           /\ \A h \in Games : h # g \/ w = "settle" => OpenTo(Charged(g, w), Holdings, h)
<1>1. ASSUME NEW c \in Charged(g, w), NEW h \in Games, NEW k \in {"settle", "spend"},
             h # g \/ k = w
      PROVE  Spend(c, <<h, k>>) \in Charged(g, w)
  <2> DEFINE s == Spend(c, <<h, k>>)
  <2>1. c \in Payings /\ \A j \in {"settle", "spend"} : <<g, j>> \in c.ops => j = w
    BY DEF Charged
  <2>2. s \in Payings /\ s.ops \subseteq c.ops \cup {<<h, k>>}
    BY <2>1, SpendFacts
  <2> HIDE DEF s
  <2>3. ASSUME NEW j \in {"settle", "spend"}, <<g, j>> \in s.ops PROVE j = w
    <3>1. <<g, j>> \in c.ops \/ <<g, j>> = <<h, k>>
      BY <2>2, <2>3
    <3> QED
      BY <1>1, <2>1, <3>1
  <2>4. s \in Charged(g, w)
    BY <2>2, <2>3 DEF Charged
  <2> QED
    BY <2>4 DEF s
<1>2. \A h \in Sent(g, w) : h \in Games /\ (h # g \/ w = "spend")
  BY DEF Sent
<1>3. NewPlayerDoc \in DocsOf(Charged(g, w), Holdings)
  BY NewDocFacts DEF DocsOf, Charged
<1>4. \A h \in Sent(g, w), c \in Charged(g, w) : Spend(c, <<h, "spend">>) \in Charged(g, w)
  BY <1>1, <1>2
<1>5. \A h \in Games, c \in Charged(g, w) :
          h # g \/ w = "settle" => Spend(c, <<h, "settle">>) \in Charged(g, w)
  BY <1>1
<1>6. Closed(Charged(g, w), Holdings, Sent(g, w))
  BY <1>2, <1>3, <1>4, AddFacts DEF Closed
<1>7. \A h \in Games : h # g \/ w = "settle" => OpenTo(Charged(g, w), Holdings, h)
  BY <1>5, AddFacts DEF OpenTo
<1> QED
  BY <1>6, <1>7

-----------------------------------------------------------------------------
(* The invariant *)

\* A copy that waits for its offline messages has the item of g from the
\* document, or from a settlement.
Fresh(g, w) ==
    \A op \in ops : op.kind = "replay" /\ g \in objs[op.obj].data.bag.ops
                        => g \in landed \/ w = "settle"

\* Nothing in the system is about g, but in the way w.
Only(g, w) == Within(Charged(g, w), Holdings, Sent(g, w)) /\ Fresh(g, w)

\* The item of g has been in the document; or the copy i has it and g was
\* delivered twice.
Done(g, i) == g \in landed \/ (settles[g] > 1 /\ g \in objs[i].data.bag.ops)

\* An Ack, or the flush before it, is about what is done or what the flush
\* carries.
AckSafe(op, g) ==
    /\ op.kind = "ack" => Done(g, op.obj)
    /\ op.kind = "flush" => \/ op.phase = "error"
                            \/ Done(g, op.obj)
                            \/ op.phase = "sent" /\ "bag" \in op.fields /\ g \in op.snap.bag.ops

\* What is loaded has been in the document, a copy is replayed to once, and
\* only what is safe is acknowledged.
Kept ==
    /\ doc.bag.ops \subseteq landed
    /\ \A op \in ops : op.kind = "load" /\ op.phase \notin {"sent", "error"}
                           => op.snap.bag.ops \subseteq landed
    /\ \A x, y \in ops : x.kind = "replay" /\ y.kind = "replay" /\ x.obj = y.obj => x = y
    /\ \A op \in ops : \A g \in Range(op.games) : AckSafe(op, g)

\* How a game was delivered: not yet, to the resident player, or as a message.
Ways == {"none", "settle", "spend"}

\* What every step keeps: counts that follow the op-ids, one way for a game
\* that was delivered at most once, and what may be acknowledged.
GrantInv ==
    /\ LobbyInv
    /\ settles \in [Games -> Nat]
    /\ Within(Payings, Holdings, Games)
    /\ \A g \in Games : settles[g] <= 1 =>
           \E w \in Ways : (settles[g] = 0 => w = "none") /\ Only(g, w)
    /\ Kept

\* Bags of copies only grow.
Grows ==
    /\ landed \subseteq landed'
    /\ \A g \in Games : settles[g] <= settles'[g]
    /\ \A i \in DOMAIN objs : objs[i].data.bag.ops \subseteq objs'[i].data.bag.ops

\* What is done stays done.
LEMMA AckSafeStays ==
    ASSUME LobbyInv, settles \in [Games -> Nat], settles' \in [Games -> Nat], Grows,
           NEW op \in ops, NEW g \in Games, AckSafe(op, g)
    PROVE  AckSafe(op, g)'
<1>1. op.kind \in {"ack", "flush"} => op.obj \in DOMAIN objs
  BY DEF LobbyInv, ValidOp
<1>2. ASSUME op.obj \in DOMAIN objs, Done(g, op.obj) PROVE Done(g, op.obj)'
  <2>1. settles[g] \in Nat /\ settles'[g] \in Nat /\ settles[g] <= settles'[g]
    BY DEF Grows
  <2> QED
    BY <1>2, <2>1 DEF Grows, Done
<1> QED
  BY <1>1, <1>2 DEF AckSafe

\* A step in which operations about no message come, or none.
LEMMA KeptStep ==
    ASSUME LobbyInv, settles \in [Games -> Nat], settles' \in [Games -> Nat], Grows,
           Within(Payings, Holdings, Games), Kept, UNCHANGED <<doc, landed>>,
           \A x \in ops' : x \in ops \/ /\ x.kind # "replay"
                                        /\ x.kind = "load" => x.phase = "sent"
                                        /\ \A g \in Range(x.games) : AckSafe(x, g)'
    PROVE  Kept'
<1>1. \A op \in ops : \A g \in Range(op.games) : g \in Games
  BY DEF Within, Range
<1>2. \A op \in ops : \A g \in Range(op.games) : AckSafe(op, g)'
  BY <1>1, AckSafeStays DEF Kept
<1>3. \A op \in ops' : \A g \in Range(op.games) : AckSafe(op, g)'
  BY <1>2
<1> QED
  BY <1>3 DEF Kept

\* A sequence without elements.
LEMMA NoneIn == Range(<<>>) = {}
BY DEF Range

\* A quiet step keeps the copies and the messages safe.
LEMMA QuietKept ==
    ASSUME LobbyInv, settles \in [Games -> Nat], settles' \in [Games -> Nat],
           \A g \in Games : settles[g] <= settles'[g],
           Within(Payings, Holdings, Games), Kept, QuietStep
    PROVE  Kept'
<1>1. Grows
  BY DEF QuietStep, SameData, Grows
<1>2. ASSUME NEW x, Plain(x)
      PROVE  x.kind # "replay" /\ x.phase = "sent" /\ \A g \in Range(x.games) : AckSafe(x, g)'
  BY <1>2, NoneIn DEF Plain
<1>3. ASSUME NEW x, NEW op \in ops, AckAfter(x, op), NEW g \in Range(x.games)
      PROVE  AckSafe(x, g)'
  <2>1. g \in Range(op.games) /\ g \in Games
    BY <1>3 DEF AckAfter, Within, Range
  <2>2. AckSafe(op, g)'
    BY <1>1, <2>1, AckSafeStays DEF Kept
  <2> QED
    BY <1>3, <2>2 DEF AckAfter, AckSafe
<1>4. \A x \in ops' : \/ x \in ops
                      \/ /\ x.kind # "replay"
                         /\ x.kind = "load" => x.phase = "sent"
                         /\ \A g \in Range(x.games) : AckSafe(x, g)'
  BY <1>2, <1>3 DEF QuietStep, AckAfter
<1> QED
  BY <1>1, <1>4, KeptStep DEF QuietStep

\* The data of one copy changes, its bag grows.
LEMMA OneGrows ==
    ASSUME NEW i \in DOMAIN objs, NEW d, OneData(objs, objs', i, d),
           objs[i].data.bag.ops \subseteq d.bag.ops, landed' = landed,
           \A g \in Games : settles[g] <= settles'[g]
    PROVE  Grows
BY DEF OneData, Grows

\* The callback of Load: the new copy holds what the document has held, and
\* is the only one with its number.
LEMMA LoadKept ==
    ASSUME LobbyInv, settles \in [Games -> Nat], settles' = settles,
           Within(Payings, Holdings, Games), Kept, NEW op \in ops, LoadStep(op)
    PROVE  Kept'
<1>1. Grows
  BY DEF LoadStep, Grows
<1>2. \A x \in ops : \A g \in Range(x.games) : AckSafe(x, g)'
  <2>1. \A x \in ops : \A g \in Range(x.games) : g \in Games
    BY DEF Within, Range
  <2> QED
    BY <1>1, <2>1, AckSafeStays DEF Kept
<1>3. \A x \in ops' : \A g \in Range(x.games) : AckSafe(x, g)'
  BY <1>2, NoneIn DEF LoadStep
<1>4. ASSUME NEW x \in ops', NEW y \in ops', x.kind = "replay", y.kind = "replay", x.obj = y.obj
      PROVE  x = y
  <2>1. \A z \in ops : z.kind = "replay" => z.obj \in DOMAIN objs
    BY DEF LobbyInv, ValidOp
  <2>2. \A z \in ops' : z \notin ops => z.obj \notin DOMAIN objs
    BY DEF LoadStep
  <2> QED
    BY <1>4, <2>1, <2>2 DEF LoadStep, Kept
<1> QED
  BY <1>3, <1>4 DEF LoadStep, Kept

\* replayOffline: what it acknowledges without carrying it in a flush is in
\* the document, or has been settled online as well.
LEMMA ReplayKept ==
    ASSUME GrantInv, settles' = settles, NEW op \in ops, ReplayStep(op)
    PROVE  Kept'
<1> DEFINE i == op.obj
           e == objs[i].data
           d == Replayed(e, op.games)
<1>0. /\ LobbyInv /\ settles \in [Games -> Nat] /\ Kept
      /\ Within(Payings, Holdings, Games)
  BY DEF GrantInv
<1>1. /\ op.kind = "replay" /\ i \in DOMAIN objs /\ OneData(objs, objs', i, d)
      /\ UNCHANGED <<doc, offline, landed>>
  BY DEF ReplayStep
<1>2. e \in DocsOf(Payings, Holdings) /\ op.games \in Seq(Games)
  BY <1>0, <1>1 DEF Within
<1>3. d.bag.ops = e.bag.ops \cup Range(op.games)
  BY <1>2, AllClosed, ReplayedSound
<1>4. \A x \in ops' :
          \/ x \in ops
          \/ /\ x.kind \in {"ack", "flush"} /\ x.obj = i /\ x.games = op.games
             /\ x.phase = "sent"
             /\ \/ x.kind = "flush" /\ "bag" \in x.fields /\ x.snap = d
                \/ d.bag = e.bag
  BY DEF ReplayStep
<1>5. objs'[i].data = d
  BY <1>1 DEF OneData
<1>6. e = objs[op.obj].data
  OBVIOUS
<1> HIDE DEF d, e
<1>7. Grows
  <2>1. \A g \in Games : settles[g] <= settles'[g]
    BY <1>0
  <2> QED
    BY <1>1, <1>3, <1>6, <2>1, OneGrows
<1>8. ASSUME NEW x \in ops', x.kind \in {"ack", "flush"}, x.obj = i, x.games = op.games,
             x.phase = "sent",
             \/ x.kind = "flush" /\ "bag" \in x.fields /\ x.snap = d
             \/ d.bag = e.bag,
             NEW g \in Range(x.games)
      PROVE  AckSafe(x, g)'
  <2>1. g \in d.bag.ops /\ g \in Range(op.games) /\ g \in Games
    BY <1>2, <1>3, <1>8 DEF Range
  <2>2. CASE x.kind = "flush" /\ "bag" \in x.fields /\ x.snap = d
    BY <1>8, <2>1, <2>2 DEF AckSafe
  <2>3. CASE d.bag = e.bag
    <3>1. settles[g] \in Nat
      BY <1>0, <2>1
    <3>2. CASE settles[g] > 1
      <4>1. Done(g, i)'
        BY <1>5, <2>1, <3>2 DEF Done
      <4> QED
        BY <1>8, <4>1 DEF AckSafe
    <3>3. CASE settles[g] <= 1
      <4>1. PICK w \in Ways : Only(g, w)
        BY <2>1, <3>3 DEF GrantInv
      <4>2. g \in Sent(g, w)
        BY <2>1, <4>1 DEF Only, Within, Range
      <4>3. w = "spend"
        BY <4>2 DEF Sent
      <4>4. g \in landed
        BY <1>1, <1>6, <2>1, <2>3, <4>1, <4>3 DEF Only, Fresh
      <4>5. Done(g, i)'
        BY <1>1, <4>4 DEF Done
      <4> QED
        BY <1>8, <4>5 DEF AckSafe
    <3> QED
      BY <3>1, <3>2, <3>3
  <2> QED
    BY <1>8, <2>2, <2>3
<1>9. \A x \in ops' : x \in ops \/ /\ x.kind # "replay"
                                   /\ x.kind = "load" => x.phase = "sent"
                                   /\ \A g \in Range(x.games) : AckSafe(x, g)'
  <2> SUFFICES ASSUME NEW x \in ops', x \notin ops
               PROVE  /\ x.kind # "replay"
                      /\ x.kind = "load" => x.phase = "sent"
                      /\ \A g \in Range(x.games) : AckSafe(x, g)'
    OBVIOUS
  <2> QED
    BY <1>4, <1>8
<1> QED
  BY <1>0, <1>1, <1>7, <1>9, KeptStep

\* The database: a flush that succeeds has put what it carries into the
\* document.
LEMMA DbKept ==
    ASSUME LobbyInv, settles \in [Games -> Nat], settles' = settles,
           Within(Payings, Holdings, Games), Kept, NEW op \in ops, DbStep(op)
    PROVE  Kept'
<1>1. PICK x : /\ ops' = (ops \ {op}) \cup {x}
               /\ x.kind = op.kind /\ x.obj = op.obj
               /\ x.snap = IF op.kind = "load" /\ x.phase = "ok" THEN doc ELSE op.snap
               /\ x.games = IF op.kind = "replay" /\ x.phase = "ok" THEN offline ELSE op.games
               /\ x.phase = "error" \/ (x.phase = "ok" /\ Effect(op))
  BY DEF DbStep
<1>2. objs' = objs /\ landed \subseteq landed' /\ op.phase = "sent"
  BY DEF DbStep
<1>3. Grows
  BY <1>2 DEF Grows
<1>4. doc'.bag.ops \subseteq landed'
  <2>1. CASE Effect(op)
    BY <2>1 DEF Effect
  <2>2. CASE UNCHANGED <<doc, offline, landed>>
    BY <2>2 DEF Kept
  <2> QED
    BY <2>1, <2>2 DEF DbStep
<1>5. \A y \in ops : \A g \in Range(y.games) : AckSafe(y, g)'
  <2>1. \A y \in ops : \A g \in Range(y.games) : g \in Games
    BY DEF Within, Range
  <2> QED
    BY <1>3, <2>1, AckSafeStays DEF Kept
<1>6. ASSUME NEW g \in Range(x.games) PROVE AckSafe(x, g)'
  <2>1. CASE op.kind \notin {"ack", "flush"}
    BY <1>1, <2>1 DEF AckSafe
  <2>2. CASE op.kind \in {"ack", "flush"}
    <3>1. g \in Range(op.games)
      BY <1>1, <1>6, <2>2
    <3>2. AckSafe(op, g)' /\ AckSafe(op, g)
      BY <1>5, <3>1 DEF Kept
    <3>3. CASE op.kind = "ack"
      BY <1>1, <3>2, <3>3 DEF AckSafe
    <3>4. CASE op.kind = "flush" /\ x.phase = "error"
      BY <1>1, <3>4 DEF AckSafe
    <3>5. CASE op.kind = "flush" /\ x.phase # "error"
      <4>1. Effect(op)
        BY <1>1, <3>5
      <4>2. "bag" \in op.fields => doc'.bag = op.snap.bag
        BY <3>5, <4>1, EffectSound
      <4>3. \/ Done(g, op.obj)'
            \/ "bag" \in op.fields /\ g \in op.snap.bag.ops
        BY <1>2, <3>2, <3>5 DEF AckSafe
      <4>4. Done(g, op.obj)'
        BY <1>4, <4>2, <4>3 DEF Done
      <4> QED
        BY <1>1, <3>5, <4>4 DEF AckSafe
    <3> QED
      BY <2>2, <3>3, <3>4, <3>5
  <2> QED
    BY <2>1, <2>2
<1>7. \A y \in ops' : \A g \in Range(y.games) : AckSafe(y, g)'
  BY <1>1, <1>5, <1>6
<1>8. x.kind = "load" /\ x.phase \notin {"sent", "error"} => x.snap.bag.ops \subseteq landed'
  BY <1>1, <1>2 DEF Kept
<1>9. \A y \in ops' : y.kind = "load" /\ y.phase \notin {"sent", "error"}
                          => y.snap.bag.ops \subseteq landed'
  BY <1>1, <1>2, <1>8 DEF Kept
<1>10. \A y, z \in ops' : y.kind = "replay" /\ z.kind = "replay" /\ y.obj = z.obj => y = z
  BY <1>1 DEF Kept
<1> QED
  BY <1>4, <1>7, <1>9, <1>10 DEF Kept

\* Every step keeps it.
LEMMA KeptNext ==
    ASSUME GrantInv, [Next]_vars, settles' \in [Games -> Nat],
           \A g \in Games : settles[g] <= settles'[g]
    PROVE  Kept'
<1>0. /\ LobbyInv /\ settles \in [Games -> Nat] /\ Kept
      /\ Within(Payings, Holdings, Games)
  BY DEF GrantInv
<1>1. ASSUME QuietStep PROVE Kept'
  BY <1>0, <1>1, QuietKept
<1>2. ASSUME NEW op \in ops, AcceptStep(op) PROVE Kept'
  <2> DEFINE d == Befriended(objs[op.obj].data)
  <2>1. op.obj \in DOMAIN objs /\ OneData(objs, objs', op.obj, d) /\ UNCHANGED <<doc, landed>>
    BY <1>2 DEF AcceptStep
  <2>2. d.bag = objs[op.obj].data.bag
    BY <1>0, <2>1, BefriendedSound DEF Within
  <2> HIDE DEF d
  <2>3. Grows
    BY <2>1, <2>2, OneGrows
  <2>4. \A x \in ops' : x \in ops \/ /\ x.kind # "replay"
                                     /\ x.kind = "load" => x.phase = "sent"
                                     /\ \A g \in Range(x.games) : AckSafe(x, g)'
    BY <1>2, NoneIn DEF AcceptStep, Plain
  <2> QED
    BY <1>0, <2>1, <2>3, <2>4, KeptStep
<1>3. ASSUME Crash PROVE Kept'
  <2>1. ops' = {} /\ UNCHANGED <<doc, landed>>
    BY <1>3 DEF Crash
  <2> QED
    BY <1>0, <2>1 DEF Kept
<1>4. ASSUME NEW g \in Games, OnlineStep(g) PROVE Kept'
  <2> DEFINE d == Settled(objs[player].data, g)
  <2>1. player \in DOMAIN objs /\ OneData(objs, objs', player, d) /\ UNCHANGED <<doc, landed, ops>>
    BY <1>4 DEF OnlineStep
  <2>2. objs[player].data.bag.ops \subseteq d.bag.ops
    <3>1. OpenTo(Payings, Holdings, g) /\ objs[player].data \in DocsOf(Payings, Holdings)
      BY <1>0, <2>1, AllClosed DEF Within
    <3> QED
      BY <3>1, SettledSound
  <2> HIDE DEF d
  <2>3. Grows
    BY <2>1, <2>2, OneGrows
  <2> QED
    BY <1>0, <2>1, <2>3, KeptStep
<1>5. ASSUME NEW g \in Games, PushStep(g) PROVE Kept'
  <2>1. Grows
    BY <1>5 DEF PushStep, SameData, Grows
  <2>2. \A x \in ops' : x \in ops \/ /\ x.kind # "replay"
                                     /\ x.kind = "load" => x.phase = "sent"
                                     /\ \A h \in Range(x.games) : AckSafe(x, h)'
    BY <1>5 DEF PushStep, AckSafe
  <2> QED
    BY <1>0, <1>5, <2>1, <2>2, KeptStep DEF PushStep
<1> QED
  BY <1>0, <1>1, <1>2, <1>3, <1>4, <1>5, NextShape, DbShape, DbKept, LoadKept, ReplayKept

\* A copy that waits for its messages gets items only from settlements.
LEMMA FreshNext ==
    ASSUME GrantInv, [Next]_vars, NEW g \in Games, NEW w, Fresh(g, w),
           \A h \in Games : settles' = [settles EXCEPT ![h] = @ + 1] /\ SettleOnline(h)
                                => h # g \/ w = "settle"
    PROVE  Fresh(g, w)'
<1>0. /\ LobbyInv /\ settles \in [Games -> Nat] /\ Kept
      /\ Within(Payings, Holdings, Games)
  BY DEF GrantInv
<1>1. \A op \in ops : op.kind = "replay" => op.obj \in DOMAIN objs
  BY <1>0 DEF LobbyInv, ValidOp
<1>2. ASSUME \A i \in DOMAIN objs : g \in objs'[i].data.bag.ops
                                        => g \in objs[i].data.bag.ops \/ w = "settle",
             landed \subseteq landed', \A x \in ops' : x \in ops \/ x.kind # "replay"
      PROVE  Fresh(g, w)'
  BY <1>1, <1>2 DEF Fresh
<1>3. ASSUME QuietStep PROVE Fresh(g, w)'
  BY <1>2, <1>3 DEF QuietStep, SameData, Plain, AckAfter
<1>4. ASSUME NEW op \in ops, LoadStep(op) PROVE Fresh(g, w)'
  <2>1. objs'[player'].data.bag.ops \subseteq landed'
    BY <1>0, <1>4 DEF LoadStep, Kept
  <2>2. ASSUME NEW x \in ops, x.kind = "replay", g \in objs'[x.obj].data.bag.ops
        PROVE  g \in landed' \/ w = "settle"
    BY <1>1, <1>4, <2>2 DEF LoadStep, Fresh
  <2>3. \A x \in ops' : x \in ops \/ x.obj = player'
    BY <1>4 DEF LoadStep
  <2> QED
    BY <2>1, <2>2, <2>3 DEF Fresh
<1>5. ASSUME NEW op \in ops, ReplayStep(op) PROVE Fresh(g, w)'
  <2>1. /\ op.kind = "replay" /\ landed' = landed
        /\ \A j \in DOMAIN objs \ {op.obj} : objs'[j].data = objs[j].data
        /\ \A x \in ops' : x \in ops \ {op} \/ x.kind # "replay"
    BY <1>5 DEF ReplayStep, OneData
  <2>2. \A x \in ops \ {op} : x.kind = "replay" => x.obj # op.obj
    BY <1>0, <2>1 DEF Kept
  <2> QED
    BY <1>1, <2>1, <2>2 DEF Fresh
<1>6. ASSUME NEW op \in ops, AcceptStep(op) PROVE Fresh(g, w)'
  <2> DEFINE d == Befriended(objs[op.obj].data)
  <2>1. op.obj \in DOMAIN objs /\ OneData(objs, objs', op.obj, d) /\ landed' = landed
    BY <1>6 DEF AcceptStep
  <2>2. d.bag = objs[op.obj].data.bag
    BY <1>0, <2>1, BefriendedSound DEF Within
  <2>3. \A x \in ops' : x \in ops \/ x.kind # "replay"
    BY <1>6 DEF AcceptStep, Plain
  <2> HIDE DEF d
  <2> QED
    BY <1>2, <2>1, <2>2, <2>3 DEF OneData
<1>7. ASSUME NEW op \in ops, DbStep(op) PROVE Fresh(g, w)'
  <2>1. PICK x : ops' = (ops \ {op}) \cup {x} /\ x.kind = op.kind /\ x.obj = op.obj
    BY <1>7 DEF DbStep
  <2>2. objs' = objs /\ landed \subseteq landed'
    BY <1>7 DEF DbStep
  <2> QED
    BY <2>1, <2>2 DEF Fresh
<1>8. ASSUME Crash PROVE Fresh(g, w)'
  BY <1>8 DEF Crash, Fresh
<1>9. ASSUME NEW h \in Games, h # g \/ w = "settle", OnlineStep(h) PROVE Fresh(g, w)'
  <2> DEFINE d == Settled(objs[player].data, h)
  <2>1. player \in DOMAIN objs /\ OneData(objs, objs', player, d) /\ UNCHANGED <<landed, ops>>
    BY <1>9 DEF OnlineStep
  <2>2. d.bag.ops = objs[player].data.bag.ops \cup {h}
    <3>1. OpenTo(Payings, Holdings, h) /\ objs[player].data \in DocsOf(Payings, Holdings)
      BY <1>0, <2>1, AllClosed DEF Within
    <3> QED
      BY <3>1, SettledSound
  <2> HIDE DEF d
  <2> QED
    BY <1>2, <1>9, <2>1, <2>2 DEF OneData
<1>10. ASSUME NEW h \in Games, PushStep(h) PROVE Fresh(g, w)'
  BY <1>2, <1>10 DEF PushStep, SameData
<1> QED
  BY <1>0, <1>3, <1>4, <1>5, <1>6, <1>7, <1>8, <1>9, <1>10, NextShape, DbShape

\* What settles counts.
LEMMA SettlesNext ==
    ASSUME GrantInv, [Next]_vars
    PROVE  /\ settles' \in [Games -> Nat]
           /\ \A g \in Games : settles[g] <= settles'[g]
<1>0. LobbyInv /\ settles \in [Games -> Nat]
  BY DEF GrantInv
<1>1. settles' = settles \/ \E h \in Games : settles' = [settles EXCEPT ![h] = @ + 1]
  BY <1>0, NextShape
<1>2. ASSUME NEW h \in Games, settles' = [settles EXCEPT ![h] = @ + 1]
      PROVE  settles' \in [Games -> Nat] /\ \A g \in Games : settles[g] <= settles'[g]
  BY <1>0, <1>2
<1> QED
  BY <1>0, <1>1, <1>2

\* The way in which g was delivered stays the only one until it is delivered
\* again.
LEMMA OnlyNext ==
    ASSUME GrantInv, [Next]_vars, NEW g \in Games, NEW w, Only(g, w),
           settles'[g] # settles[g] => w = IF player # 0 THEN "settle" ELSE "spend"
    PROVE  Only(g, w)'
<1>0. LobbyInv /\ settles \in [Games -> Nat]
  BY DEF GrantInv
<1>1. ASSUME NEW h \in Games, settles' = [settles EXCEPT ![h] = @ + 1]
      PROVE  /\ SettleOffline(h) => h \in Sent(g, w)
             /\ SettleOnline(h) => h # g \/ w = "settle"
  <2>1. CASE h # g
    BY <2>1 DEF Sent
  <2>2. CASE h = g
    <3>1. settles'[g] # settles[g]
      BY <1>0, <1>1, <2>2
    <3> QED
      BY <2>2, <3>1 DEF Sent, SettleOffline, SettleOnline
  <2> QED
    BY <2>1, <2>2
<1>2. \A h \in Games : settles' = [settles EXCEPT ![h] = @ + 1] =>
          /\ SettleOffline(h) => h \in Sent(g, w)
          /\ SettleOnline(h) => OpenTo(Charged(g, w), Holdings, h)
  BY <1>1, ChargedClosed
<1>3. Within(Charged(g, w), Holdings, Sent(g, w))'
  <2>1. Within(Charged(g, w), Holdings, Sent(g, w)) /\ Closed(Charged(g, w), Holdings, Sent(g, w))
    BY ChargedClosed DEF Only
  <2> DEFINE C == Charged(g, w)
             M == Sent(g, w)
  <2>2. Within(C, Holdings, M)'
    <3>1. /\ Within(C, Holdings, M) /\ Closed(C, Holdings, M)
          /\ \A h \in Games : settles' = [settles EXCEPT ![h] = @ + 1] =>
                (SettleOffline(h) => h \in M) /\ (SettleOnline(h) => OpenTo(C, Holdings, h))
      BY <1>2, <2>1
    <3> HIDE DEF C, M
    <3> QED
      BY <1>0, <3>1, WithinNext
  <2> QED
    BY <2>2
<1>4. Fresh(g, w)'
  <2>1. \A h \in Games : settles' = [settles EXCEPT ![h] = @ + 1] /\ SettleOnline(h)
                             => h # g \/ w = "settle"
    BY <1>1
  <2> QED
    BY <2>1, FreshNext DEF Only
<1> QED
  BY <1>3, <1>4 DEF Only

\* What was not delivered yet can be delivered in either way.
LEMMA NoneIsAny ==
    ASSUME NEW g \in Games, NEW w, Only(g, "none") PROVE Only(g, w)
<1>1. Charged(g, "none") \subseteq Charged(g, w) /\ Sent(g, "none") \subseteq Sent(g, w)
  BY DEF Charged, Sent
<1>2. DocsOf(Charged(g, "none"), Holdings) \subseteq DocsOf(Charged(g, w), Holdings)
  BY <1>1 DEF DocsOf
<1>3. Seq(Sent(g, "none")) \subseteq Seq(Sent(g, w))
  BY <1>1
<1>4. Within(Charged(g, w), Holdings, Sent(g, w))
  BY <1>2, <1>3 DEF Only, Within
<1>5. Fresh(g, w)
  BY DEF Only, Fresh
<1> QED
  BY <1>4, <1>5 DEF Only

\* Every step keeps the invariant.
LEMMA NextGrantInv == ASSUME GrantInv, [Next]_vars PROVE GrantInv'
<1>1. LobbyInv'
  BY NextLobbyInv DEF GrantInv
<1>2. settles' \in [Games -> Nat] /\ \A g \in Games : settles[g] <= settles'[g]
  BY SettlesNext
<1>3. Within(Payings, Holdings, Games)'
  BY AllClosed, WithinNext DEF GrantInv
<1>4. Kept'
  BY <1>2, KeptNext
<1>5. ASSUME NEW g \in Games, settles'[g] <= 1
      PROVE  \E w \in Ways : (settles'[g] = 0 => w = "none") /\ Only(g, w)'
  <2>1. settles[g] \in Nat /\ settles'[g] \in Nat /\ settles[g] <= settles'[g]
    BY <1>2 DEF GrantInv
  <2>2. PICK w \in Ways : (settles[g] = 0 => w = "none") /\ Only(g, w)
    BY <1>5, <2>1 DEF GrantInv
  <2>3. CASE settles'[g] = settles[g]
    BY <2>2, <2>3, OnlyNext
  <2>4. CASE settles'[g] # settles[g]
    <3> DEFINE v == IF player # 0 THEN "settle" ELSE "spend"
    <3>1. settles[g] = 0 /\ settles'[g] # 0
      BY <1>5, <2>1, <2>4
    <3>2. Only(g, v)
      BY <2>2, <3>1, NoneIsAny
    <3>3. v \in Ways
      BY DEF Ways
    <3>4. ASSUME NEW x, x = v PROVE Only(g, x)'
      <4>1. Only(g, x)
        BY <3>2, <3>4
      <4> QED
        BY <3>4, <4>1, OnlyNext
    <3> HIDE DEF v
    <3> QED
      BY <3>1, <3>3, <3>4
  <2> QED
    BY <2>3, <2>4
<1> QED
  BY <1>1, <1>2, <1>3, <1>4, <1>5 DEF GrantInv

\* At the start nothing was delivered.
LEMMA InitGrantInv == Init => GrantInv
<1> SUFFICES ASSUME Init PROVE GrantInv
  OBVIOUS
<1>1. LobbyInv
  <2>1. Copies(objs)
    BY DEF Init, Copies
  <2> QED
    BY <2>1 DEF Init, LobbyInv, CleanIsCarried
<1>2. /\ objs = <<>> /\ ops = {} /\ doc = NewPlayerDoc /\ offline = <<>> /\ landed = {}
      /\ settles = [g \in Games |-> 0]
  BY DEF Init
<1>3. ASSUME NEW C, NEW B, NEW M, Closed(C, B, M) PROVE Within(C, B, M)
  BY <1>2, <1>3 DEF Closed, Within
<1>4. settles \in [Games -> Nat] /\ \A g \in Games : settles[g] = 0
  BY <1>2
<1>5. Within(Payings, Holdings, Games)
  BY <1>3, AllClosed
<1>6. \A g \in Games : Only(g, "none")
  BY <1>2, <1>3, ChargedClosed DEF Only, Fresh
<1>7. Kept
  BY <1>2, NewDocFacts DEF Kept
<1> QED
  BY <1>1, <1>4, <1>5, <1>6, <1>7 DEF GrantInv, Ways

\* The invariant holds in every reachable state.
THEOREM GrantTheorem == Spec => []GrantInv
<1>1. GrantInv /\ [Next]_vars => GrantInv'
  BY NextGrantInv
<1> QED
  BY <1>1, InitGrantInv, PTL DEF Spec

\* The item of a settlement is granted at most once, in the document and in
\* every copy: by any number of deliveries, replays, failed operations and
\* crashes.
THEOREM ItemOnceTheorem == Spec => []ItemOnce
<1>1. GrantInv => ItemOnce
  <2> SUFFICES ASSUME GrantInv, NEW g \in Games
               PROVE  /\ doc.bag.items[g] <= 1
                      /\ \A i \in DOMAIN objs : objs[i].data.bag.items[g] <= 1
    BY DEF ItemOnce
  <2>1. \A d \in DocsOf(Payings, Holdings) : d.bag.items[g] <= 1
    BY DEF DocsOf, Holdings, Holds
  <2> QED
    BY <2>1 DEF GrantInv, Within
<1> QED
  BY <1>1, GrantTheorem, PTL

\* A settlement is charged at most once if it is delivered at most once, online
\* or offline.
THEOREM ChargedTheorem == Spec => []ChargedPerDelivery
<1>1. GrantInv => ChargedPerDelivery
  <2> SUFFICES ASSUME GrantInv, NEW g \in Games, settles[g] <= 1
               PROVE  /\ doc.currency.paid[g] <= 1
                      /\ \A i \in DOMAIN objs : objs[i].data.currency.paid[g] <= 1
    BY DEF ChargedPerDelivery
  <2>1. PICK w \in Ways : Only(g, w)
    BY DEF GrantInv
  <2>2. ASSUME NEW c \in Charged(g, w) PROVE c.paid[g] <= 1
    <3>1. <<g, "settle">> \notin c.ops \/ <<g, "spend">> \notin c.ops
      BY DEF Charged
    <3>2. c.paid[g] = Holds(c.ops, <<g, "settle">>) + Holds(c.ops, <<g, "spend">>)
      BY DEF Charged, Payings
    <3> QED
      BY <3>1, <3>2 DEF Holds
  <2>3. \A d \in DocsOf(Charged(g, w), Holdings) : d.currency.paid[g] <= 1
    BY <2>2 DEF DocsOf
  <2> QED
    BY <2>1, <2>3 DEF Only, Within
<1> QED
  BY <1>1, GrantTheorem, PTL

\* An offline message leaves the store only after its item has been in the
\* document, or the settlement was delivered a second time.
THEOREM OfflineKeptTheorem == Spec => OfflineKept
<1> DEFINE A == \A g \in Games : g \in Range(offline) \ Range(offline')
                  => \/ g \in landed
                     \/ settles[g] > 1 /\ \E i \in DOMAIN objs : g \in objs[i].data.bag.ops
<1>1. GrantInv /\ [Next]_vars => A
  <2> SUFFICES ASSUME GrantInv, [Next]_vars, NEW g \in Games,
                      g \in Range(offline), g \notin Range(offline')
               PROVE  \/ g \in landed
                      \/ settles[g] > 1 /\ \E i \in DOMAIN objs : g \in objs[i].data.bag.ops
    OBVIOUS
  <2>1. offline' # offline
    OBVIOUS
  <2>2. PICK op \in ops : Effect(op)
    <3>1. PICK op \in ops : DbStep(op)
      <4>1. LobbyInv
        BY DEF GrantInv
      <4>2. \E op \in ops : Execute(op) \/ Fail(op)
        BY <2>1, <4>1, NextShape DEF QuietStep, LoadStep, ReplayStep, AcceptStep, OnlineStep,
                                     PushStep, Crash
      <4> QED
        BY <4>1, <4>2, DbShape
    <3> QED
      BY <2>1, <3>1 DEF DbStep
  <2>3. offline \in Seq(Games) /\ op.games \in Seq(Games)
    BY DEF GrantInv, Within
  <2>4. op.kind = "ack" /\ g \in Range(op.games)
    <3>1. CASE op.kind = "push"
      <4>1. offline' = AppendNew(offline, op.games[1]) /\ op.games # <<>>
        BY <2>2, <3>1 DEF Effect, GrantInv, Within
      <4>2. op.games[1] \in Games
        BY <2>3, <4>1
      <4> QED
        BY <2>3, <4>1, <4>2, AppendNewFacts
    <3>2. CASE op.kind = "ack"
      <4>1. offline' = RemoveAll(offline, op.games)
        BY <2>2, <3>2 DEF Effect
      <4> QED
        BY <2>3, <3>2, <4>1, RemoveAllFacts
    <3>3. CASE op.kind \notin {"push", "ack"}
      BY <2>1, <2>2, <3>3 DEF Effect
    <3> QED
      BY <3>1, <3>2, <3>3
  <2>5. Done(g, op.obj) /\ op.obj \in DOMAIN objs
    BY <2>4 DEF GrantInv, Kept, AckSafe, LobbyInv, ValidOp
  <2> QED
    BY <2>5 DEF Done
<1>2. GrantInv /\ [Next]_vars => [A]_vars
  BY <1>1
<1>3. Spec => [][A]_vars
  <2> HIDE DEF A
  <2> QED
    BY <1>2, GrantTheorem, PTL DEF Spec
<1> QED
  BY <1>3 DEF OfflineKept
==============================================================================
