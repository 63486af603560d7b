-------------------------------- MODULE Lobby --------------------------------
(***************************************************************************)
(* The player runtime of the lobby (lobby/internal/runtime.go) for one     *)
(* user: login, disconnect, settlement of auctions, the flushing of dirty  *)
(* components and the replay of settlements that arrived while the user    *)
(* was offline.  The runtime is a single loop, so a handler or a callback  *)
(* is one action.  Every store operation runs in a goroutine of its own:   *)
(* the database executes the operations in any order, each may fail before *)
(* or after it took effect, and their callbacks come back in any order.    *)
(* A crash loses the memory of the process and the pending callbacks.      *)
(***************************************************************************)
EXTENDS Integers, Sequences, Functions, FiniteSetsExt

CONSTANTS Games,         \* auctions settled for the user, price 1, one item each
          Winners,       \* those of them the user has won
          StartBalance,  \* balance in the document at the start
          MaxLogins,     \* bound: logins
          MaxEvents      \* bound: logins, deliveries of settlements, a mail,
                         \* failures of store operations and crashes together

ASSUME LobbyAssumption ==
    /\ Winners \subseteq Games
    /\ IsFiniteSet(Games)
    /\ StartBalance \in Nat /\ MaxLogins \in Nat /\ MaxEvents \in Nat

VARIABLES objs,        \* working copies made since the process started
          player,      \* rt.players[uid]: index of the resident copy, or 0
          dirtyFlush,  \* rt.dirtyFlush[uid]
          inflight,    \* rt.inflight
          running,     \* the loop: "run", "drain" or "done"
          ops,         \* store operations whose callback has not run
          doc,         \* the user's document in players
          offline,     \* the user's document in offline_messages: the games
                       \* in the order of their first message
          mail,        \* a friend_accept mail: "none", "open" or "claimed"
          logins,      \* logins made
          waiting,     \* logins not yet answered
          settles,     \* per game, how often its settlement was delivered
          fails, crashes,
          landed       \* games whose item has been in the document

vars == <<objs, player, dirtyFlush, inflight, running, ops, doc, offline,
          mail, logins, waiting, settles, fails, crashes, landed>>

Fields == {"currency", "bag", "friend"}

\* A player document: what was paid and received per game, with the op-ids
\* kept beside it (fewer than the ring of opDedup holds).
NewPlayerDoc ==
    [currency |-> [paid |-> [g \in Games |-> 0], ops |-> {}],
     bag      |-> [items |-> [g \in Games |-> 0], ops |-> {}],
     friend   |-> FALSE]

Docs ==
    [currency : [paid : [Games -> Nat], ops : SUBSET (Games \X {"settle", "spend"})],
     bag      : [items : [Games -> Nat], ops : SUBSET Games],
     friend   : BOOLEAN]

\* A store operation: the copy it is about, or the number of the login or
\* delivery that asked for it; what it carries or returns; and what the
\* callback of a flush goes on to do.
Op(kind, obj, snap, fields, games, after) ==
    [kind |-> kind, obj |-> obj, snap |-> snap, fields |-> fields,
     games |-> games, after |-> after, phase |-> "sent"]

\* An operation that carries no snapshot.
Ask(kind, obj, games) == Op(kind, obj, NewPlayerDoc, {}, games, "none")

Kinds == {"load", "replay", "flush", "ack", "push", "accepts", "claim"}

\* A game occurs once in the sequence of offline messages.
Messages == {q \in UNION {[1..n -> Games] : n \in 0..Cardinality(Games)} :
                IsInjective(q)}

\* Types: copies, operations and documents are what flushPlayer, the stores
\* and the callbacks of the runtime pass around, within the bounds.
TypeOK ==
    /\ objs \in Seq([data : Docs, dirty : SUBSET Fields, saved : SUBSET Fields])
    /\ Len(objs) <= MaxLogins
    /\ player \in 0..Len(objs)
    /\ dirtyFlush \in BOOLEAN
    /\ inflight \in Nat
    /\ running \in {"run", "drain", "done"}
    /\ \A op \in ops :
        /\ op.kind \in Kinds
        /\ op.obj \in Nat
        /\ op.kind \notin {"load", "push"} => op.obj \in 1..Len(objs)
        /\ op.snap \in Docs
        /\ op.fields \subseteq Fields
        /\ op.games \in Messages
        /\ op.after \in {"none", "drop", "ack"}
        /\ op.phase \in {"sent", "ok", "error"}
    /\ doc \in Docs
    /\ offline \in Messages
    /\ mail \in {"none", "open", "claimed"}
    /\ logins \in 0..MaxLogins
    /\ waiting \in 0..MaxLogins
    /\ settles \in [Games -> 0..MaxEvents]
    /\ fails \in 0..MaxEvents
    /\ crashes \in 0..MaxEvents
    /\ landed \subseteq Games

Init ==
    /\ objs = <<>>
    /\ player = 0
    /\ dirtyFlush = FALSE
    /\ inflight = 0
    /\ running = "run"
    /\ ops = {}
    /\ doc = NewPlayerDoc
    /\ offline = <<>>
    /\ mail = "none"
    /\ logins = 0
    /\ waiting = 0
    /\ settles = [g \in Games |-> 0]
    /\ fails = 0
    /\ crashes = 0
    /\ landed = {}

\* What the environment may still do: n more events; a mail counts as two.
More(n) ==
    logins + MapThenSumSet(LAMBDA g : settles[g], Games) + fails + crashes
        + (IF mail = "none" THEN 0 ELSE 2) + n <= MaxEvents

-----------------------------------------------------------------------------
(* Components *)

Balance(currency) ==
    StartBalance - MapThenSumSet(LAMBDA g : currency.paid[g], Games)

\* Currency.Spend: whether it succeeds, and the component after it.
Seen(currency, opID) == opID \in currency.ops
CanSpend(currency, opID) == Seen(currency, opID) \/ Balance(currency) >= 1
\* Wrong variant: an op-id that was seen before is charged again.
SpendTwice(currency, opID) ==
    IF Balance(currency) < 1
    THEN currency
    ELSE [paid |-> [currency.paid EXCEPT ![opID[1]] = @ + 1],
          ops  |-> currency.ops \cup {opID}]
Spend(currency, opID) ==
    IF Seen(currency, opID) \/ Balance(currency) < 1
    THEN currency
    ELSE [paid |-> [currency.paid EXCEPT ![opID[1]] = @ + 1],
          ops  |-> currency.ops \cup {opID}]

\* Wrong variant: an op-id that was seen before is not skipped.
AddTwice(bag, g) ==
    [items |-> [bag.items EXCEPT ![g] = @ + 1], ops |-> bag.ops \cup {g}]

\* Bag.Add of the item of a game, under the op-id of the game.
Add(bag, g) ==
    IF g \in bag.ops THEN bag
    ELSE [items |-> [bag.items EXCEPT ![g] = @ + 1], ops |-> bag.ops \cup {g}]

\* A copy after a change: the components that differ are dirty.
Changed(o, data) ==
    LET fs == {f \in Fields : data[f] # o.data[f]} IN
    [data |-> data, dirty |-> o.dirty \cup fs, saved |-> o.saved \ fs]

\* Settlement of a game the user has won, online.
Settled(data, g) ==
    [data EXCEPT !.currency = Spend(@, <<g, "settle">>), !.bag = Add(@, g)]

\* applyOfflineMsg: the result of Spend is not looked at.
applyOfflineMsg(data, g) ==
    [data EXCEPT !.currency = Spend(@, <<g, "spend">>), !.bag = Add(@, g)]

\* The messages of the offline document, one after the other.
Replayed(data, games) ==
    LET after[n \in 0..Len(games)] ==
            IF n = 0 THEN data ELSE applyOfflineMsg(after[n - 1], games[n])
    IN after[Len(games)]

-----------------------------------------------------------------------------
(* Store operations *)

\* Issue one operation; answered is the one whose callback is running.
Issue(op, answered) == ops' = (ops \ answered) \cup {op}
IssueNothing(answered) == ops' = ops \ answered

\* flushPlayer clears the flags of what it has taken a snapshot of.
ClearDirty(o) == [o EXCEPT !.dirty = {}]

\* flushPlayer when something is dirty; the objects are passed as they are
\* in the middle of the handler.
IssueFlush(os, i, after, games, answered) ==
    /\ Issue(Op("flush", i, os[i].data, os[i].dirty, games, after), answered)
    /\ objs' = [os EXCEPT ![i] = ClearDirty(@)]
    /\ inflight' = inflight + 1

\* $push of a message whose op-id is there already changes nothing that the
\* replay can tell, and $pull removes every message with an acknowledged op-id.
AppendNew(q, g) == IF g \in Range(q) THEN q ELSE Append(q, g)
KeepOther(q, g, games) == IF g \in Range(games) THEN q ELSE Append(q, g)
RemoveAll(q, games) ==
    LET kept[n \in 0..Len(q)] ==
            IF n = 0 THEN <<>> ELSE KeepOther(kept[n - 1], q[n], games)
    IN kept[Len(q)]

\* The database executes an operation: a read takes its result, a write takes
\* effect; or it fails, a write then with or without effect.
Effect(op) ==
    /\ doc' = IF op.kind = "flush"
              THEN [f \in Fields |-> IF f \in op.fields THEN op.snap[f] ELSE doc[f]]
              ELSE doc
    /\ landed' = landed \cup doc'.bag.ops
    /\ offline' = CASE op.kind = "push" -> AppendNew(offline, op.games[1])
                    [] op.kind = "ack"  -> RemoveAll(offline, op.games)
                    [] OTHER -> offline
    /\ mail' = IF op.kind = "claim" /\ mail = "open" THEN "claimed" ELSE mail

Result(op) ==
    CASE op.kind = "load"    -> [op EXCEPT !.phase = "ok", !.snap = doc]
      [] op.kind = "replay"  -> [op EXCEPT !.phase = "ok", !.games = offline]
      [] op.kind = "accepts" -> [op EXCEPT !.phase = "ok",
                                  !.fields = IF mail = "open" THEN {"friend"} ELSE {}]
      [] OTHER -> [op EXCEPT !.phase = "ok"]

Execute(op) ==
    /\ op.phase = "sent"
    /\ ops' = (ops \ {op}) \cup {Result(op)}
    /\ Effect(op)
    /\ UNCHANGED <<objs, player, dirtyFlush, inflight, running,
                   logins, waiting, settles, fails, crashes>>

Fail(op) ==
    /\ op.phase = "sent"
    /\ More(1)
    /\ fails' = fails + 1
    /\ Effect(op) \/ UNCHANGED <<doc, offline, mail, landed>>
    /\ ops' = (ops \ {op}) \cup {[op EXCEPT !.phase = "error"]}
    /\ UNCHANGED <<objs, player, dirtyFlush, inflight, running,
                   logins, waiting, settles, crashes>>

-----------------------------------------------------------------------------
(* Login *)

\* What was submitted to the queue runs in the loop, and while the loop is
\* stopping as long as a flush is under way.
LoopRuns == running = "run" \/ (running = "drain" /\ inflight > 0)

Handler ==
    /\ LoopRuns
    /\ UNCHANGED <<doc, offline, mail, landed, running, fails, crashes>>

Callback(op, kind) ==
    /\ LoopRuns
    /\ op.kind = kind
    /\ op.phase # "sent"
    /\ UNCHANGED <<doc, offline, mail, landed, running, logins, settles, fails,
                   crashes>>

\* Login of a user who is resident is answered at once, any other loads the
\* document first.
Login ==
    /\ Handler
    /\ More(1) /\ logins < MaxLogins
    /\ logins' = logins + 1
    /\ IF player # 0
       THEN /\ IssueNothing({})
            /\ UNCHANGED waiting
       ELSE /\ Issue(Ask("load", logins', <<>>), {})
            /\ waiting' = waiting + 1
    /\ UNCHANGED <<objs, player, dirtyFlush, inflight, settles>>

\* The document is loaded: the copy becomes resident, whatever was, and the
\* offline messages are asked for.
Loaded(op) ==
    /\ Callback(op, "load")
    /\ IF op.phase = "error"
       THEN /\ IssueNothing({op})
            /\ waiting' = waiting - 1
            /\ UNCHANGED <<objs, player>>
       ELSE /\ objs' = Append(objs, [data |-> op.snap, dirty |-> {},
                                     saved |-> Fields])
            /\ player' = Len(objs')
            /\ Issue(Ask("replay", player', <<>>), {op})
            /\ UNCHANGED waiting
    /\ UNCHANGED <<dirtyFlush, inflight>>

\* The login is answered and the friend_accept mails are scanned.
LoginDone(i, answered) ==
    /\ waiting' = waiting - 1
    /\ Issue(Ask("accepts", i, <<>>), answered)

\* Wrong variant: the messages are acknowledged without waiting for a flush.
AckBeforeFlush(op) ==
    /\ UNCHANGED inflight
    /\ objs' = [objs EXCEPT ![op.obj] = Changed(@, Replayed(@.data, op.games))]
    /\ Issue(Ask("ack", op.obj, op.games), {op})

\* The copy with the messages applied is flushed before they are acknowledged;
\* nothing dirty means that it holds them already.
FlushThenAck(op) ==
    LET os == [objs EXCEPT ![op.obj] = Changed(@, Replayed(@.data, op.games))] IN
    IF os[op.obj].dirty = {}
    THEN /\ Issue(Ask("ack", op.obj, op.games), {op})
         /\ objs' = os
         /\ UNCHANGED inflight
    ELSE IssueFlush(os, op.obj, "ack", op.games, {op})

\* replayOffline, once the messages are there.
OfflineLoaded(op) ==
    /\ Callback(op, "replay")
    /\ IF op.phase = "error" \/ op.games = <<>>
       THEN /\ LoginDone(op.obj, {op})
            /\ UNCHANGED <<objs, inflight>>
       ELSE /\ FlushThenAck(op)
            /\ UNCHANGED waiting
    /\ UNCHANGED <<player, dirtyFlush>>

\* The messages are gone from the offline document, or could not be removed.
Acked(op) ==
    /\ Callback(op, "ack")
    /\ LoginDone(op.obj, {op})
    /\ UNCHANGED <<objs, player, dirtyFlush, inflight>>

\* Another player accepts a friend request: a mail in the store.
FriendAccepts ==
    /\ mail = "none" /\ More(2)
    /\ mail' = "open"
    /\ UNCHANGED <<objs, player, dirtyFlush, inflight, running, ops, doc, offline,
                   logins, waiting, settles, fails, crashes, landed>>

\* scanFriendAccepts: the friend is added to the copy the login made and the
\* mail is claimed.
AcceptsLoaded(op) ==
    /\ Callback(op, "accepts")
    /\ IF op.phase = "error" \/ op.fields = {}
       THEN /\ IssueNothing({op})
            /\ UNCHANGED <<objs, dirtyFlush>>
       ELSE /\ objs' = [objs EXCEPT ![op.obj] =
                            Changed(@, [@.data EXCEPT !.friend = TRUE])]
            /\ dirtyFlush' = (dirtyFlush \/ ~objs[op.obj].data.friend)
            /\ Issue(Ask("claim", op.obj, <<>>), {op})
    /\ UNCHANGED <<player, inflight, waiting>>

Claimed(op) ==
    /\ Callback(op, "claim")
    /\ IssueNothing({op})
    /\ UNCHANGED <<objs, player, dirtyFlush, inflight, waiting>>

-----------------------------------------------------------------------------
(* Flushing *)

\* Wrong variant: a failed flush is forgotten.
MarkNothing(o, op) == o

\* A failed flush marks its components dirty again.  saved is an auxiliary
\* record of the components whose present content a flush has stored.
MarkDirty(o, op) ==
    IF op.phase = "error"
    THEN [o EXCEPT !.dirty = @ \cup op.fields]
    ELSE [o EXCEPT !.saved =
              @ \cup {f \in op.fields : op.snap[f] = o.data[f]}]

\* Wrong variant: a failed flush is not counted down.
LandedOnSuccess(op) == IF op.phase = "ok" THEN inflight - 1 ELSE inflight

\* Wrong variant: a failed flush counts down in its error path as well.
LandedTwice(op) == IF op.phase = "ok" THEN inflight - 1 ELSE inflight - 2

\* The deferred inflight.Add(-1).
Landed(op) == inflight - 1

\* Wrong variant: the early return after a failed flush forgets the login.
AckOnly(op) ==
    /\ UNCHANGED waiting
    /\ IF op.phase = "ok" THEN Issue(Ask("ack", op.obj, op.games), {op})
                          ELSE IssueNothing({op})

\* replayOffline after its flush: the messages are acknowledged, or stay for
\* the next login.
AckOrLoginDone(op) ==
    IF op.phase = "ok"
    THEN /\ Issue(Ask("ack", op.obj, op.games), {op})
         /\ UNCHANGED waiting
    ELSE LoginDone(op.obj, {op})

\* The callback of FlushFields and what its caller asked to happen after it.
Flushed(op) ==
    /\ Callback(op, "flush")
    /\ objs' = [objs EXCEPT ![op.obj] = MarkDirty(@, op)]
    /\ inflight' = Landed(op)
    /\ \/ /\ op.after = "none"
          /\ IssueNothing({op})
          /\ UNCHANGED <<player, waiting>>
       \/ /\ op.after = "drop"
          /\ player' = IF op.phase = "ok" THEN 0 ELSE player
          /\ IssueNothing({op})
          /\ UNCHANGED waiting
       \/ /\ op.after = "ack"
          /\ AckOrLoginDone(op)
          /\ UNCHANGED player
    /\ UNCHANGED dirtyFlush

FlushResident ==
    IF player # 0 /\ objs[player].dirty # {}
    THEN IssueFlush(objs, player, "none", <<>>, {})
    ELSE /\ IssueNothing({})
         /\ UNCHANGED <<objs, inflight>>

flushAllDirty ==
    /\ Handler
    /\ running = "run"
    /\ FlushResident
    /\ UNCHANGED <<player, dirtyFlush, logins, waiting, settles>>

coalesceFlush ==
    /\ Handler
    /\ running = "run"
    /\ dirtyFlush
    /\ dirtyFlush' = FALSE
    /\ FlushResident
    /\ UNCHANGED <<player, logins, waiting, settles>>

\* Disconnect: a clean copy is dropped at once, a dirty one after its flush.
Disconnect ==
    /\ Handler
    /\ player # 0
    /\ IF objs[player].dirty # {}
       THEN /\ IssueFlush(objs, player, "drop", <<>>, {})
            /\ UNCHANGED player
       ELSE /\ player' = 0
            /\ IssueNothing({})
            /\ UNCHANGED <<objs, inflight>>
    /\ UNCHANGED <<dirtyFlush, logins, waiting, settles>>

-----------------------------------------------------------------------------
(* Settlement *)

\* Settle of a resident user: only the winner pays and receives, and a winner
\* who cannot pay is refused.
SettleOnline(g) ==
    /\ player # 0
    /\ IF g \in Winners /\ ~CanSpend(objs[player].data.currency, <<g, "settle">>)
       THEN UNCHANGED <<objs, dirtyFlush>>
       ELSE /\ objs' = IF g \in Winners
                       THEN [objs EXCEPT ![player] = Changed(@, Settled(@.data, g))]
                       ELSE objs
            /\ dirtyFlush' = TRUE
    /\ IssueNothing({})

\* Settle of a user who is not becomes an offline message.
SettleOffline(g) ==
    /\ player = 0
    /\ Issue(Ask("push", settles'[g], <<g>>), {})
    /\ UNCHANGED <<objs, dirtyFlush>>

Settle(g) ==
    /\ Handler
    /\ More(1)
    /\ settles' = [settles EXCEPT ![g] = @ + 1]
    /\ SettleOnline(g) \/ SettleOffline(g)
    /\ UNCHANGED <<player, inflight, logins, waiting>>

\* offlinePush answers the caller.
Pushed(op) ==
    /\ Callback(op, "push")
    /\ IssueNothing({op})
    /\ UNCHANGED <<objs, player, dirtyFlush, inflight, waiting>>

-----------------------------------------------------------------------------
(* The end of the process *)

\* Stop: the loop flushes what is dirty and goes on to drain.
Stop ==
    /\ running = "run"
    /\ running' = "drain"
    /\ FlushResident
    /\ UNCHANGED <<player, dirtyFlush, doc, offline, mail, logins, waiting,
                   settles, fails, crashes, landed>>

\* drain returns when no flush is under way, or at its deadline.
Return ==
    /\ running = "drain"
    /\ running' = "done"
    /\ UNCHANGED <<objs, player, dirtyFlush, inflight, ops, doc, offline, mail,
                   logins, waiting, settles, fails, crashes, landed>>

Drained == inflight = 0 /\ Return
DrainTimeout == inflight > 0 /\ Return

\* The process dies and a new one starts; what the database has not executed
\* by then is lost with the connection.
Crash ==
    /\ More(1)
    /\ crashes' = crashes + 1
    /\ objs' = <<>>
    /\ player' = 0
    /\ dirtyFlush' = FALSE
    /\ inflight' = 0
    /\ running' = "run"
    /\ ops' = {}
    /\ waiting' = 0
    /\ UNCHANGED <<doc, offline, mail, logins, settles, fails, landed>>

RunCallback ==
    \E op \in ops :
        \/ Loaded(op) \/ OfflineLoaded(op) \/ Acked(op)
        \/ AcceptsLoaded(op) \/ Claimed(op) \/ Flushed(op) \/ Pushed(op)

Next ==
    \/ Login
    \/ Disconnect
    \/ flushAllDirty
    \/ coalesceFlush
    \/ \E g \in Games : Settle(g)
    \/ FriendAccepts
    \/ RunCallback
    \/ \E op \in ops : Execute(op) \/ Fail(op)
    \/ Stop
    \/ Drained
    \/ DrainTimeout
    \/ Crash

Spec == Init /\ [][Next]_vars

\* The loop runs what is in its queue and drain looks at the counter.  That a
\* store operation comes back is assumed of the database: the code gives it no
\* deadline.  That a flush or the deadline of drain comes is not assumed.
Fairness ==
    /\ WF_vars(RunCallback)
    /\ WF_vars(\E op \in ops : Execute(op))
    /\ WF_vars(Drained)

FairSpec == Spec /\ Fairness

-----------------------------------------------------------------------------
(* Properties *)

\* The item of a game is granted at most once, in the document and in every
\* copy, however often the settlement is delivered, replayed after an Ack that
\* failed, or replayed by a process that starts after a crash: Bag.Add keeps
\* the op-id in the field it changes.
ItemOnce ==
    \A g \in Games :
        /\ doc.bag.items[g] <= 1
        /\ \A i \in DOMAIN objs : objs[i].data.bag.items[g] <= 1

\* A settlement is charged once, through every failed Ack, replay and crash;
\* a second time only if it was delivered a second time, because the online
\* and the offline way charge under different op-ids.
ChargedPerDelivery ==
    \A g \in Games : settles[g] <= 1 =>
        /\ doc.currency.paid[g] <= 1
        /\ \A i \in DOMAIN objs : objs[i].data.currency.paid[g] <= 1

\* A component whose dirty flag is down is stored as it is, or a flush that
\* carries its present content has yet to call back: flushPlayer clears the
\* flag when it takes the snapshot, a change during the flush sets it again
\* and a failure sets it again.
CleanIsCarried ==
    \A i \in DOMAIN objs : \A f \in Fields \ objs[i].dirty :
        \/ f \in objs[i].saved
        \/ \E op \in ops : /\ op.kind = "flush"
                           /\ op.obj = i
                           /\ f \in op.fields
                           /\ op.snap[f] = objs[i].data[f]

\* An offline message leaves the store only after the item it grants has been
\* in the player document: replayOffline acknowledges after its flush.  A
\* settlement that was delivered online as well is the exception: the replay
\* finds the item in the working copy, flushes without it and acknowledges,
\* though the flush of the copy may not have landed, or may have failed.
OfflineKept ==
    [][\A g \in Games : g \in Range(offline) \ Range(offline')
            => \/ g \in landed
               \/ settles[g] > 1 /\ \E i \in DOMAIN objs : g \in objs[i].data.bag.ops]_vars

\* Every login is answered, whichever of load, replay, flush and Ack fails,
\* unless the process stops first.
LoginAnswered == waiting > 0 ~> waiting = 0 \/ running # "run"

\* drain ends without its deadline: every flush counted in is counted out,
\* failed or not, also those that callbacks and late handlers start.
DrainEnds == running = "drain" ~> running # "drain"

\* A settlement is charged at most once, however often it is delivered
\* (CurrencyState.Ops).
ChargedOnce ==
    \A g \in Games : \A i \in DOMAIN objs : objs[i].data.currency.paid[g] <= 1

\* A settlement that could not be charged is left to be retried
\* (Currency.Spend): its offline message stays until it has been paid.
UnpaidIsRetried ==
    [][\A g \in Games : g \in Range(offline) \ Range(offline')
                            => doc.currency.paid[g] > 0]_vars

\* Only winners are charged (OfflineMsgSettle).
OnlyWinnersPay ==
    \A g \in Games \ Winners : \A i \in DOMAIN objs :
        objs[i].data.currency.paid[g] = 0

\* Disconnect drops the copy in memory after it is flushed.
DroppedAfterFlush ==
    [][player # 0 /\ player' = 0 /\ crashes' = crashes
          => objs[player].saved = Fields]_vars

\* A component has changes that are not stored only if it is dirty or its
\* flush has yet to call back (Component.Dirty).
UnsavedIsDirty ==
    player # 0 /\ ops = {} =>
        \A f \in Fields \ objs[player].dirty : doc[f] = objs[player].data[f]
=============================================================================
