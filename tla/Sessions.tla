------------------------------ MODULE Sessions ------------------------------
(***************************************************************************)
(* SessionManager (core/session/session.go): the sessions of the clients,  *)
(* found by the remote address of their connection and by user.  Every     *)
(* operation runs under the manager's lock and is one action.  A session   *)
(* stays in use by whoever holds a pointer to it after it has left the     *)
(* tables, so what a session carries is kept for all sessions ever made.   *)
(*                                                                         *)
(* The flag Authed, which follows the user, and the nodes a session is     *)
(* bound to, which only choose the target of a request, are left out.      *)
(***************************************************************************)
EXTENDS Naturals, FiniteSets

CONSTANTS Addrs,      \* remote addresses: ConnID
          Uids,       \* users
          SessionIDs, \* identities of sessions: the pointers
          NoUid,      \* the user 0: not bound
          NoSession   \* nil

ASSUME SessionConstants == Addrs # {} /\ NoUid \notin Uids /\ NoSession \notin SessionIDs

VARIABLES byConn,   \* address -> session or NoSession
          byUID,    \* user -> session or NoSession
          created,  \* sessions made so far
          connID,   \* Session.ConnID: the address of a session
          uid       \* Session.UID

sessions == <<byConn, byUID, created, connID, uid>>

InitSessions ==
    /\ byConn = [a \in Addrs |-> NoSession]
    /\ byUID = [u \in Uids |-> NoSession]
    /\ created = {}
    /\ connID = [s \in SessionIDs |-> CHOOSE a \in Addrs : TRUE]
    /\ uid = [s \in SessionIDs |-> NoUid]

\* Wrong variant: an entry of the address stays.
EnterOnce(s, a) == IF byConn[a] = NoSession THEN [byConn EXCEPT ![a] = s] ELSE byConn
\* OnConnect replaces a session of the same address.
Enter(s, a) == [byConn EXCEPT ![a] = s]

OnConnect(s, a) ==
    /\ s \in SessionIDs \ created
    /\ created' = created \cup {s}
    /\ connID' = [connID EXCEPT ![s] = a]
    /\ byConn' = Enter(s, a)
    /\ UNCHANGED <<byUID, uid>>

\* Wrong variant: the address is not freed.
FreeNothing(a) == byConn
Free(a) == [byConn EXCEPT ![a] = NoSession]

\* OnDisconnect removes whatever session the address has, and its user's entry.
OnDisconnect(a) ==
    /\ byConn' = Free(a)
    /\ byUID' = [u \in Uids |->
                  IF byConn[a] # NoSession /\ uid[byConn[a]] = u THEN NoSession ELSE byUID[u]]
    /\ UNCHANGED <<created, connID, uid>>

\* Wrong variant: the session that had the user keeps it.
KeepOld(t, sess, u) == FALSE
\* BindSession takes the user away from another session that has it.
LosesUid(t, sess, u) == u \in Uids /\ t = byUID[u] /\ t # sess

\* The session sess gets the user u, which may be 0.
BindTo(sess, u) ==
    /\ uid' = [t \in SessionIDs |->
                CASE t = sess -> u
                  [] t # sess /\ LosesUid(t, sess, u) -> NoUid
                  [] OTHER -> uid[t]]
    /\ byUID' = [v \in Uids |->
                  CASE v = u -> sess
                    [] v # u /\ v = uid[sess] -> NoSession
                    [] OTHER -> byUID[v]]

\* BindSession makes a session, without a connection, for an address that has none.
BindSession(s, a, u) ==
    \/ /\ byConn[a] # NoSession
       /\ BindTo(byConn[a], u)
       /\ UNCHANGED <<byConn, created, connID>>
    \/ /\ byConn[a] = NoSession
       /\ s \in SessionIDs \ created
       /\ created' = created \cup {s}
       /\ connID' = [connID EXCEPT ![s] = a]
       /\ byConn' = [byConn EXCEPT ![a] = s]
       /\ BindTo(s, u)

NextSessions ==
    \/ \E s \in SessionIDs, a \in Addrs :
         OnConnect(s, a) \/ \E u \in Uids \cup {NoUid} : BindSession(s, a, u)
    \/ \E a \in Addrs : OnDisconnect(a)

SpecSessions == InitSessions /\ [][NextSessions]_sessions

-----------------------------------------------------------------------------
SessionsTypeOK ==
    /\ created \subseteq SessionIDs
    /\ byConn \in [Addrs -> created \cup {NoSession}]
    /\ byUID \in [Uids -> created \cup {NoSession}]
    /\ connID \in [SessionIDs -> Addrs]
    /\ uid \in [SessionIDs -> Uids \cup {NoUid}]

\* The session is the one its address leads to.
Live(s) == s \in created /\ byConn[connID[s]] = s

\* Two sessions that can be reached by their addresses never carry the same
\* user: the code's comment on BindSession has it clear the user of the other
\* session "以保护 byUID 索引", and the end of a session takes its user's entry
\* along without taking that of another one.
OneSessionPerUser ==
    \A s, t \in created : Live(s) /\ Live(t) /\ uid[s] = uid[t] /\ uid[s] # NoUid => s = t

\* The tables agree: an entry of the address table is a session of that
\* address, and the user of a session that its address leads to leads to it.
IndexAgrees ==
    /\ \A a \in Addrs : byConn[a] # NoSession => connID[byConn[a]] = a
    /\ \A s \in created : Live(s) /\ uid[s] # NoUid => byUID[uid[s]] = s
=============================================================================
