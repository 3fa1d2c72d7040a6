------------------------------ MODULE Session ------------------------------
(***************************************************************************)
(* Who is logged in where: CloudServer's login, logout and routing state   *)
(* (CloudServer/cloudserver.cpp) together with the accounts kept in the    *)
(* database (CloudServer/db.cpp).                                          *)
(*                                                                         *)
(* Handlers of connections on different loops run concurrently.  Each      *)
(* takes DB::mutex_ and CloudServer::mmutex_ one after the other, never    *)
(* together, so a login and a close consist of two atomic steps each, and  *)
(* steps of other connections come between them.  The database outlives    *)
(* the server process; an UPDATE may fail, and its result is not looked at.*)
(***************************************************************************)
EXTENDS Naturals, FiniteSets

CONSTANTS Users,          \* account names
          Fds,            \* descriptors the kernel may hand out, reused
          ThreadNum,      \* number of subordinate loops
          NoFd,           \* usernames_ has no entry for the name
          LoginsPerConn   \* how many accounts a client logs in on one connection

ASSUME SessionAssumption ==
    /\ Fds \subseteq Nat /\ NoFd \notin Fds
    /\ ThreadNum \in Nat \ {0}
    /\ LoginsPerConn \in Nat

VARIABLES account,    \* rows of usrInfo
          online,     \* the accounts whose column online is 1
          lost,       \* accounts with a failed UPDATE since the last reset at start
          usernames,  \* CloudServer::usernames_, NoFd for a missing key
          main,       \* the connection that TcpServer::newConnection is at, or NoFd
          open,       \* connections that are read (enablereading is posted)
          conns,      \* keys of CloudServer::conns_
          gone,       \* connections whose peer has closed or died
          cur,        \* for each loop, the rest of the handler it is in
          session,    \* the accounts whose login was accepted on a connection
          up          \* the server process is running

vars == <<account, online, lost, usernames, main, open, conns, gone, cur, session, up>>

Loops == 0 .. ThreadNum - 1
LoopOf(f) == f % ThreadNum      \* subloop_[fd%threadNum_]

\* What is left to do in a handler after its first locked section.
Idle == [op |-> "idle"]
Rest == [op : {"login", "offline"}, fd : Fds, user : Users] \cup {Idle}

IsIdle(l) == cur[l] = Idle

\* The names that route to a connection.
NamesOf(f) == {u \in Users : usernames[u] = f}

Init ==
    /\ account = {}
    /\ online = {}
    /\ lost = {}
    /\ usernames = [u \in Users |-> NoFd]
    /\ main = NoFd
    /\ open = {}
    /\ conns = {}
    /\ gone = {}
    /\ cur = [l \in Loops |-> Idle]
    /\ session = [f \in Fds |-> {}]
    /\ up = TRUE

-----------------------------------------------------------------------------
(* The database.                                                           *)

\* update usrInfo set online=... where name=u: the result is ignored by the
\* callers, so the statement may be lost without anybody noticing.
SetOnline(u, yes) ==
    \/ /\ online' = IF yes THEN online \cup {u} ELSE online \ {u}
       /\ lost' = lost
    \/ /\ online' = online
       /\ lost' = lost \cup {u}

-----------------------------------------------------------------------------
(* Mutants: plausible mistakes in the handlers, each caught by a property. *)

\* handlelogin without its SELECT: the UPDATE alone decides.
LoginWithoutSelect(f, u) ==
    /\ f \in open
    /\ IsIdle(LoopOf(f))
    /\ Cardinality(session[f]) < LoginsPerConn
    /\ SetOnline(u, TRUE)
    /\ session' = [session EXCEPT ![f] = @ \cup {u}]
    /\ cur' = [cur EXCEPT ![LoopOf(f)] = [op |-> "login", fd |-> f, user |-> u]]
    /\ UNCHANGED <<account, usernames, main, open, conns, gone, up>>

\* handlelogin without "and online=0" in its SELECT.
LoginIgnoresOnline(f, u) ==
    u \in account /\ LoginWithoutSelect(f, u)

\* handleClose without the call of handleoffline.
CloseForgetsOffline(f) ==
    /\ f \in open \cap gone
    /\ IsIdle(LoopOf(f))
    /\ usernames' = [u \in Users |-> IF usernames[u] = f THEN NoFd ELSE usernames[u]]
    /\ open' = open \ {f}
    /\ conns' = conns \ {f}
    /\ gone' = gone \ {f}
    /\ session' = [session EXCEPT ![f] = {}]
    /\ UNCHANGED <<account, online, lost, main, cur, up>>

\* handleClose without usernames_.erase(it).
CloseKeepsName(f) ==
    /\ f \in open \cap gone
    /\ IsIdle(LoopOf(f))
    /\ \E u \in NamesOf(f) :
          cur' = [cur EXCEPT ![LoopOf(f)] = [op |-> "offline", fd |-> f, user |-> u]]
    /\ open' = open \ {f}
    /\ conns' = conns \ {f}
    /\ gone' = gone \ {f}
    /\ session' = [session EXCEPT ![f] = {}]
    /\ UNCHANGED <<account, online, lost, usernames, main, up>>

\* handleClose without the test it->second==fd: the first name is erased.
CloseErasesAnyName(f) ==
    /\ f \in open \cap gone
    /\ IsIdle(LoopOf(f))
    /\ \E u \in {v \in Users : usernames[v] # NoFd} :
          /\ usernames' = [usernames EXCEPT ![u] = NoFd]
          /\ cur' = [cur EXCEPT ![LoopOf(f)] = [op |-> "offline", fd |-> f, user |-> u]]
    /\ open' = open \ {f}
    /\ conns' = conns \ {f}
    /\ gone' = gone \ {f}
    /\ session' = [session EXCEPT ![f] = {}]
    /\ UNCHANGED <<account, online, lost, main, up>>

-----------------------------------------------------------------------------
(* The handlers.                                                           *)

\* TcpServer::newConnection up to the posted enablereading.  The kernel gives
\* out a descriptor only when the Connection that had it is destroyed, hence
\* after its handleClose and when conns_ has forgotten it.
NewConnection(f) ==
    /\ up
    /\ main = NoFd
    /\ f \notin open \cup conns
    /\ \A l \in Loops : ~IsIdle(l) => cur[l].fd # f
    /\ main' = f
    /\ open' = open \cup {f}
    /\ UNCHANGED <<account, online, lost, usernames, conns, gone, cur, session, up>>

\* handleNewConnection, under mmutex_.  The IO thread may have handled a login,
\* and even the close, of the connection before.
HandleNewConnection ==
    /\ main # NoFd
    /\ conns' = conns \cup {main}
    /\ main' = NoFd
    /\ UNCHANGED <<account, online, lost, usernames, open, gone, cur, session, up>>

\* handleRegister: the name is UNIQUE, so a taken one changes nothing.
Register(f, u) ==
    /\ f \in open
    /\ IsIdle(LoopOf(f))
    /\ account' = account \cup {u}
    /\ UNCHANGED <<online, lost, usernames, main, open, conns, gone, cur, session, up>>

\* handleLogin up to DB::handlelogin, which checks online=0 and then sets it
\* under one lock.  A refused login changes nothing.
Login(f, u) ==
    /\ f \in open
    /\ IsIdle(LoopOf(f))
    /\ Cardinality(session[f]) < LoginsPerConn
    /\ u \in account
    /\ u \notin online
    /\ SetOnline(u, TRUE)
    /\ session' = [session EXCEPT ![f] = @ \cup {u}]
    /\ cur' = [cur EXCEPT ![LoopOf(f)] = [op |-> "login", fd |-> f, user |-> u]]
    /\ UNCHANGED <<account, usernames, main, open, conns, gone, up>>

\* ... then, under mmutex_, usernames_[caName] = fd.
LoginRoute(l) ==
    /\ ~IsIdle(l)
    /\ cur[l].op = "login"
    /\ usernames' = [usernames EXCEPT ![cur[l].user] = cur[l].fd]
    /\ cur' = [cur EXCEPT ![l] = Idle]
    /\ UNCHANGED <<account, online, lost, main, open, conns, gone, session, up>>

PeerCloses(f) ==
    /\ f \in open \ gone
    /\ gone' = gone \cup {f}
    /\ UNCHANGED <<account, online, lost, usernames, main, open, conns, cur, session, up>>

\* handleClose, the section under mmutex_: forget the FIRST name found for
\* the descriptor (any, as far as this model knows the names' order) and the
\* connection.  With no name there is nobody to take offline.
Close(f) ==
    /\ f \in open \cap gone
    /\ IsIdle(LoopOf(f))
    /\ \/ /\ NamesOf(f) = {}
          /\ UNCHANGED <<usernames, cur>>
       \/ \E u \in NamesOf(f) :
            /\ usernames' = [usernames EXCEPT ![u] = NoFd]
            /\ cur' = [cur EXCEPT ![LoopOf(f)] = [op |-> "offline", fd |-> f, user |-> u]]
    /\ open' = open \ {f}
    /\ conns' = conns \ {f}
    /\ gone' = gone \ {f}
    /\ session' = [session EXCEPT ![f] = {}]
    /\ UNCHANGED <<account, online, lost, main, up>>

\* ... then, with the lock released, db_.handleoffline(name).
CloseOffline(l) ==
    /\ ~IsIdle(l)
    /\ cur[l].op = "offline"
    /\ SetOnline(cur[l].user, FALSE)
    /\ cur' = [cur EXCEPT ![l] = Idle]
    /\ UNCHANGED <<account, usernames, main, open, conns, gone, session, up>>

\* SIGKILL, or any of the ways the process can die: memory is lost.
Crash ==
    /\ up
    /\ up' = FALSE
    /\ usernames' = [u \in Users |-> NoFd]
    /\ main' = NoFd
    /\ open' = {}
    /\ conns' = {}
    /\ gone' = {}
    /\ cur' = [l \in Loops |-> Idle]
    /\ session' = [f \in Fds |-> {}]
    /\ UNCHANGED <<account, online, lost>>

\* main: DB::init resets every account (and ignores whether that worked)
\* before the server listens.
Restart ==
    /\ ~up
    /\ up' = TRUE
    /\ \/ online' = {} /\ lost' = {}
       \/ online' = online /\ lost' = lost \cup online
    /\ UNCHANGED <<account, usernames, main, open, conns, gone, cur, session>>

Next == \/ \E f \in Fds : NewConnection(f) \/ PeerCloses(f) \/ Close(f)
        \/ \E f \in Fds, u \in Users : Register(f, u) \/ Login(f, u)
        \/ \E l \in Loops : LoginRoute(l) \/ CloseOffline(l)
        \/ HandleNewConnection
        \/ Crash
        \/ Restart

Spec == Init /\ [][Next]_vars

(***************************************************************************)
(* A handler that started goes on.  A closed connection stays readable, so *)
(* epoll (level-triggered) reports it again in every round until it is     *)
(* handled, however busy the other connections of the loop are: strong     *)
(* fairness.  Clients, crashes and restarts owe nothing.                   *)
(***************************************************************************)
FairSpec ==
    /\ Spec
    /\ \A l \in Loops : WF_vars(LoginRoute(l) \/ CloseOffline(l))
    /\ \A f \in Fds : SF_vars(Close(f))

-----------------------------------------------------------------------------
\* Type invariant.
TypeOK ==
    /\ account \subseteq Users
    /\ online \subseteq account
    /\ lost \subseteq account
    /\ usernames \in [Users -> Fds \cup {NoFd}]
    /\ main \in Fds \cup {NoFd}
    /\ open \subseteq Fds
    /\ conns \subseteq Fds
    /\ gone \subseteq open
    /\ cur \in [Loops -> Rest]
    /\ session \in [Fds -> SUBSET account]
    /\ up \in BOOLEAN

\* An account is logged in on at most one connection, whatever logins,
\* closes and crashes overlap; a failed UPDATE harms only its own account.
OneSessionPerUser ==
    \A u \in Users \ lost : \A f, g \in Fds :
        u \in session[f] /\ u \in session[g] => f = g

\* Nobody is stuck online: column online says 1 only while the account is
\* logged in on an open connection or the close of that one is under way.
OnlineIsJustified ==
    up => \A u \in online \ lost :
        \/ \E f \in open : u \in session[f]
        \/ \E l \in Loops : ~IsIdle(l) /\ cur[l].op = "offline" /\ cur[l].user = u

\* CloudServer::resend reaches the right peer: a name routes to an open
\* connection on which that very account logged in (and which conns_ holds, or
\* is about to hold), never to the connection
\* that got the descriptor afterwards.
RoutesToSession ==
    \A u \in Users : usernames[u] # NoFd =>
        /\ usernames[u] \in open
        /\ usernames[u] \in conns \/ main = usernames[u]
        /\ u \in session[usernames[u]]

\* Conversely a logged-in account is reachable as soon as its login handler
\* is through.
SessionIsRouted ==
    \A f \in Fds : \A u \in session[f] \ lost :
        \/ usernames[u] = f
        \/ cur[LoopOf(f)] = [op |-> "login", fd |-> f, user |-> u]

\* When the peer of a logged-in connection goes away, however it does, the
\* account is eventually offline and can log in again.
DisconnectHeals ==
    \A f \in Fds, u \in Users :
        f \in gone /\ u \in session[f] ~> u \notin online \/ u \in lost \/ ~up

\* The two tables and the column implement the abstract presence service
\* while no UPDATE is lost.  An account is held from the accepted login to
\* the end of handleoffline.
Holds(f, u) == \/ u \in session[f]
               \/ cur[LoopOf(f)] = [op |-> "offline", fd |-> f, user |-> u]
Holder == [u \in Users |-> IF up /\ \E f \in Fds : Holds(f, u)
                           THEN CHOOSE f \in Fds : Holds(f, u)
                           ELSE NoFd]
PR == INSTANCE Presence WITH Nobody <- NoFd, holder <- Holder
IsPresence == PR!Init /\ [][lost' = {} => PR!Next]_Holder
=============================================================================
