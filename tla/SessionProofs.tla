--------------------------- MODULE SessionProofs ---------------------------
(***************************************************************************)
(* Theorems about Session for any number of users, descriptors and loops.  *)
(* The types, that an account is logged in on one connection at most, and  *)
(* that it is routed there, hold however many accounts a client logs in on *)
(* a connection.  That nobody is stuck online, that no name outlives its   *)
(* connection, and the refinement of Presence need OneLogin: handleClose   *)
(* takes only one of the connection's accounts offline.                    *)
(***************************************************************************)
EXTENDS Session, FiniteSetTheorems, TLAPS

\* What handlers and the routing table name are accounts.
Accounted ==
    /\ \A u \in Users : usernames[u] # NoFd => u \in account
    /\ \A l \in Loops : ~IsIdle(l) => cur[l].user \in account

Typed == TypeOK /\ Accounted

\* Without a process there is no memory.
DownIsEmpty == ~up =>
    /\ open = {}
    /\ \A f \in Fds : session[f] = {}
    /\ \A u \in Users : usernames[u] = NoFd
    /\ \A l \in Loops : IsIdle(l)

\* A connection that is read is in conns_ or about to be entered.
Registered == open \subseteq conns \cup {main}

\* Every connection has at most one session: what LoginsPerConn = 1 gives.
OneName == \A f \in Fds : session[f] = {} \/ \E u \in Users : session[f] = {u}

\* A session keeps its account online.
SessionOnline == \A f \in Fds : \A u \in session[f] \ lost : u \in online

\* A handler between its two steps runs on its connection's loop.
AtHome == \A l \in Loops : ~IsIdle(l) => LoopOf(cur[l].fd) = l

\* A login that is not routed yet is a session of an open connection.
LoginPending == \A l \in Loops : ~IsIdle(l) /\ cur[l].op = "login" =>
    /\ cur[l].fd \in open
    /\ cur[l].user \in session[cur[l].fd]

\* Loop l is about to set u offline, and no UPDATE of u has failed.
Leaving(l, u) == ~IsIdle(l) /\ cur[l].op = "offline" /\ cur[l].user = u /\ u \notin lost

\* An account that is about to be set offline is still online, so that nobody
\* can log in with it, is not routed any more, and only one handler is about
\* to do so.
OfflinePending == \A l \in Loops, u \in Users : Leaving(l, u) =>
    /\ u \in online
    /\ usernames[u] = NoFd
    /\ \A f \in Fds : u \notin session[f]
    /\ \A k \in Loops : Leaving(k, u) => k = l

\* A name in the routing table keeps its account online, even if it outlived
\* its connection; what is logged in elsewhere it does not name.
NameOnline == \A u \in Users \ lost : usernames[u] # NoFd =>
    /\ u \in online
    /\ \A f \in Fds : u \in session[f] => usernames[u] = f

Handlers == AtHome /\ LoginPending /\ OfflinePending

Sessions == SessionOnline /\ OneSessionPerUser

Core == Typed /\ DownIsEmpty /\ Handlers /\ Sessions /\ NameOnline /\ SessionIsRouted

\* With one login per connection there is more.
Once == OneName /\ Registered /\ RoutesToSession /\ OnlineIsJustified

IInv == Core /\ Once

-----------------------------------------------------------------------------
(* The types, one step per action.                                         *)

\* What a handler that is not idle still has to do is a full record.
LEMMA RestTyped ==
    ASSUME TypeOK, NEW l \in Loops, ~IsIdle(l)
    PROVE  /\ cur[l].op \in {"login", "offline"}
           /\ cur[l].fd \in Fds
           /\ cur[l].user \in Users
  BY DEF TypeOK, Rest, IsIdle, Idle

LEMMA LoopTyped == ASSUME NEW f \in Fds PROVE LoopOf(f) \in Loops
  <1>1. f \in Nat /\ ThreadNum \in Nat \ {0}  BY SessionAssumption
  <1>2. f % ThreadNum \in 0 .. ThreadNum - 1  BY <1>1
  <1>3. QED  BY <1>2 DEF LoopOf, Loops

LEMMA RestInRest ==
    ASSUME NEW op \in {"login", "offline"}, NEW f \in Fds, NEW u \in Users
    PROVE  /\ [op |-> op, fd |-> f, user |-> u] \in Rest
           /\ [op |-> op, fd |-> f, user |-> u] # Idle
  <1>1. [op |-> op, fd |-> f, user |-> u] \in Rest  BY DEF Rest
  <1>2. [op |-> op, fd |-> f, user |-> u].op # Idle.op  BY DEF Idle
  <1>3. QED  BY <1>1, <1>2

LEMMA TypedInit == Init => Typed
  <1>1. Idle \in Rest  BY DEF Rest
  <1>2. QED  BY <1>1 DEF Init, Typed, TypeOK, Accounted, IsIdle

LEMMA TypedStep == ASSUME Typed, [Next]_vars PROVE Typed'
<1> USE SessionAssumption DEF Typed, TypeOK, Accounted, IsIdle
<1>1. CASE UNCHANGED vars  BY <1>1 DEF vars
<1>2. ASSUME NEW f \in Fds, NewConnection(f) PROVE Typed'
  BY <1>2 DEF NewConnection
<1>3. ASSUME NEW f \in Fds, PeerCloses(f) PROVE Typed'
  BY <1>3 DEF PeerCloses
<1>4. ASSUME NEW f \in Fds, Close(f) PROVE Typed'
  <2>1. LoopOf(f) \in Loops  BY LoopTyped
  <2>2. CASE UNCHANGED <<usernames, cur>>  BY <1>4, <2>2 DEF Close
  <2>3. ASSUME NEW u \in NamesOf(f),
               usernames' = [usernames EXCEPT ![u] = NoFd],
               cur' = [cur EXCEPT ![LoopOf(f)] = [op |-> "offline", fd |-> f, user |-> u]]
        PROVE  Typed'
    <3>1. u \in account  BY <2>3 DEF NamesOf
    <3>2. /\ [op |-> "offline", fd |-> f, user |-> u] \in Rest
          /\ [op |-> "offline", fd |-> f, user |-> u].user = u
      BY <3>1, RestInRest
    <3>3. QED  BY <1>4, <2>1, <2>3, <3>1, <3>2 DEF Close
  <2>4. QED  BY <1>4, <2>2, <2>3 DEF Close
<1>5. ASSUME NEW f \in Fds, NEW u \in Users, Register(f, u) PROVE Typed'
  BY <1>5 DEF Register
<1>6. ASSUME NEW f \in Fds, NEW u \in Users, Login(f, u) PROVE Typed'
  <2>1. LoopOf(f) \in Loops  BY LoopTyped
  <2>2. /\ [op |-> "login", fd |-> f, user |-> u] \in Rest
        /\ [op |-> "login", fd |-> f, user |-> u].user = u
    BY RestInRest
  <2>3. online' \subseteq account' /\ lost' \subseteq account'
    BY <1>6 DEF Login, SetOnline
  <2>4. QED  BY <1>6, <2>1, <2>2, <2>3 DEF Login
<1>7. ASSUME NEW l \in Loops, LoginRoute(l) PROVE Typed'
  <2>1. cur[l].fd \in Fds /\ cur[l].user \in account
    BY <1>7, RestTyped DEF LoginRoute
  <2>2. Idle \in Rest  BY DEF Rest
  <2>3. QED  BY <1>7, <2>1, <2>2 DEF LoginRoute
<1>8. ASSUME NEW l \in Loops, CloseOffline(l) PROVE Typed'
  <2>1. online' \subseteq account /\ lost' \subseteq account
    BY <1>8 DEF CloseOffline, SetOnline
  <2>2. Idle \in Rest  BY DEF Rest
  <2>3. QED  BY <1>8, <2>1, <2>2 DEF CloseOffline
<1>9. CASE HandleNewConnection  BY <1>9 DEF HandleNewConnection
<1>10. CASE Crash
  <2>1. Idle \in Rest  BY DEF Rest
  <2>2. QED  BY <1>10, <2>1 DEF Crash
<1>11. CASE Restart  BY <1>11 DEF Restart
<1>12. QED
  BY <1>1, <1>2, <1>3, <1>4, <1>5, <1>6, <1>7, <1>8, <1>9, <1>10, <1>11 DEF Next

\* The tables and the column keep their types whatever fails and crashes.
THEOREM TypeCorrectness == Spec => []TypeOK
  <1>1. Spec => []Typed  BY TypedInit, TypedStep, PTL DEF Spec
  <1>2. Typed => TypeOK  BY DEF Typed
  <1>3. QED  BY <1>1, <1>2, PTL

-----------------------------------------------------------------------------
(* Safety, however many accounts are logged in on a connection.            *)

LEMMA CoreInit == Init => Core
<1> SUFFICES ASSUME Init PROVE Core  OBVIOUS
<1>1. Typed  BY TypedInit
<1>2. \A l \in Loops : IsIdle(l)  BY DEF Init, IsIdle
<1>3. Handlers
  BY <1>2 DEF Handlers, AtHome, LoginPending, OfflinePending, Leaving
<1>4. DownIsEmpty /\ Sessions /\ NameOnline /\ SessionIsRouted
  BY DEF Init, DownIsEmpty, Sessions, SessionOnline, OneSessionPerUser, NameOnline,
         SessionIsRouted
<1>5. QED  BY <1>1, <1>3, <1>4 DEF Core

\* A step that leaves alone everything the invariant is about, but for
\* connections that are opened, accounts, and peers that are gone.
LEMMA CoreFrame ==
    ASSUME Core, Typed', UNCHANGED <<online, lost, usernames, cur, session, up>>,
           open \subseteq open', up \/ open' = {}
    PROVE  Core'
<1> USE DEF Core
<1>1. DownIsEmpty'  BY DEF DownIsEmpty, IsIdle
<1>2. Handlers'
  BY DEF Handlers, AtHome, LoginPending, OfflinePending, Leaving, IsIdle
<1>3. Sessions'  BY DEF Sessions, SessionOnline, OneSessionPerUser
<1>4. NameOnline' /\ SessionIsRouted'  BY DEF NameOnline, SessionIsRouted
<1>5. QED  BY <1>1, <1>2, <1>3, <1>4

\* A connection that is read belongs to a process that is up.
LEMMA UpOrEmpty == Core => up \/ open = {}
  BY DEF Core, DownIsEmpty

\* A login adds one session, for an account that nobody holds, that no name
\* routes and that nobody is about to set offline.
LEMMA CoreLogin ==
    ASSUME Core, Typed', NEW f \in Fds, NEW u \in Users, Login(f, u)
    PROVE  Core'
<1>1. /\ f \in open /\ IsIdle(LoopOf(f)) /\ u \notin online
      /\ session' = [session EXCEPT ![f] = @ \cup {u}]
      /\ cur' = [cur EXCEPT ![LoopOf(f)] = [op |-> "login", fd |-> f, user |-> u]]
      /\ UNCHANGED <<usernames, main, open, conns, up>>
  BY DEF Login
<1>2. session'[f] = session[f] \cup {u} /\ \A g \in Fds \ {f} : session'[g] = session[g]
  BY <1>1 DEF Core, Typed, TypeOK
<1>3. LoopOf(f) \in Loops  BY LoopTyped
<1>4. /\ lost \subseteq lost' /\ online \subseteq online'
      /\ u \in online' \/ u \in lost'
      /\ \A v \in Users \ {u} : (v \in online' <=> v \in online) /\ (v \in lost' <=> v \in lost)
  BY DEF Login, SetOnline
<1>5. /\ cur'[LoopOf(f)].op = "login" /\ cur'[LoopOf(f)].fd = f /\ cur'[LoopOf(f)].user = u
      /\ ~IsIdle(LoopOf(f))'
      /\ \A l \in Loops \ {LoopOf(f)} : cur'[l] = cur[l] /\ (IsIdle(l)' <=> IsIdle(l))
  BY <1>1, <1>3, RestInRest DEF Core, Typed, TypeOK, IsIdle
<1>6. u \notin lost => usernames[u] = NoFd /\ \A g \in Fds : u \notin session[g]
  BY <1>1 DEF Core, Sessions, SessionOnline, NameOnline
<1>7. \A l \in Loops : ~Leaving(l, u)
  BY <1>1 DEF Core, Handlers, OfflinePending
<1>8. DownIsEmpty'
  BY <1>1 DEF Core, DownIsEmpty
<1>9. AtHome' /\ LoginPending'
  <2>1. AtHome'  BY <1>5 DEF Core, Handlers, AtHome
  <2>2. LoginPending'
    BY <1>1, <1>2, <1>5, RestTyped DEF Core, Typed, Handlers, LoginPending
  <2>3. QED  BY <2>1, <2>2
<1>10. OfflinePending'
  <2>1. \A l \in Loops, v \in Users : Leaving(l, v)' => Leaving(l, v) /\ v # u
    BY <1>4, <1>5, <1>7 DEF Leaving
  <2>2. QED  BY <1>1, <1>2, <1>4, <2>1 DEF Core, Handlers, OfflinePending
<1>11. Sessions'
  <2>1. SessionOnline'
    BY <1>2, <1>4 DEF Core, Sessions, SessionOnline, Typed, TypeOK
  <2>2. OneSessionPerUser'
    BY <1>2, <1>4, <1>6 DEF Core, Sessions, OneSessionPerUser
  <2>3. QED  BY <2>1, <2>2 DEF Sessions
<1>12. NameOnline'
  <2>1. SUFFICES ASSUME NEW v \in Users \ lost', usernames[v] # NoFd
                 PROVE  /\ v \in online'
                        /\ \A g \in Fds : v \in session'[g] => usernames[v] = g
    BY <1>1 DEF NameOnline
  <2>2. v # u /\ v \notin lost  BY <1>4, <1>6, <2>1
  <2>3. QED  BY <1>2, <1>4, <2>1, <2>2 DEF Core, NameOnline
<1>13. SessionIsRouted'
  <2>1. SUFFICES ASSUME NEW g \in Fds, NEW v \in session'[g] \ lost'
                 PROVE  \/ usernames[v] = g
                        \/ cur'[LoopOf(g)] = [op |-> "login", fd |-> g, user |-> v]
    BY <1>1 DEF SessionIsRouted
  <2>2. CASE v = u
    <3>1. g = f  BY <1>2, <1>4, <1>6, <2>1, <2>2
    <3>2. QED  BY <1>1, <1>3, <2>2, <3>1 DEF Core, Typed, TypeOK
  <2>3. CASE v # u
    <3>1. v \in session[g] \ lost  BY <1>2, <1>4, <2>1, <2>3
    <3>2. \/ usernames[v] = g
          \/ cur[LoopOf(g)] = [op |-> "login", fd |-> g, user |-> v]
      BY <3>1 DEF Core, SessionIsRouted
    <3>3. CASE cur[LoopOf(g)] = [op |-> "login", fd |-> g, user |-> v]
      <4>1. v \in Users  BY <3>1 DEF Core, Typed, TypeOK
      <4>2. ~IsIdle(LoopOf(g))  BY <3>3, <4>1, RestInRest DEF IsIdle
      <4>3. LoopOf(g) # LoopOf(f)  BY <1>1, <4>2
      <4>4. QED  BY <1>5, <3>3, <4>3, LoopTyped
    <3>4. QED  BY <3>2, <3>3
  <2>4. QED  BY <2>2, <2>3
<1>14. QED
  BY <1>8, <1>9, <1>10, <1>11, <1>12, <1>13 DEF Core, Handlers

LEMMA CoreLoginRoute ==
    ASSUME Core, Typed', NEW l \in Loops, LoginRoute(l) PROVE Core'
<1> DEFINE u == cur[l].user  f == cur[l].fd
<1>1. /\ ~IsIdle(l) /\ cur[l].op = "login" /\ u \in Users /\ f \in Fds
      /\ f \in open /\ u \in session[f] /\ LoopOf(f) = l
  BY RestTyped DEF LoginRoute, Core, Typed, Handlers, AtHome, LoginPending
<1>2. /\ usernames' = [usernames EXCEPT ![u] = f]
      /\ cur' = [cur EXCEPT ![l] = Idle]
      /\ UNCHANGED <<account, online, lost, main, open, conns, gone, session, up>>
  BY DEF LoginRoute
<1>3. /\ usernames'[u] = f /\ \A v \in Users \ {u} : usernames'[v] = usernames[v]
      /\ IsIdle(l)'
      /\ \A k \in Loops \ {l} : cur'[k] = cur[k] /\ (IsIdle(k)' <=> IsIdle(k))
  BY <1>1, <1>2 DEF Core, Typed, TypeOK, IsIdle
<1> HIDE DEF u, f
<1>4. DownIsEmpty'  BY <1>1, <1>2 DEF Core, DownIsEmpty
<1>5. AtHome' /\ LoginPending'
  BY <1>2, <1>3 DEF Core, Handlers, AtHome, LoginPending
<1>6. OfflinePending'
  <2>1. \A k \in Loops, v \in Users : Leaving(k, v)' => Leaving(k, v)
    BY <1>2, <1>3 DEF Leaving
  <2>2. \A k \in Loops : ~Leaving(k, u)
    BY <1>1 DEF Core, Handlers, OfflinePending
  <2>3. QED  BY <1>2, <1>3, <2>1, <2>2 DEF Core, Handlers, OfflinePending
<1>7. Sessions'
  BY <1>2 DEF Core, Sessions, SessionOnline, OneSessionPerUser
<1>8. NameOnline'
  <2>1. u \notin lost => u \in online /\ \A g \in Fds : u \in session[g] => g = f
    BY <1>1 DEF Core, Sessions, SessionOnline, OneSessionPerUser
  <2>2. QED  BY <1>2, <1>3, <2>1 DEF Core, NameOnline
<1>9. SessionIsRouted'
  <2>1. SUFFICES ASSUME NEW g \in Fds, NEW v \in session[g] \ lost
                 PROVE  \/ usernames'[v] = g
                        \/ cur'[LoopOf(g)] = [op |-> "login", fd |-> g, user |-> v]
    BY <1>2 DEF SessionIsRouted
  <2>2. v \in Users  BY DEF Core, Typed, TypeOK
  <2>3. CASE v = u
    <3>1. f = g  BY <1>1, <2>3 DEF Core, Sessions, OneSessionPerUser
    <3>2. QED  BY <1>3, <2>3, <3>1
  <2>4. CASE v # u
    <3>1. \/ usernames[v] = g
          \/ cur[LoopOf(g)] = [op |-> "login", fd |-> g, user |-> v]
      BY DEF Core, SessionIsRouted
    <3>2. CASE cur[LoopOf(g)] = [op |-> "login", fd |-> g, user |-> v]
      <4>1. LoopOf(g) # l  BY <2>4, <3>2 DEF u
      <4>2. QED  BY <1>3, <3>2, <4>1, LoopTyped
    <3>3. QED  BY <1>3, <2>2, <2>4, <3>1, <3>2
  <2>5. QED  BY <2>3, <2>4
<1>10. QED
  BY <1>4, <1>5, <1>6, <1>7, <1>8, <1>9 DEF Core, Handlers

LEMMA CoreCloseOffline ==
    ASSUME Core, Typed', NEW l \in Loops, CloseOffline(l) PROVE Core'
<1> DEFINE u == cur[l].user
<1>1. /\ ~IsIdle(l) /\ cur[l].op = "offline" /\ u \in Users
      /\ cur' = [cur EXCEPT ![l] = Idle]
      /\ UNCHANGED <<account, usernames, main, open, conns, gone, session, up>>
  BY RestTyped DEF CloseOffline, Core, Typed
<1>2. /\ IsIdle(l)'
      /\ \A k \in Loops \ {l} : cur'[k] = cur[k] /\ (IsIdle(k)' <=> IsIdle(k))
  BY <1>1 DEF Core, Typed, TypeOK, IsIdle
<1>3. /\ lost \subseteq lost' /\ online' \subseteq online
      /\ u \notin online' \/ u \in lost'
      /\ \A v \in Users \ {u} : (v \in online' <=> v \in online) /\ (v \in lost' <=> v \in lost)
  BY DEF CloseOffline, SetOnline
<1>4. u \notin lost => /\ usernames[u] = NoFd
                       /\ \A g \in Fds : u \notin session[g]
                       /\ \A k \in Loops : Leaving(k, u) => k = l
  BY <1>1 DEF Leaving, Core, Handlers, OfflinePending
<1> HIDE DEF u
<1>5. DownIsEmpty'  BY <1>1 DEF Core, DownIsEmpty
<1>6. AtHome' /\ LoginPending'
  BY <1>1, <1>2 DEF Core, Handlers, AtHome, LoginPending
<1>7. OfflinePending'
  <2>1. \A k \in Loops, v \in Users : Leaving(k, v)' => Leaving(k, v) /\ v # u
    <3>1. SUFFICES ASSUME NEW k \in Loops, NEW v \in Users, Leaving(k, v)'
                   PROVE  Leaving(k, v) /\ v # u
      OBVIOUS
    <3>2. k # l  BY <1>2, <3>1 DEF Leaving
    <3>3. Leaving(k, v)  BY <1>2, <1>3, <3>1, <3>2 DEF Leaving
    <3>4. QED  BY <1>4, <3>2, <3>3 DEF Leaving
  <2>2. QED  BY <1>1, <1>3, <2>1 DEF Core, Handlers, OfflinePending
<1>8. Sessions'
  <2>1. OneSessionPerUser'
    BY <1>1, <1>3 DEF Core, Sessions, OneSessionPerUser
  <2>2. SessionOnline'
    BY <1>1, <1>3, <1>4 DEF Core, Sessions, SessionOnline, Typed, TypeOK
  <2>3. QED  BY <2>1, <2>2 DEF Sessions
<1>9. NameOnline'
  <2>1. \A v \in Users \ lost' : usernames[v] # NoFd => v # u /\ v \notin lost
    BY <1>3, <1>4
  <2>2. QED  BY <1>1, <1>3, <2>1 DEF Core, NameOnline
<1>10. SessionIsRouted'
  <2>1. SUFFICES ASSUME NEW g \in Fds, NEW v \in session[g] \ lost
                 PROVE  \/ usernames'[v] = g
                        \/ cur'[LoopOf(g)] = [op |-> "login", fd |-> g, user |-> v]
    BY <1>1, <1>3 DEF SessionIsRouted
  <2>2. CASE cur[LoopOf(g)] = [op |-> "login", fd |-> g, user |-> v]
    <3>1. LoopOf(g) # l  BY <1>1, <2>2
    <3>2. QED  BY <1>2, <2>2, <3>1, LoopTyped
  <2>3. QED  BY <1>1, <2>2 DEF Core, SessionIsRouted
<1>11. QED
  BY <1>5, <1>6, <1>7, <1>8, <1>9, <1>10 DEF Core, Handlers

\* What a close does to handlers and names: it takes one name that routes to
\* the connection, if there is one, and has that account to set offline.
LEMMA CloseTakesOne ==
    ASSUME Core, NEW f \in Fds, Close(f)
    PROVE  /\ \A k \in Loops \ {LoopOf(f)} : cur'[k] = cur[k] /\ (IsIdle(k)' <=> IsIdle(k))
           /\ \/ NamesOf(f) = {} /\ usernames' = usernames /\ IsIdle(LoopOf(f))'
              \/ \E u \in NamesOf(f) :
                   /\ usernames'[u] = NoFd
                   /\ \A v \in Users \ {u} : usernames'[v] = usernames[v]
                   /\ ~IsIdle(LoopOf(f))'
                   /\ cur'[LoopOf(f)].op = "offline" /\ cur'[LoopOf(f)].fd = f
                   /\ cur'[LoopOf(f)].user = u
<1>1. LoopOf(f) \in Loops /\ IsIdle(LoopOf(f))  BY LoopTyped DEF Close
<1>2. CASE NamesOf(f) = {} /\ UNCHANGED <<usernames, cur>>
  BY <1>1, <1>2 DEF IsIdle
<1>3. ASSUME NEW u \in NamesOf(f), usernames' = [usernames EXCEPT ![u] = NoFd],
             cur' = [cur EXCEPT ![LoopOf(f)] = [op |-> "offline", fd |-> f, user |-> u]]
      PROVE  /\ \A k \in Loops \ {LoopOf(f)} : cur'[k] = cur[k] /\ (IsIdle(k)' <=> IsIdle(k))
             /\ usernames'[u] = NoFd
             /\ \A v \in Users \ {u} : usernames'[v] = usernames[v]
             /\ ~IsIdle(LoopOf(f))'
             /\ cur'[LoopOf(f)].op = "offline" /\ cur'[LoopOf(f)].fd = f
             /\ cur'[LoopOf(f)].user = u
  <2>1. u \in Users  BY DEF NamesOf
  <2>2. [op |-> "offline", fd |-> f, user |-> u] # Idle  BY <2>1, RestInRest
  <2>3. cur'[LoopOf(f)] = [op |-> "offline", fd |-> f, user |-> u]
    BY <1>1, <1>3 DEF Core, Typed, TypeOK
  <2>4. QED  BY <1>1, <1>3, <2>1, <2>2, <2>3 DEF Core, Typed, TypeOK, IsIdle
<1>4. QED  BY <1>2, <1>3 DEF Close

LEMMA CoreClose ==
    ASSUME Core, Typed', NEW f \in Fds, Close(f) PROVE Core'
<1>1. /\ f \in open /\ IsIdle(LoopOf(f))
      /\ open' = open \ {f} /\ conns' = conns \ {f}
      /\ session' = [session EXCEPT ![f] = {}]
      /\ UNCHANGED <<account, online, lost, main, up>>
  BY DEF Close
<1>2. session'[f] = {} /\ \A g \in Fds \ {f} : session'[g] = session[g]
  BY <1>1 DEF Core, Typed, TypeOK
<1>3. LoopOf(f) \in Loops  BY LoopTyped
<1>4. \A k \in Loops \ {LoopOf(f)} : cur'[k] = cur[k] /\ (IsIdle(k)' <=> IsIdle(k))
  BY CloseTakesOne
<1>5. ~IsIdle(LoopOf(f))' => /\ cur'[LoopOf(f)].op = "offline" /\ cur'[LoopOf(f)].fd = f
                             /\ cur'[LoopOf(f)].user \in NamesOf(f)
                             /\ usernames'[cur'[LoopOf(f)].user] = NoFd
  BY CloseTakesOne
<1>6. \A v \in Users : \/ usernames'[v] = usernames[v]
                       \/ usernames[v] = f /\ usernames'[v] = NoFd
  BY CloseTakesOne DEF NamesOf
<1>7. DownIsEmpty'  BY <1>1 DEF Core, DownIsEmpty
<1>8. AtHome'  BY <1>4, <1>5 DEF Core, Handlers, AtHome
<1>9. LoginPending'
  <2>1. SUFFICES ASSUME NEW l \in Loops, ~IsIdle(l)', cur'[l].op = "login"
                 PROVE  cur'[l].fd \in open' /\ cur'[l].user \in session'[cur'[l].fd]
    BY DEF LoginPending
  <2>2. l # LoopOf(f)  BY <1>5, <2>1
  <2>3. /\ cur'[l] = cur[l] /\ ~IsIdle(l)  BY <1>4, <2>1, <2>2
  <2>4. cur[l].fd # f /\ cur[l].fd \in Fds
    BY <2>2, <2>3, RestTyped DEF Core, Typed, Handlers, AtHome
  <2>5. QED  BY <1>1, <1>2, <2>1, <2>3, <2>4 DEF Core, Handlers, LoginPending
<1>10. OfflinePending'
  <2>1. SUFFICES ASSUME NEW l \in Loops, NEW v \in Users, Leaving(l, v)'
                 PROVE  /\ v \in online
                        /\ usernames'[v] = NoFd
                        /\ \A g \in Fds : v \notin session'[g]
                        /\ \A k \in Loops : Leaving(k, v)' => k = l
    BY <1>1 DEF OfflinePending
  <2>2. \A k \in Loops \ {LoopOf(f)} : Leaving(k, v)' => Leaving(k, v)
    BY <1>1, <1>4 DEF Leaving
  \* A name that is taken now was in the table, so nobody else is about to
  \* set it offline.
  <2>3. Leaving(LoopOf(f), v)' => /\ v \notin lost /\ usernames[v] = f /\ f # NoFd
                                  /\ usernames'[v] = NoFd
                                  /\ \A k \in Loops : ~Leaving(k, v)
    <3>1. SUFFICES ASSUME Leaving(LoopOf(f), v)'
                   PROVE  /\ v \notin lost /\ usernames[v] = f /\ f # NoFd
                          /\ usernames'[v] = NoFd
                          /\ \A k \in Loops : ~Leaving(k, v)
      OBVIOUS
    <3>2. v \in NamesOf(f) /\ v \notin lost /\ usernames'[v] = NoFd
      BY <1>1, <1>5, <3>1 DEF Leaving
    <3>3. usernames[v] = f /\ f # NoFd  BY <3>2, SessionAssumption DEF NamesOf
    <3>4. QED  BY <3>2, <3>3 DEF Core, Handlers, OfflinePending
  <2>4. CASE l = LoopOf(f)
    <3>1. v \in online /\ \A g \in Fds \ {f} : v \notin session[g]
      BY <2>1, <2>3, <2>4 DEF Core, NameOnline
    <3>2. QED  BY <1>2, <2>1, <2>2, <2>3, <2>4, <3>1
  <2>5. CASE l # LoopOf(f)
    <3>1. Leaving(l, v)  BY <2>1, <2>2, <2>5
    <3>2. ~Leaving(LoopOf(f), v)'  BY <2>3, <3>1
    <3>3. usernames'[v] = NoFd  BY <1>6, <3>1 DEF Core, Handlers, OfflinePending
    <3>4. QED  BY <1>2, <2>2, <3>1, <3>2, <3>3 DEF Core, Handlers, OfflinePending
  <2>6. QED  BY <2>4, <2>5
<1>11. Sessions'
  <2>1. SessionOnline'  BY <1>1, <1>2 DEF Core, Sessions, SessionOnline
  <2>2. OneSessionPerUser'  BY <1>1, <1>2 DEF Core, Sessions, OneSessionPerUser
  <2>3. QED  BY <2>1, <2>2 DEF Sessions
<1>12. NameOnline'  BY <1>1, <1>2, <1>6 DEF Core, NameOnline
<1>13. SessionIsRouted'
  <2>1. SUFFICES ASSUME NEW g \in Fds, NEW v \in session'[g] \ lost
                 PROVE  \/ usernames'[v] = g
                        \/ cur'[LoopOf(g)] = [op |-> "login", fd |-> g, user |-> v]
    BY <1>1 DEF SessionIsRouted
  <2>2. g # f /\ v \in session[g]  BY <1>2, <2>1
  <2>3. v \in Users  BY <2>2 DEF Core, Typed, TypeOK
  <2>4. CASE usernames[v] = g  BY <1>6, <2>2, <2>3, <2>4
  <2>5. CASE cur[LoopOf(g)] = [op |-> "login", fd |-> g, user |-> v]
    <3>1. ~IsIdle(LoopOf(g))  BY <2>3, <2>5, RestInRest DEF IsIdle
    <3>2. LoopOf(g) # LoopOf(f)  BY <1>1, <3>1
    <3>3. QED  BY <1>4, <2>5, <3>2, LoopTyped
  <2>6. QED  BY <2>2, <2>4, <2>5 DEF Core, SessionIsRouted
<1>14. QED
  BY <1>7, <1>8, <1>9, <1>10, <1>11, <1>12, <1>13 DEF Core, Handlers

\* A process that is down, or has just come up, satisfies the invariant
\* whatever the database holds.
LEMMA CoreEmpty ==
    ASSUME Typed', open' = {},
           session' = [f \in Fds |-> {}], usernames' = [u \in Users |-> NoFd],
           cur' = [l \in Loops |-> Idle]
    PROVE  Core'
<1>1. \A l \in Loops : IsIdle(l)'  BY DEF IsIdle
<1>2. Handlers'
  BY <1>1 DEF Handlers, AtHome, LoginPending, OfflinePending, Leaving
<1>3. DownIsEmpty' /\ Sessions' /\ NameOnline' /\ SessionIsRouted'
  BY <1>1 DEF DownIsEmpty, Sessions, SessionOnline, OneSessionPerUser, NameOnline,
              SessionIsRouted
<1>4. QED  BY <1>2, <1>3 DEF Core

\* What a process that is down has in memory: nothing.
LEMMA DownMemory ==
    ASSUME Core, ~up
    PROVE  /\ open = {} /\ session = [f \in Fds |-> {}]
           /\ usernames = [u \in Users |-> NoFd]
           /\ cur = [l \in Loops |-> Idle]
  BY DEF Core, DownIsEmpty, Typed, TypeOK, IsIdle

LEMMA CoreStep == ASSUME Core, [Next]_vars PROVE Core'
<1>0. Typed' /\ (up \/ open = {})  BY TypedStep, UpOrEmpty DEF Core
<1>1. CASE UNCHANGED vars  BY <1>0, <1>1, CoreFrame DEF vars
<1>2. ASSUME NEW f \in Fds, NewConnection(f) PROVE Core'
  BY <1>0, <1>2, CoreFrame DEF NewConnection
<1>3. ASSUME NEW f \in Fds, PeerCloses(f) PROVE Core'
  BY <1>0, <1>3, CoreFrame DEF PeerCloses
<1>4. ASSUME NEW f \in Fds, Close(f) PROVE Core'
  BY <1>0, <1>4, CoreClose
<1>5. ASSUME NEW f \in Fds, NEW u \in Users, Register(f, u) PROVE Core'
  BY <1>0, <1>5, CoreFrame DEF Register
<1>6. ASSUME NEW f \in Fds, NEW u \in Users, Login(f, u) PROVE Core'
  BY <1>0, <1>6, CoreLogin
<1>7. ASSUME NEW l \in Loops, LoginRoute(l) PROVE Core'
  BY <1>0, <1>7, CoreLoginRoute
<1>8. ASSUME NEW l \in Loops, CloseOffline(l) PROVE Core'
  BY <1>0, <1>8, CoreCloseOffline
<1>9. CASE HandleNewConnection
  BY <1>0, <1>9, CoreFrame DEF HandleNewConnection
<1>10. CASE Crash  BY <1>0, <1>10, CoreEmpty DEF Crash
<1>11. CASE Restart  BY <1>0, <1>11, CoreEmpty, DownMemory DEF Restart
<1>12. QED
  BY <1>1, <1>2, <1>3, <1>4, <1>5, <1>6, <1>7, <1>8, <1>9, <1>10, <1>11 DEF Next

\* The strengthening: what handlers of different loops may still do to
\* accounts, names and sessions, however often a client logs in.
THEOREM CoreInvariance == Spec => []Core
  <1>1. QED  BY CoreInit, CoreStep, PTL DEF Spec

\* No two connections are logged in with one account, whatever logins, closes,
\* failed UPDATEs and crashes overlap (DB::handlelogin, handleClose), even if
\* clients log in several times and a close leaves names behind.
THEOREM SingleSession == Spec => []OneSessionPerUser
  <1>1. Core => OneSessionPerUser  BY DEF Core, Sessions
  <1>2. QED  BY <1>1, CoreInvariance, PTL

\* resend reaches everybody who is logged in (CloudServer::usernames_), again
\* however often clients log in.
THEOREM RoutingIsComplete == Spec => []SessionIsRouted
  <1>1. Core => SessionIsRouted  BY DEF Core
  <1>2. QED  BY <1>1, CoreInvariance, PTL

-----------------------------------------------------------------------------
(* More safety, for clients that log in once per connection.               *)

OneLogin == LoginsPerConn = 1

LEMMA OnceInit == Init => Once
  BY DEF Init, Once, OneName, Registered, RoutesToSession, OnlineIsJustified

\* A connection whose client may still log in has no session.
LEMMA NoSessionYet ==
    ASSUME OneLogin, OneName, NEW f \in Fds, Cardinality(session[f]) < LoginsPerConn
    PROVE  session[f] = {}
  <1>1. SUFFICES ASSUME NEW u \in Users, session[f] = {u} PROVE FALSE
    BY DEF OneName
  <1>2. Cardinality({u}) = 1  BY FS_Singleton
  <1>3. QED  BY <1>1, <1>2 DEF OneLogin

\* A step that leaves alone everything the invariant is about, but for
\* accounts, peers that are gone, and keys that are added to conns_.
LEMMA OnceFrame ==
    ASSUME IInv, Typed', UNCHANGED <<online, lost, usernames, cur, session, up>>,
           open \subseteq open', open' \subseteq open \cup {main'},
           conns \cup {main} \subseteq conns' \cup {main', NoFd}
    PROVE  Once'
<1> USE DEF IInv, Core, Once
<1>1. OneName' /\ OnlineIsJustified'  BY DEF OneName, OnlineIsJustified, IsIdle
<1>2. Registered'  BY SessionAssumption DEF Registered, Typed, TypeOK
<1>3. RoutesToSession'  BY SessionAssumption DEF RoutesToSession, Typed, TypeOK
<1>4. QED  BY <1>1, <1>2, <1>3

LEMMA OnceLogin ==
    ASSUME OneLogin, IInv, Typed', NEW f \in Fds, NEW u \in Users, Login(f, u)
    PROVE  Once'
<1>1. /\ f \in open /\ IsIdle(LoopOf(f))
      /\ session' = [session EXCEPT ![f] = @ \cup {u}]
      /\ cur' = [cur EXCEPT ![LoopOf(f)] = [op |-> "login", fd |-> f, user |-> u]]
      /\ UNCHANGED <<usernames, main, open, conns, up>>
  BY DEF Login
<1>2. session[f] = {} /\ session'[f] = {u} /\ \A g \in Fds \ {f} : session'[g] = session[g]
  <2>1. session[f] = {}  BY NoSessionYet DEF Login, IInv, Once
  <2>2. QED  BY <1>1, <2>1 DEF IInv, Core, Typed, TypeOK
<1>3. \A l \in Loops : ~IsIdle(l) => ~IsIdle(l)' /\ cur'[l] = cur[l]
  BY <1>1, LoopTyped DEF IInv, Core, Typed, TypeOK, IsIdle
<1>4. \A v \in Users \ {u} : (v \in online' <=> v \in online) /\ (v \in lost' <=> v \in lost)
  BY DEF Login, SetOnline
<1>5. OneName'  BY <1>2 DEF IInv, Once, OneName
<1>6. Registered'  BY <1>1 DEF IInv, Once, Registered
<1>7. RoutesToSession'
  BY <1>1, <1>2 DEF IInv, Core, Once, RoutesToSession, Typed, TypeOK
<1>8. OnlineIsJustified'
  <2>1. SUFFICES ASSUME up, NEW v \in online' \ lost'
                 PROVE  \/ \E g \in open' : v \in session'[g]
                        \/ \E l \in Loops : ~IsIdle(l)' /\ cur'[l].op = "offline" /\ cur'[l].user = v
    BY <1>1 DEF OnlineIsJustified
  <2>2. CASE v = u  BY <1>1, <1>2, <2>2
  <2>3. CASE v # u
    <3>1. v \in online \ lost
      BY <1>4, <2>1, <2>3 DEF Typed, TypeOK
    <3>2. CASE \E g \in open : v \in session[g]
      BY <1>1, <1>2, <3>2 DEF IInv, Core, Typed, TypeOK
    <3>3. CASE \E l \in Loops : ~IsIdle(l) /\ cur[l].op = "offline" /\ cur[l].user = v
      BY <1>3, <3>3
    <3>4. QED  BY <2>1, <3>1, <3>2, <3>3 DEF IInv, Once, OnlineIsJustified
  <2>4. QED  BY <2>2, <2>3
<1>9. QED  BY <1>5, <1>6, <1>7, <1>8 DEF Once

LEMMA OnceLoginRoute ==
    ASSUME IInv, NEW l \in Loops, LoginRoute(l) PROVE Once'
<1> DEFINE u == cur[l].user  f == cur[l].fd
<1>1. /\ ~IsIdle(l) /\ cur[l].op = "login" /\ u \in Users /\ f \in Fds
      /\ f \in open /\ u \in session[f]
  BY RestTyped DEF LoginRoute, IInv, Core, Typed, Handlers, LoginPending
<1>2. /\ cur' = [cur EXCEPT ![l] = Idle]
      /\ UNCHANGED <<online, lost, main, open, conns, session, up>>
  BY DEF LoginRoute
<1>3. /\ usernames'[u] = f /\ \A v \in Users \ {u} : usernames'[v] = usernames[v]
      /\ \A k \in Loops \ {l} : cur'[k] = cur[k] /\ (IsIdle(k)' <=> IsIdle(k))
  BY <1>1, <1>2 DEF LoginRoute, IInv, Core, Typed, TypeOK, IsIdle
<1> HIDE DEF u, f
<1>4. OneName' /\ Registered'  BY <1>2 DEF IInv, Once, OneName, Registered
<1>5. RoutesToSession'
  <2>1. f \in conns \/ f = main  BY <1>1 DEF IInv, Once, Registered
  <2>2. QED  BY <1>1, <1>2, <1>3, <2>1 DEF IInv, Once, RoutesToSession
<1>6. OnlineIsJustified'
  <2>1. SUFFICES ASSUME up, NEW v \in online \ lost
                 PROVE  \/ \E g \in open : v \in session[g]
                        \/ \E k \in Loops : ~IsIdle(k)' /\ cur'[k].op = "offline" /\ cur'[k].user = v
    BY <1>2 DEF OnlineIsJustified
  <2>2. CASE \E k \in Loops : ~IsIdle(k) /\ cur[k].op = "offline" /\ cur[k].user = v
    BY <1>1, <1>3, <2>2
  <2>3. QED  BY <2>1, <2>2 DEF IInv, Once, OnlineIsJustified
<1>7. QED  BY <1>4, <1>5, <1>6 DEF Once

LEMMA OnceCloseOffline ==
    ASSUME IInv, NEW l \in Loops, CloseOffline(l) PROVE Once'
<1> DEFINE u == cur[l].user
<1>1. /\ ~IsIdle(l) /\ cur[l].op = "offline" /\ u \in Users
      /\ cur' = [cur EXCEPT ![l] = Idle]
      /\ UNCHANGED <<usernames, main, open, conns, session, up>>
  BY RestTyped DEF CloseOffline, IInv, Core, Typed
<1>2. \A k \in Loops \ {l} : cur'[k] = cur[k] /\ (IsIdle(k)' <=> IsIdle(k))
  BY <1>1 DEF IInv, Core, Typed, TypeOK, IsIdle
<1>3. \A v \in online' \ lost' : v # u /\ v \in online \ lost
  BY DEF CloseOffline, SetOnline
<1>4. OneName' /\ Registered' /\ RoutesToSession'
  BY <1>1 DEF IInv, Once, OneName, Registered, RoutesToSession
<1>5. OnlineIsJustified'
  <2>1. SUFFICES ASSUME up, NEW v \in online' \ lost'
                 PROVE  \/ \E g \in open : v \in session[g]
                        \/ \E k \in Loops : ~IsIdle(k)' /\ cur'[k].op = "offline" /\ cur'[k].user = v
    BY <1>1 DEF OnlineIsJustified
  <2>2. CASE \E k \in Loops : ~IsIdle(k) /\ cur[k].op = "offline" /\ cur[k].user = v
    BY <1>2, <1>3, <2>2
  <2>3. QED  BY <1>3, <2>1, <2>2 DEF IInv, Once, OnlineIsJustified
<1>6. QED  BY <1>4, <1>5 DEF Once

\* The names that route to a connection are its session: with one session at
\* most, and its handler done, handleClose finds just that name.
LEMMA NameIsSession ==
    ASSUME IInv, NEW f \in Fds, IsIdle(LoopOf(f))
    PROVE  /\ \A u \in NamesOf(f) : session[f] = {u}
           /\ session[f] \ lost \subseteq NamesOf(f)
<1>1. ASSUME NEW u \in NamesOf(f) PROVE session[f] = {u}
  <2>1. u \in Users /\ usernames[u] = f /\ f # NoFd
    BY <1>1, SessionAssumption DEF NamesOf
  <2>2. u \in session[f]  BY <2>1 DEF IInv, Once, RoutesToSession
  <2>3. QED  BY <2>2 DEF IInv, Once, OneName
<1>2. ASSUME NEW u \in session[f] \ lost PROVE u \in NamesOf(f)
  <2>1. u \in Users  BY <1>2 DEF IInv, Core, Typed, TypeOK
  <2>2. \/ usernames[u] = f
        \/ cur[LoopOf(f)] = [op |-> "login", fd |-> f, user |-> u]
    BY <1>2 DEF IInv, Core, SessionIsRouted
  <2>3. cur[LoopOf(f)] # [op |-> "login", fd |-> f, user |-> u]
    BY <2>1, RestInRest DEF IsIdle
  <2>4. QED  BY <2>1, <2>2, <2>3 DEF NamesOf
<1>3. QED  BY <1>1, <1>2

LEMMA OnceClose ==
    ASSUME IInv, Typed', NEW f \in Fds, Close(f) PROVE Once'
<1>1. /\ f \in open /\ IsIdle(LoopOf(f))
      /\ open' = open \ {f} /\ conns' = conns \ {f}
      /\ session' = [session EXCEPT ![f] = {}]
      /\ UNCHANGED <<account, online, lost, main, up>>
  BY DEF Close
<1>2. session'[f] = {} /\ \A g \in Fds \ {f} : session'[g] = session[g]
  BY <1>1 DEF IInv, Core, Typed, TypeOK
<1>3. /\ \A k \in Loops : ~IsIdle(k) => ~IsIdle(k)' /\ cur'[k] = cur[k]
      /\ \A v \in NamesOf(f) : /\ usernames'[v] = NoFd /\ ~IsIdle(LoopOf(f))'
                               /\ cur'[LoopOf(f)].op = "offline" /\ cur'[LoopOf(f)].user = v
      /\ \A v \in Users \ NamesOf(f) : usernames'[v] = usernames[v]
  <2>1. \A k \in Loops : ~IsIdle(k) => ~IsIdle(k)' /\ cur'[k] = cur[k]
    BY <1>1, CloseTakesOne DEF IInv
  <2>2. \A v, w \in NamesOf(f) : v = w  BY <1>1, NameIsSession
  <2>3. NamesOf(f) \subseteq Users  BY DEF NamesOf
  <2>4. QED  BY <2>1, <2>2, <2>3, CloseTakesOne DEF IInv
<1>4. OneName'  BY <1>2 DEF IInv, Once, OneName
<1>5. Registered'  BY <1>1 DEF IInv, Once, Registered
<1>6. RoutesToSession'
  <2>1. SUFFICES ASSUME NEW v \in Users, usernames'[v] # NoFd
                 PROVE  /\ usernames'[v] \in open'
                        /\ usernames'[v] \in conns' \/ main = usernames'[v]
                        /\ v \in session'[usernames'[v]]
    BY <1>1 DEF RoutesToSession
  <2>2. usernames'[v] = usernames[v] /\ usernames[v] # f
    BY <1>3, <2>1 DEF NamesOf
  <2>3. /\ usernames[v] \in open
        /\ usernames[v] \in conns \/ main = usernames[v]
        /\ v \in session[usernames[v]]
    BY <2>1, <2>2 DEF IInv, Once, RoutesToSession
  <2>4. QED  BY <1>1, <1>2, <2>2, <2>3 DEF IInv, Core, Typed, TypeOK
<1>7. OnlineIsJustified'
  <2>1. SUFFICES ASSUME up, NEW v \in online \ lost
                 PROVE  \/ \E g \in open' : v \in session'[g]
                        \/ \E k \in Loops : ~IsIdle(k)' /\ cur'[k].op = "offline" /\ cur'[k].user = v
    BY <1>1 DEF OnlineIsJustified
  <2>2. CASE v \in session[f]
    <3>1. v \in NamesOf(f)  BY <1>1, <2>2, NameIsSession
    <3>2. QED  BY <1>3, <3>1, LoopTyped
  <2>3. CASE \E g \in open : g # f /\ v \in session[g]
    BY <1>1, <1>2, <2>3 DEF IInv, Core, Typed, TypeOK
  <2>4. CASE \E k \in Loops : ~IsIdle(k) /\ cur[k].op = "offline" /\ cur[k].user = v
    BY <1>3, <2>4
  <2>5. QED  BY <2>1, <2>2, <2>3, <2>4 DEF IInv, Once, OnlineIsJustified
<1>8. QED  BY <1>4, <1>5, <1>6, <1>7 DEF Once

\* Without memory only the column has to be justified.
LEMMA OnceEmpty ==
    ASSUME open' = {}, session' = [f \in Fds |-> {}],
           usernames' = [u \in Users |-> NoFd], OnlineIsJustified'
    PROVE  Once'
  BY DEF Once, OneName, Registered, RoutesToSession

LEMMA OnceStep == ASSUME OneLogin, IInv, [Next]_vars PROVE Once'
<1>0. Typed'  BY TypedStep DEF IInv, Core
<1>1. CASE UNCHANGED vars  BY <1>0, <1>1, OnceFrame DEF vars
<1>2. ASSUME NEW f \in Fds, NewConnection(f) PROVE Once'
  BY <1>0, <1>2, OnceFrame DEF NewConnection
<1>3. ASSUME NEW f \in Fds, PeerCloses(f) PROVE Once'
  BY <1>0, <1>3, OnceFrame DEF PeerCloses
<1>4. ASSUME NEW f \in Fds, Close(f) PROVE Once'
  BY <1>0, <1>4, OnceClose
<1>5. ASSUME NEW f \in Fds, NEW u \in Users, Register(f, u) PROVE Once'
  BY <1>0, <1>5, OnceFrame DEF Register
<1>6. ASSUME NEW f \in Fds, NEW u \in Users, Login(f, u) PROVE Once'
  BY <1>0, <1>6, OnceLogin
<1>7. ASSUME NEW l \in Loops, LoginRoute(l) PROVE Once'
  BY <1>7, OnceLoginRoute
<1>8. ASSUME NEW l \in Loops, CloseOffline(l) PROVE Once'
  BY <1>8, OnceCloseOffline
<1>9. CASE HandleNewConnection
  BY <1>0, <1>9, OnceFrame DEF HandleNewConnection
<1>10. CASE Crash
  <2>1. OnlineIsJustified'  BY <1>10 DEF Crash, OnlineIsJustified
  <2>2. QED  BY <1>10, <2>1, OnceEmpty DEF Crash
<1>11. CASE Restart
  <2>1. online' \ lost' = {}  BY <1>11 DEF Restart
  <2>2. OnlineIsJustified'  BY <2>1 DEF OnlineIsJustified
  <2>3. QED  BY <1>11, <2>2, DownMemory, OnceEmpty DEF Restart, IInv
<1>12. QED
  BY <1>1, <1>2, <1>3, <1>4, <1>5, <1>6, <1>7, <1>8, <1>9, <1>10, <1>11 DEF Next

\* The strengthening from which the properties below follow.
THEOREM Invariance == ASSUME OneLogin PROVE Spec => []IInv
  <1>1. Init => IInv  BY CoreInit, OnceInit DEF IInv
  <1>2. IInv /\ [Next]_vars => IInv'  BY CoreStep, OnceStep DEF IInv
  <1>3. QED  BY <1>1, <1>2, PTL DEF Spec

\* Nobody stays online without a connection (DB::handleoffline, DB::init).
THEOREM NobodyStuckOnline == ASSUME OneLogin PROVE Spec => []OnlineIsJustified
  <1>1. IInv => OnlineIsJustified  BY DEF IInv, Once
  <1>2. QED  BY <1>1, Invariance, PTL

\* resend never reaches another user's connection (CloudServer::usernames_).
THEOREM RoutingIsRight == ASSUME OneLogin PROVE Spec => []RoutesToSession
  <1>1. IInv => RoutesToSession  BY DEF IInv, Once
  <1>2. QED  BY <1>1, Invariance, PTL

-----------------------------------------------------------------------------
(* Session implements Presence while no UPDATE is lost.                    *)

\* While no UPDATE is lost an account has one holder, and Holder names it.
HolderKnown == IInv /\ lost = {} =>
    \A u \in Users :
        /\ ~up => Holder[u] = NoFd
        /\ (\A f \in Fds : ~Holds(f, u)) => Holder[u] = NoFd
        /\ up => \A f \in Fds : Holds(f, u) => Holder[u] = f

LEMMA HoldsOnce ==
    ASSUME IInv, lost = {}, NEW u \in Users, NEW f \in Fds, NEW g \in Fds,
           Holds(f, u), Holds(g, u)
    PROVE  f = g
<1>1. ASSUME NEW h \in Fds, cur[LoopOf(h)] = [op |-> "offline", fd |-> h, user |-> u]
      PROVE  Leaving(LoopOf(h), u)
  BY <1>1, RestInRest DEF Leaving, IsIdle
<1>2. CASE u \in session[f] /\ u \in session[g]
  BY <1>2 DEF IInv, Core, Sessions, OneSessionPerUser
<1>3. ASSUME NEW h \in Fds, Leaving(LoopOf(h), u) PROVE \A k \in Fds : u \notin session[k]
  BY <1>3, LoopTyped DEF IInv, Core, Handlers, OfflinePending
<1>4. CASE /\ cur[LoopOf(f)] = [op |-> "offline", fd |-> f, user |-> u]
           /\ cur[LoopOf(g)] = [op |-> "offline", fd |-> g, user |-> u]
  <2>1. LoopOf(f) = LoopOf(g)
    BY <1>1, <1>4, LoopTyped DEF IInv, Core, Handlers, OfflinePending
  <2>2. [op |-> "offline", fd |-> f, user |-> u].fd = [op |-> "offline", fd |-> g, user |-> u].fd
    BY <1>4, <2>1
  <2>3. QED  BY <2>2
<1>5. QED  BY <1>1, <1>2, <1>3, <1>4 DEF Holds

LEMMA HolderLemma == HolderKnown
<1>1. SUFFICES ASSUME IInv, lost = {}, NEW u \in Users
               PROVE  /\ ~up => Holder[u] = NoFd
                      /\ (\A f \in Fds : ~Holds(f, u)) => Holder[u] = NoFd
                      /\ up => \A f \in Fds : Holds(f, u) => Holder[u] = f
  BY DEF HolderKnown
<1>2. ~up \/ (\A f \in Fds : ~Holds(f, u)) => Holder[u] = NoFd  BY DEF Holder
<1>3. ASSUME up, NEW f \in Fds, Holds(f, u) PROVE Holder[u] = f
  <2>1. Holder[u] = CHOOSE g \in Fds : Holds(g, u)  BY <1>3 DEF Holder
  <2>2. Holder[u] \in Fds /\ Holds(Holder[u], u)  BY <1>3, <2>1
  <2>3. QED  BY <1>1, <1>3, <2>2, HoldsOnce
<1>4. QED  BY <1>2, <1>3

\* If nobody's holder changes, Holder does not.
LEMMA SameHolder ==
    ASSUME IInv, IInv', HolderKnown, HolderKnown', lost = {}, lost' = {}, up' = up,
           \A f \in Fds, u \in Users : Holds(f, u)' <=> Holds(f, u)
    PROVE  Holder' = Holder
<1>1. ASSUME NEW u \in Users PROVE Holder'[u] = Holder[u]
  <2>1. CASE up /\ \E f \in Fds : Holds(f, u)  BY <2>1 DEF HolderKnown
  <2>2. CASE ~(up /\ \E f \in Fds : Holds(f, u))  BY <2>2 DEF HolderKnown
  <2>3. QED  BY <2>1, <2>2
<1>2. QED  BY <1>1 DEF Holder

LEMMA PresenceStep ==
    ASSUME IInv, IInv', HolderKnown, HolderKnown', [Next]_vars, lost' = {}
    PROVE  [PR!Next]_Holder
<1> USE DEF PR!Next, PR!TakeAccount, PR!GiveBack, PR!Shutdown
\* A step to or from a server that is down leaves every account free.
<1>1. CASE Crash \/ Restart
  <2>1. \A u \in Users, f \in Fds : ~(up /\ Holds(f, u))'
    BY <1>1, RestInRest, LoopTyped
    DEF Crash, Restart, Holds, IInv, Core, DownIsEmpty, IsIdle
  <2>2. Holder' = [u \in Users |-> NoFd]  BY <2>1 DEF Holder
  <2>3. QED  BY <2>2
<1>2. ASSUME UNCHANGED <<cur, session, up>> PROVE Holder' = Holder
  BY <1>2 DEF Holder, Holds
<1>3. ASSUME NEW f \in Fds, NEW u \in Users, Login(f, u) PROVE PR!Next
  <2>1. /\ lost = {} /\ u \notin online /\ f \in open /\ IsIdle(LoopOf(f)) /\ up' = up
        /\ session' = [session EXCEPT ![f] = @ \cup {u}]
        /\ cur' = [cur EXCEPT ![LoopOf(f)] = [op |-> "login", fd |-> f, user |-> u]]
    BY <1>3 DEF Login, SetOnline
  <2>2. up  BY <2>1 DEF IInv, Core, DownIsEmpty
  <2>3. \A g \in Fds : ~Holds(g, u)
    <3>1. SUFFICES ASSUME NEW g \in Fds, Holds(g, u) PROVE FALSE  OBVIOUS
    <3>2. u \notin session[g]  BY <2>1 DEF IInv, Core, Sessions, SessionOnline
    <3>3. Leaving(LoopOf(g), u)  BY <2>1, <3>1, <3>2, RestInRest DEF Holds, Leaving, IsIdle
    <3>4. QED  BY <2>1, <3>3, LoopTyped DEF IInv, Core, Handlers, OfflinePending
  <2>4. Holds(f, u)'  BY <2>1 DEF Holds, IInv, Core, Typed, TypeOK
  <2>5. \A v \in Users \ {u}, g \in Fds : Holds(g, v)' <=> Holds(g, v)
    <3>1. SUFFICES ASSUME NEW v \in Users \ {u}, NEW g \in Fds
                   PROVE  Holds(g, v)' <=> Holds(g, v)
      OBVIOUS
    <3>2. v \in session'[g] <=> v \in session[g]  BY <2>1 DEF IInv, Core, Typed, TypeOK
    <3>3. CASE LoopOf(g) # LoopOf(f)
      BY <2>1, <3>2, <3>3, LoopTyped DEF Holds, IInv, Core, Typed, TypeOK
    <3>4. CASE LoopOf(g) = LoopOf(f)
      <4>1. cur'[LoopOf(g)].op = "login"
        BY <2>1, <3>4, LoopTyped DEF IInv, Core, Typed, TypeOK
      <4>2. cur'[LoopOf(g)] # [op |-> "offline", fd |-> g, user |-> v]  BY <4>1
      <4>3. cur[LoopOf(g)] # [op |-> "offline", fd |-> g, user |-> v]
        BY <2>1, <3>4, RestInRest DEF IsIdle
      <4>4. QED  BY <3>2, <4>2, <4>3 DEF Holds
    <3>5. QED  BY <3>3, <3>4
  <2>6. Holder[u] = NoFd /\ Holder'[u] = f
    BY <2>1, <2>2, <2>3, <2>4 DEF HolderKnown
  <2>7. ASSUME NEW v \in Users \ {u} PROVE Holder'[v] = Holder[v]
    <3>1. CASE \E g \in Fds : Holds(g, v)  BY <2>1, <2>2, <2>5, <3>1 DEF HolderKnown
    <3>2. CASE \A g \in Fds : ~Holds(g, v)  BY <2>1, <2>5, <3>2 DEF HolderKnown
    <3>3. QED  BY <3>1, <3>2
  <2>8. Holder' = [Holder EXCEPT ![u] = f]  BY <2>6, <2>7 DEF Holder
  <2>9. QED  BY <2>6, <2>8
<1>4. ASSUME NEW l \in Loops, LoginRoute(l) PROVE Holder' = Holder
  <2>1. /\ lost = {} /\ up' = up /\ session' = session
        /\ cur[l].op = "login" /\ cur' = [cur EXCEPT ![l] = Idle]
    BY <1>4 DEF LoginRoute
  <2>2. \A f \in Fds, u \in Users : Holds(f, u)' <=> Holds(f, u)
    <3>1. SUFFICES ASSUME NEW f \in Fds, NEW u \in Users
                   PROVE  Holds(f, u)' <=> Holds(f, u)
      OBVIOUS
    <3>2. CASE LoopOf(f) # l
      BY <2>1, <3>2, LoopTyped DEF Holds, IInv, Core, Typed, TypeOK
    <3>3. CASE LoopOf(f) = l
      <4>1. cur'[l] = Idle  BY <2>1 DEF IInv, Core, Typed, TypeOK
      <4>2. cur'[l] # [op |-> "offline", fd |-> f, user |-> u]  BY <4>1, RestInRest
      <4>3. cur[l] # [op |-> "offline", fd |-> f, user |-> u]  BY <2>1
      <4>4. QED  BY <2>1, <3>3, <4>2, <4>3 DEF Holds
    <3>4. QED  BY <3>2, <3>3
  <2>3. QED  BY <2>1, <2>2, SameHolder
<1>5. ASSUME NEW l \in Loops, CloseOffline(l) PROVE PR!Next
  <2>1. /\ lost = {} /\ up' = up /\ session' = session
        /\ ~IsIdle(l) /\ cur[l].op = "offline" /\ cur' = [cur EXCEPT ![l] = Idle]
    BY <1>5 DEF CloseOffline, SetOnline
  <2>2. PICK u \in Users : u = cur[l].user  BY <2>1, RestTyped DEF IInv, Core, Typed
  <2>3. Leaving(l, u)  BY <2>1, <2>2 DEF Leaving
  <2>4. \A f \in Fds : u \notin session[f]  BY <2>3 DEF IInv, Core, Handlers, OfflinePending
  <2>5. cur'[l] = Idle /\ \A k \in Loops \ {l} : cur'[k] = cur[k]
    BY <2>1 DEF IInv, Core, Typed, TypeOK
  <2>6. \A f \in Fds : ~Holds(f, u)'
    <3>1. SUFFICES ASSUME NEW f \in Fds PROVE ~Holds(f, u)'  OBVIOUS
    <3>2. CASE LoopOf(f) = l  BY <2>1, <2>4, <2>5, <3>2, RestInRest DEF Holds
    <3>3. CASE LoopOf(f) # l
      <4>1. ~Leaving(LoopOf(f), u)
        BY <2>3, <3>3, LoopTyped DEF IInv, Core, Handlers, OfflinePending
      <4>2. cur[LoopOf(f)] # [op |-> "offline", fd |-> f, user |-> u]
        BY <2>1, <4>1, RestInRest DEF Leaving, IsIdle
      <4>3. QED  BY <2>1, <2>4, <2>5, <3>3, <4>2, LoopTyped DEF Holds
    <3>4. QED  BY <3>2, <3>3
  <2>7. \A v \in Users \ {u}, f \in Fds : Holds(f, v)' <=> Holds(f, v)
    <3>1. SUFFICES ASSUME NEW v \in Users \ {u}, NEW f \in Fds
                   PROVE  Holds(f, v)' <=> Holds(f, v)
      OBVIOUS
    <3>2. CASE LoopOf(f) # l  BY <2>1, <2>5, <3>2, LoopTyped DEF Holds
    <3>3. CASE LoopOf(f) = l
      <4>1. cur'[l] # [op |-> "offline", fd |-> f, user |-> v]  BY <2>5, RestInRest
      <4>2. cur[l] # [op |-> "offline", fd |-> f, user |-> v]  BY <2>2
      <4>3. QED  BY <2>1, <3>3, <4>1, <4>2 DEF Holds
    <3>4. QED  BY <3>2, <3>3
  <2>8. Holder'[u] = NoFd  BY <2>6 DEF HolderKnown
  <2>9. ASSUME NEW v \in Users \ {u} PROVE Holder'[v] = Holder[v]
    <3>1. CASE ~up  BY <2>1, <3>1 DEF HolderKnown
    <3>2. CASE up /\ \E g \in Fds : Holds(g, v)  BY <2>1, <2>7, <3>2 DEF HolderKnown
    <3>3. CASE \A g \in Fds : ~Holds(g, v)  BY <2>1, <2>7, <3>3 DEF HolderKnown
    <3>4. QED  BY <3>1, <3>2, <3>3
  <2>10. Holder' = [Holder EXCEPT ![u] = NoFd]  BY <2>8, <2>9 DEF Holder
  <2>11. QED  BY <2>10
<1>6. ASSUME NEW f \in Fds, Close(f) PROVE Holder' = Holder
  <2>1. /\ lost = {} /\ up' = up /\ IsIdle(LoopOf(f))
        /\ session' = [session EXCEPT ![f] = {}]
    BY <1>6 DEF Close
  <2>2. \A g \in Fds, u \in Users : Holds(g, u)' <=> Holds(g, u)
    <3>1. SUFFICES ASSUME NEW g \in Fds, NEW u \in Users
                   PROVE  Holds(g, u)' <=> Holds(g, u)
      OBVIOUS
    <3>2. LoopOf(f) \in Loops /\ LoopOf(g) \in Loops  BY LoopTyped
    <3>3. g # f => session'[g] = session[g]  BY <2>1 DEF IInv, Core, Typed, TypeOK
    <3>4. session'[f] = {}  BY <2>1 DEF IInv, Core, Typed, TypeOK
    <3>5. CASE LoopOf(g) # LoopOf(f)
      <4>1. cur'[LoopOf(g)] = cur[LoopOf(g)]
        BY <1>6, <3>2, <3>5 DEF Close, IInv, Core, Typed, TypeOK
      <4>2. QED  BY <3>3, <3>5, <4>1 DEF Holds
    <3>6. CASE LoopOf(g) = LoopOf(f)
      <4>1. cur[LoopOf(g)] # [op |-> "offline", fd |-> g, user |-> u]
        BY <2>1, <3>6, RestInRest DEF IsIdle
      <4>2. session[f] = NamesOf(f)
        <5>1. \A v \in NamesOf(f) : session[f] = {v}  BY <2>1, NameIsSession
        <5>2. session[f] \subseteq NamesOf(f)  BY <2>1, NameIsSession
        <5>3. QED  BY <5>1, <5>2
      <4>3. CASE NamesOf(f) = {}
        <5>1. cur' = cur  BY <1>6, <4>3 DEF Close
        <5>2. QED  BY <3>3, <3>4, <4>2, <4>3, <5>1 DEF Holds
      <4>4. ASSUME NEW v \in NamesOf(f),
                   cur' = [cur EXCEPT ![LoopOf(f)] = [op |-> "offline", fd |-> f, user |-> v]]
            PROVE  Holds(g, u)' <=> Holds(g, u)
        <5>1. session[f] = {v}  BY <2>1, NameIsSession
        <5>2. cur'[LoopOf(g)] = [op |-> "offline", fd |-> f, user |-> v]
          BY <3>2, <3>6, <4>4 DEF IInv, Core, Typed, TypeOK
        <5>3. cur'[LoopOf(g)].fd = f /\ cur'[LoopOf(g)].user = v  BY <5>2
        <5>4. CASE g = f  BY <3>4, <4>1, <5>1, <5>2, <5>3, <5>4 DEF Holds
        <5>5. CASE g # f  BY <3>3, <4>1, <5>3, <5>5 DEF Holds
        <5>6. QED  BY <5>4, <5>5
      <4>5. QED  BY <1>6, <4>3, <4>4 DEF Close
    <3>7. QED  BY <3>5, <3>6
  <2>3. QED  BY <2>1, <2>2, SameHolder
<1>7. CASE UNCHANGED vars  BY <1>2, <1>7 DEF vars
<1>8. ASSUME NEW f \in Fds, NewConnection(f) \/ PeerCloses(f) PROVE Holder' = Holder
  BY <1>2, <1>8 DEF NewConnection, PeerCloses
<1>9. ASSUME NEW f \in Fds, NEW u \in Users, Register(f, u) PROVE Holder' = Holder
  BY <1>2, <1>9 DEF Register
<1>10. CASE HandleNewConnection  BY <1>2, <1>10 DEF HandleNewConnection
<1>11. QED
  BY <1>1, <1>3, <1>4, <1>5, <1>6, <1>7, <1>8, <1>9, <1>10 DEF Next

\* CloudServer and DB together implement the abstract presence service, but
\* for the accounts whose UPDATE failed (DB::execSql, its result unread).
THEOREM PresenceRefinement == ASSUME OneLogin PROVE Spec => IsPresence
  <1>1. Init => PR!Init
    <2>1. SUFFICES ASSUME Init PROVE Holder = [u \in Users |-> NoFd]  BY DEF PR!Init
    <2>2. ASSUME NEW f \in Fds, NEW u \in Users PROVE ~Holds(f, u)
      <3>1. cur[LoopOf(f)] = Idle /\ session[f] = {}  BY <2>1, LoopTyped DEF Init
      <3>2. QED  BY <3>1, RestInRest DEF Holds
    <2>3. QED  BY <2>2 DEF Holder
  <1>2. HolderKnown /\ HolderKnown'  BY HolderLemma, PTL
  <1>3. IInv /\ IInv' /\ [Next]_vars => [lost' = {} => PR!Next]_Holder
    BY <1>2, PresenceStep
  <1>4. QED  BY <1>1, <1>3, Invariance, PTL DEF Spec, IsPresence
=============================================================================
