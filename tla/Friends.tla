------------------------------ MODULE Friends ------------------------------
(***************************************************************************)
(* Friends and chat: the handlers of CloudServer (cloudserver.cpp) with    *)
(* the table friend (db.cpp), and the clients between which they carry     *)
(* requests, answers and messages (web/tcpclient.cpp, friendlw.cpp).       *)
(*                                                                         *)
(* A handler works on its connection's thread: one call of DB, under       *)
(* DB::mutex_, then one locked section per PDU it sends.  Handlers of      *)
(* other connections come between these steps.  A statement that writes    *)
(* may fail without the handler noticing.                                  *)
(***************************************************************************)
EXTENDS Naturals, Sequences, FiniteSets, SequencesExt

CONSTANTS Users,
          NoPdu,       \* the client shows no question
          MaxClicks    \* bound: what the users do, all together

ASSUME FriendsAssumption == MaxClicks \in Nat

VARIABLES rows,      \* the table friend; a row twice has the effect of once
          stage,     \* where each user is between login and logout, see below
          toServer,  \* what a client has written and its handler not taken
          toClient,  \* what was sent to a client and is not read
          work,      \* what the handler of a connection has left to send
          dialog,    \* the request a client shows its user
          list,      \* FriendLW::pFriendListWidget_
          chat,      \* PrivateChat::strChatName_, a set of one name or none
          clicks,    \* what users have done so far
          met        \* history: pairs that were inserted into friend once

clients == <<stage, toServer, toClient, work, dialog, list, chat, clicks>>
vars == <<rows, met, clients>>

(***************************************************************************)
(* A login sets the column online and then the route in usernames_; a      *)
(* close erases the route and then the column (module Session).            *)
(***************************************************************************)
Stages == {"out", "login", "in", "close"}
Online == {u \in Users : stage[u] # "out"}
Routed(u) == stage[u] = "in"

\* caData of a PDU: the name of who acts and the name of whom it is about.
\* Only a list of friends has names in caMsg.
Pdu(t, u, v) == [type |-> t, from |-> u, about |-> v, names |-> {}]
ListOf(u, s) == [type |-> "FLUSH_FRIEND_RESPONSE", from |-> u, about |-> u, names |-> s]

Types == {"ADD_USER_RESPEST", "ADD_USER_RESPONSE", "ADD_USER_AGREED", "ADD_USER_REFUSE",
          "FLUSH_FRIEND_RESPEST", "FLUSH_FRIEND_RESPONSE",
          "DEL_FRIEND_RESPEST", "DEL_FRIEND_RESPONSE",
          "PRIVATE_CHAT_RESPEST", "GROUP_CHAT_RESPEST"}
Pdus == [type : Types, from : Users, about : Users, names : SUBSET Users]

\* resend or sendTo: the PDU, to one user after the other.
Sending(s, p) == [to |-> s, pdu |-> p]
Reply(u, t) == Sending({u}, Pdu(t, u, u))

\* The table is from an earlier run (CREATE TABLE IF NOT EXISTS).
Init ==
    /\ met \in SUBSET {{u, v} : u, v \in Users}
    /\ \A s \in met : Cardinality(s) = 2
    /\ rows = {r \in Users \X Users : {r[1], r[2]} \in met}
    /\ stage = [u \in Users |-> "out"]
    /\ toServer = [u \in Users |-> << >>]
    /\ toClient = [u \in Users |-> << >>]
    /\ work = [u \in Users |-> << >>]
    /\ dialog = [u \in Users |-> NoPdu]
    /\ list = [u \in Users |-> {}]
    /\ chat = [u \in Users |-> {}]
    /\ clicks = 0

-----------------------------------------------------------------------------
(* Coming and going.                                                       *)

Move(u, from, to) == stage[u] = from /\ stage' = [stage EXCEPT ![u] = to]

ComeAndGo(u) ==
    /\ Move(u, "out", "login") \/ Move(u, "login", "in") \/ Move(u, "close", "out")
    /\ UNCHANGED <<rows, met, toServer, toClient, work, dialog, list, chat, clicks>>

\* The client ends, with whatever was on its way to or from it.  Its close
\* waits for the handler that runs.
Leave(u) ==
    /\ Move(u, "in", "close")
    /\ work[u] = << >>
    /\ toServer' = [toServer EXCEPT ![u] = << >>]
    /\ toClient' = [toClient EXCEPT ![u] = << >>]
    /\ dialog' = [dialog EXCEPT ![u] = NoPdu]
    /\ list' = [list EXCEPT ![u] = {}]
    /\ chat' = [chat EXCEPT ![u] = {}]
    /\ UNCHANGED <<rows, met, work, clicks>>

\* The server dies.  DB::init resets online, friend survives.
Crash ==
    /\ stage' = [u \in Users |-> "out"]
    /\ toServer' = [u \in Users |-> << >>]
    /\ toClient' = [u \in Users |-> << >>]
    /\ work' = [u \in Users |-> << >>]
    /\ dialog' = [u \in Users |-> NoPdu]
    /\ list' = [u \in Users |-> {}]
    /\ chat' = [u \in Users |-> {}]
    /\ UNCHANGED <<rows, met, clicks>>

-----------------------------------------------------------------------------
(* The client.  While a dialog is open the user can do nothing else, and   *)
(* nothing is read, for QTcpSocket emits no readyRead within a readyRead.  *)

Click(u, p) ==
    /\ Routed(u)
    /\ dialog[u] = NoPdu
    /\ clicks < MaxClicks
    /\ clicks' = clicks + 1
    /\ toServer' = [toServer EXCEPT ![u] = Append(@, p)]
    /\ UNCHANGED <<rows, met, stage, toClient, work, dialog, list>>

\* The list of users online, from which a friend is chosen, may be an old
\* one, and contains the user too.
AddFriend(u, v) == Click(u, Pdu("ADD_USER_RESPEST", u, v)) /\ UNCHANGED chat
FlushFriend(u)  == Click(u, Pdu("FLUSH_FRIEND_RESPEST", u, u)) /\ UNCHANGED chat
DelFriend(u, v) == /\ v \in list[u]
                   /\ Click(u, Pdu("DEL_FRIEND_RESPEST", u, v))
                   /\ UNCHANGED chat
GroupChat(u)    == Click(u, Pdu("GROUP_CHAT_RESPEST", u, u)) /\ UNCHANGED chat

\* The partner is picked from the list of friends, or has been before, or is
\* whoever has written last.
PrivateChat(u, v) == /\ v \in list[u] \cup chat[u]
                     /\ Click(u, Pdu("PRIVATE_CHAT_RESPEST", u, v))
                     /\ chat' = [chat EXCEPT ![u] = {v}]

\* recvMsg, one PDU.  All but a request and a list is shown to the user only.
RecvMsg(u) ==
    /\ Routed(u)
    /\ dialog[u] = NoPdu
    /\ toClient[u] # << >>
    /\ LET p == Head(toClient[u]) IN
        /\ dialog' = [dialog EXCEPT ![u] = IF p.type = "ADD_USER_RESPEST" THEN p ELSE NoPdu]
        /\ list' = [list EXCEPT ![u] = IF p.type = "FLUSH_FRIEND_RESPONSE" THEN p.names ELSE @]
        /\ chat' = [chat EXCEPT ![u] = IF p.type = "PRIVATE_CHAT_RESPEST" THEN {p.from} ELSE @]
    /\ toClient' = [toClient EXCEPT ![u] = Tail(@)]
    /\ UNCHANGED <<rows, met, stage, toServer, work, clicks>>

\* The user answers: the PDU goes back with another type.
Answer(u, t) ==
    /\ dialog[u] # NoPdu
    /\ toServer' = [toServer EXCEPT ![u] = Append(@, [dialog[u] EXCEPT !.type = t])]
    /\ dialog' = [dialog EXCEPT ![u] = NoPdu]
    /\ UNCHANGED <<rows, met, stage, toClient, work, list, chat, clicks>>

-----------------------------------------------------------------------------
(* The table friend.                                                       *)

\* handleAddUserCheak and handleFlushFriend look for a row in either direction.
AreFriends(u, v) == <<u, v>> \in rows \/ <<v, u>> \in rows
FriendsOf(u) == {v \in Online : <<v, u>> \in rows \/ <<u, v>> \in rows}

\* One INSERT of both rows, or none if it fails.
Insert(u, v) == \/ /\ rows' = rows \cup {<<u, v>>, <<v, u>>}
                   /\ met' = met \cup {{u, v}}
                \/ UNCHANGED <<rows, met>>

\* Two DELETEs: each may fail.
Delete(u, v) == /\ \E s \in SUBSET {<<u, v>>, <<v, u>>} : rows' = rows \ s
                /\ UNCHANGED met

-----------------------------------------------------------------------------
(* The handlers, up to and with the call of DB; work is what they send.    *)

\* handlePdu takes the next PDU of u's connection when no handler runs on it.
Takes(u, t) ==
    /\ Routed(u)
    /\ work[u] = << >>
    /\ toServer[u] # << >>
    /\ Head(toServer[u]).type = t
    /\ toServer' = [toServer EXCEPT ![u] = Tail(@)]
    /\ UNCHANGED <<stage, toClient, dialog, list, chat, clicks>>

ToSend(u, s) == work' = [work EXCEPT ![u] = s]

\* Mutant: resend(caLoginName,pdu).
HandleAddUserReqToAsker(u) ==
    /\ Takes(u, "ADD_USER_RESPEST")
    /\ LET p == Head(toServer[u]) IN
        ToSend(u, <<Sending({p.from}, p), Reply(u, "ADD_USER_RESPONSE")>>)
    /\ UNCHANGED <<rows, met>>

\* The request goes to the other user before the asker is told so.
HandleAddUserReq(u) ==
    /\ Takes(u, "ADD_USER_RESPEST")
    /\ LET p == Head(toServer[u])
           forward == ~AreFriends(p.from, p.about) /\ p.about \in Online
       IN  ToSend(u, (IF forward THEN <<Sending({p.about}, p)>> ELSE << >>)
                     \o <<Reply(u, "ADD_USER_RESPONSE")>>)
    /\ UNCHANGED <<rows, met>>

HandleAddUserAgreed(u) ==
    /\ Takes(u, "ADD_USER_AGREED")
    /\ LET p == Head(toServer[u]) IN
        /\ Insert(p.from, p.about)
        /\ ToSend(u, <<Sending({p.from}, p)>>)

\* Mutant: the refusal handled as the agreement is.
HandleAddUserRefuseAsAgreed(u) ==
    /\ Takes(u, "ADD_USER_REFUSE")
    /\ LET p == Head(toServer[u]) IN
        /\ Insert(p.from, p.about)
        /\ ToSend(u, <<Sending({p.from}, p)>>)

HandleAddUserRefuse(u) ==
    /\ Takes(u, "ADD_USER_REFUSE")
    /\ LET p == Head(toServer[u]) IN ToSend(u, <<Sending({p.from}, p)>>)
    /\ UNCHANGED <<rows, met>>

HandleFlushFriend(u) ==
    /\ Takes(u, "FLUSH_FRIEND_RESPEST")
    /\ LET p == Head(toServer[u]) IN
        ToSend(u, <<Sending({u}, ListOf(u, FriendsOf(p.from)))>>)
    /\ UNCHANGED <<rows, met>>

\* Mutant: the other user is not told.
HandleDelFriendQuietly(u) ==
    /\ Takes(u, "DEL_FRIEND_RESPEST")
    /\ LET p == Head(toServer[u]) IN Delete(p.from, p.about)
    /\ ToSend(u, <<Reply(u, "DEL_FRIEND_RESPONSE")>>)

\* handleDelFriend of DB returns true whether or not its statements worked.
HandleDelFriend(u) ==
    /\ Takes(u, "DEL_FRIEND_RESPEST")
    /\ LET p == Head(toServer[u]) IN
        /\ Delete(p.from, p.about)
        /\ ToSend(u, <<Reply(u, "DEL_FRIEND_RESPONSE"), Sending({p.about}, p)>>)

HandlePrivateChat(u) ==
    /\ Takes(u, "PRIVATE_CHAT_RESPEST")
    /\ LET p == Head(toServer[u]) IN ToSend(u, <<Sending({p.about}, p)>>)
    /\ UNCHANGED <<rows, met>>

\* Mutant: the list of handleallonline.
HandleGroupChatToAll(u) ==
    /\ Takes(u, "GROUP_CHAT_RESPEST")
    /\ LET p == Head(toServer[u]) IN ToSend(u, <<Sending(Online, p)>>)
    /\ UNCHANGED <<rows, met>>

\* The list is read once; then the PDU goes to one friend after the other.
HandleGroupChat(u) ==
    /\ Takes(u, "GROUP_CHAT_RESPEST")
    /\ LET p == Head(toServer[u])
           friends == FriendsOf(p.from)
       IN  ToSend(u, IF friends = {} THEN << >> ELSE <<Sending(friends, p)>>)
    /\ UNCHANGED <<rows, met>>

\* sendTo or resend, under mmutex_.  A name that is not routed is passed over
\* in silence.  The order in which a list is gone through is left open.
Send(u) ==
    /\ work[u] # << >>
    /\ LET s == Head(work[u]) IN \E v \in s.to :
        /\ toClient' = IF Routed(v) THEN [toClient EXCEPT ![v] = Append(@, s.pdu)]
                                    ELSE toClient
        /\ ToSend(u, (IF s.to = {v} THEN << >> ELSE <<Sending(s.to \ {v}, s.pdu)>>)
                     \o Tail(work[u]))
    /\ UNCHANGED <<rows, met, stage, toServer, dialog, list, chat, clicks>>

Handle(u) == \/ HandleAddUserReq(u) \/ HandleAddUserAgreed(u) \/ HandleAddUserRefuse(u)
             \/ HandleFlushFriend(u) \/ HandleDelFriend(u)
             \/ HandlePrivateChat(u) \/ HandleGroupChat(u)

Next == \/ \E u \in Users :
            \/ ComeAndGo(u) \/ Leave(u)
            \/ FlushFriend(u) \/ GroupChat(u) \/ RecvMsg(u)
            \/ Answer(u, "ADD_USER_AGREED") \/ Answer(u, "ADD_USER_REFUSE")
            \/ Handle(u) \/ Send(u)
        \/ \E u, v \in Users : AddFriend(u, v) \/ DelFriend(u, v) \/ PrivateChat(u, v)
        \/ Crash

Spec == Init /\ [][Next]_vars

\* The IO threads go on.  Users, clients and crashes owe nothing.
FairSpec == Spec /\ \A u \in Users : WF_vars(Handle(u)) /\ WF_vars(Send(u))

-----------------------------------------------------------------------------
\* Type invariant.  A request is shown to the user it is about.
TypeOK ==
    /\ rows \subseteq Users \X Users
    /\ met \subseteq {{u, v} : u, v \in Users}
    /\ stage \in [Users -> Stages]
    /\ \A u \in Users :
        /\ \A i \in 1 .. Len(toServer[u]) : toServer[u][i] \in Pdus
        /\ \A i \in 1 .. Len(toClient[u]) : toClient[u][i] \in Pdus
        /\ \A i \in 1 .. Len(work[u]) : work[u][i] \in [to : (SUBSET Users) \ {{}}, pdu : Pdus]
        /\ dialog[u] # NoPdu => dialog[u] \in Pdus /\ dialog[u].about = u
        /\ list[u] \subseteq Users
        /\ chat[u] \subseteq Users
    /\ clicks \in 0 .. MaxClicks

\* A message to the group, or to one user, only ever reaches users who have been
\* friends of the sender, though the sender's list may be old, the partner one
\* who wrote first, and the list of the group old when the message is sent
\* (handleGroupChat, handlePrivateChat, which asks the table nothing).
StrangersHearNothing ==
    \A u \in Users : \A i \in 1 .. Len(toClient[u]) :
        toClient[u][i].type \in {"GROUP_CHAT_RESPEST", "PRIVATE_CHAT_RESPEST"} =>
            {toClient[u][i].from, u} \in met

\* An answer to a request reaches the asker, and a deletion the friend that
\* was deleted, unless one of the two leaves first (CloudServer::resend).
IsNews(p, u, v) ==
    \/ p.type \in {"ADD_USER_AGREED", "ADD_USER_REFUSE"} /\ p.from = v /\ p.about = u
    \/ p.type = "DEL_FRIEND_RESPEST" /\ p.from = u /\ p.about = v
NewsArrives ==
    \A u \in Users : \A v \in Users \ {u} :
        Routed(u) /\ Routed(v) /\ (\E p \in ToSet(toServer[u]) : IsNews(p, u, v))
            ~> (\E p \in ToSet(toClient[v]) : IsNews(p, u, v)) \/ ~Routed(u) \/ ~Routed(v)

\* Both agreed: the table, with what is on its way, implements Friendship.
\* A question is alive from the asker's click to the handling of the yes, and
\* a wish to part until the server takes it.
OnItsWay == UNION {ToSet(toServer[u]) \cup ToSet(toClient[u]) \cup ({dialog[u]} \ {NoPdu})
                     \cup {s.pdu : s \in ToSet(work[u])} : u \in Users}
Said(t) == {p \in UNION {ToSet(toServer[u]) : u \in Users} : p.type = t}
FR == INSTANCE Friendship WITH
        friends <- {{r[1], r[2]} : r \in rows},
        asked <- {<<p.from, p.about>> : p \in Said("ADD_USER_AGREED")
                      \cup {q \in OnItsWay : q.type = "ADD_USER_RESPEST"}},
        parting <- {<<p.from, p.about>> : p \in Said("DEL_FRIEND_RESPEST")}
IsFriendship == FR!Spec
=============================================================================
