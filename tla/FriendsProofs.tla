--------------------------- MODULE FriendsProofs ---------------------------
(***************************************************************************)
(* Theorems about Friends for any set of users and any number of clicks.   *)
(***************************************************************************)
EXTENDS Friends, SequenceTheorems, TLAPS

Items == [to : (SUBSET Users) \ {{}}, pdu : Pdus]

\* The types, with what TypeOK says of the elements of queues said of queues.
Typed ==
    /\ rows \in SUBSET (Users \X Users)
    /\ met \subseteq {{u, v} : u, v \in Users}
    /\ stage \in [Users -> Stages]
    /\ toServer \in [Users -> Seq(Pdus)]
    /\ toClient \in [Users -> Seq(Pdus)]
    /\ work \in [Users -> Seq(Items)]
    /\ dialog \in [Users -> Pdus \cup {NoPdu}]
    /\ list \in [Users -> SUBSET Users]
    /\ chat \in [Users -> SUBSET Users]
    /\ clicks \in 0 .. MaxClicks

Messages == {"GROUP_CHAT_RESPEST", "PRIVATE_CHAT_RESPEST"}

\* A PDU that is, or may come to be, at u's client: a request is about u, who
\* speaks has been u's friend, and so has whoever is in a list.
Fits(p, u) == /\ p.type = "ADD_USER_RESPEST" => p.about = u
              /\ p.type \in Messages => {p.from, u} \in met
              /\ p.type = "FLUSH_FRIEND_RESPONSE" => \A v \in p.names : {u, v} \in met

\* A PDU that u's client has written: who is written to has been a friend, and
\* the list asked for is u's own.
Asks(p, u) == /\ p.type = "PRIVATE_CHAT_RESPEST" => {p.from, p.about} \in met
              /\ p.type = "FLUSH_FRIEND_RESPEST" => p.from = u

\* All that is on its way to a client fits its receiver, the dialog shows a
\* request, and who are friends, are listed or are written to have met.
Addressed ==
    /\ \A u \in Users : \A p \in ToSet(toClient[u]) : Fits(p, u)
    /\ \A u \in Users : \A s \in ToSet(work[u]) : \A v \in s.to : Fits(s.pdu, v)
    /\ \A u \in Users : \A p \in ToSet(toServer[u]) : Asks(p, u)
    /\ \A u \in Users : dialog[u] # NoPdu =>
          dialog[u].type = "ADD_USER_RESPEST" /\ dialog[u].about = u
    /\ \A u \in Users : \A v \in list[u] \cup chat[u] : {u, v} \in met
    /\ \A r \in rows : {r[1], r[2]} \in met

IInv == Typed /\ Addressed
-----------------------------------------------------------------------------
(* Queues.                                                                 *)

LEMMA Elements ==
    ASSUME NEW S, NEW s \in Seq(S)
    PROVE  /\ ToSet(s) \subseteq S
           /\ \A i \in 1 .. Len(s) : s[i] \in ToSet(s)
           /\ DOMAIN s = 1 .. Len(s)
  BY LenProperties, ElementOfSeq DEF ToSet

LEMMA NoElements == ASSUME NEW S PROVE << >> \in Seq(S) /\ ToSet(<< >>) = {}
  BY EmptySeq DEF ToSet

LEMMA OneElement == ASSUME NEW S, NEW e \in S PROVE <<e>> \in Seq(S) /\ ToSet(<<e>>) = {e}
  BY DEF ToSet

LEMMA TwoElements ==
    ASSUME NEW S, NEW d \in S, NEW e \in S
    PROVE  <<d, e>> \in Seq(S) /\ ToSet(<<d, e>>) = {d, e}
  BY DEF ToSet

LEMMA Appended ==
    ASSUME NEW S, NEW s \in Seq(S), NEW e \in S
    PROVE  Append(s, e) \in Seq(S) /\ ToSet(Append(s, e)) = ToSet(s) \cup {e}
<1> DEFINE t == Append(s, e)
<1>1. /\ t \in Seq(S) /\ Len(t) = Len(s) + 1 /\ Len(s) \in Nat
      /\ \A i \in 1 .. Len(s) : t[i] = s[i]
      /\ t[Len(t)] = e
  BY AppendProperties, LenProperties
<1>2. DOMAIN s = 1 .. Len(s) /\ DOMAIN t = 1 .. Len(t)  BY <1>1, LenProperties
<1>3. QED  BY <1>1, <1>2 DEF ToSet

LEMMA Taken ==
    ASSUME NEW S, NEW s \in Seq(S), s # << >>
    PROVE  /\ Head(s) \in S /\ Tail(s) \in Seq(S)
           /\ ToSet(s) = {Head(s)} \cup ToSet(Tail(s))
<1> DEFINE t == Tail(s)
<1>1. /\ t \in Seq(S) /\ Head(s) \in S
      /\ Len(s) = Len(t) + 1 /\ Len(t) \in Nat
      /\ \A i \in 1 .. Len(t) : t[i] = s[i + 1]
      /\ s[1] = Head(s)
  BY HeadTailProperties, LenProperties, EmptySeq
<1>2. DOMAIN s = 1 .. Len(s) /\ DOMAIN t = 1 .. Len(t)  BY <1>1, LenProperties
<1>3. ASSUME NEW i \in 1 .. Len(s) PROVE s[i] \in {Head(s)} \cup ToSet(t)
  <2>1. i = 1 \/ (i - 1 \in 1 .. Len(t) /\ s[i] = t[i - 1])  BY <1>1
  <2>2. CASE i = 1  BY <1>1, <2>2
  <2>3. CASE i - 1 \in 1 .. Len(t) /\ s[i] = t[i - 1]  BY <1>2, <2>3 DEF ToSet
  <2>4. QED  BY <2>1, <2>2, <2>3
<1>4. Head(s) \in ToSet(s)
  <2>1. 1 \in 1 .. Len(s)  BY <1>1
  <2>2. QED  BY <1>1, <1>2, <2>1 DEF ToSet
<1>5. ToSet(t) \subseteq ToSet(s)
  <2>1. \A i \in 1 .. Len(t) : i + 1 \in 1 .. Len(s) /\ t[i] = s[i + 1]  BY <1>1
  <2>2. QED  BY <1>2, <2>1 DEF ToSet
<1>6. ToSet(s) = {s[i] : i \in 1 .. Len(s)}  BY <1>2 DEF ToSet
<1>7. QED  BY <1>1, <1>3, <1>4, <1>5, <1>6

LEMMA Joined ==
    ASSUME NEW S, NEW s \in Seq(S), NEW t \in Seq(S)
    PROVE  s \o t \in Seq(S) /\ ToSet(s \o t) = ToSet(s) \cup ToSet(t)
<1> DEFINE w == s \o t
<1>1. /\ w \in Seq(S) /\ Len(w) = Len(s) + Len(t)
      /\ Len(s) \in Nat /\ Len(t) \in Nat
      /\ \A i \in 1 .. Len(w) : w[i] = IF i <= Len(s) THEN s[i] ELSE t[i - Len(s)]
  BY ConcatProperties, LenProperties
<1>2. DOMAIN s = 1 .. Len(s) /\ DOMAIN t = 1 .. Len(t) /\ DOMAIN w = 1 .. Len(w)
  BY <1>1, LenProperties
<1>3. ASSUME NEW i \in 1 .. Len(w) PROVE w[i] \in ToSet(s) \cup ToSet(t)
  <2>1. CASE i <= Len(s)  BY <1>1, <1>2, <2>1 DEF ToSet
  <2>2. CASE ~(i <= Len(s))
    <3>1. i - Len(s) \in 1 .. Len(t) /\ w[i] = t[i - Len(s)]  BY <1>1, <2>2
    <3>2. QED  BY <1>2, <3>1 DEF ToSet
  <2>3. QED  BY <2>1, <2>2
<1>4. ToSet(s) \subseteq ToSet(w)
  <2>1. \A i \in 1 .. Len(s) : i \in 1 .. Len(w) /\ w[i] = s[i]  BY <1>1
  <2>2. QED  BY <1>2, <2>1 DEF ToSet
<1>5. ToSet(t) \subseteq ToSet(w)
  <2>1. \A i \in 1 .. Len(t) : i + Len(s) \in 1 .. Len(w) /\ w[i + Len(s)] = t[i]
    <3>1. TAKE i \in 1 .. Len(t)
    <3>2. /\ i + Len(s) \in 1 .. Len(w) /\ ~(i + Len(s) <= Len(s))
          /\ (i + Len(s)) - Len(s) = i
      BY <1>1
    <3>3. QED  BY <1>1, <3>2
  <2>2. QED  BY <1>2, <2>1 DEF ToSet
<1>6. ToSet(w) = {w[i] : i \in 1 .. Len(w)}  BY <1>2 DEF ToSet
<1>7. QED  BY <1>1, <1>3, <1>4, <1>5, <1>6

-----------------------------------------------------------------------------
(* What a handler has done when it comes to send: it has taken the PDU p,  *)
(* and w is what it will send.                                             *)

Changes(p) ==
    \/ UNCHANGED <<rows, met>>
    \/ /\ p.type = "ADD_USER_AGREED"
       /\ rows' = rows \cup {<<p.from, p.about>>, <<p.about, p.from>>}
       /\ met' = met \cup {{p.from, p.about}}
    \/ /\ p.type = "DEL_FRIEND_RESPEST"
       /\ \E s \in SUBSET {<<p.from, p.about>>, <<p.about, p.from>>} : rows' = rows \ s
       /\ met' = met

Sends(p, w) ==
    /\ w \in Seq(Items)
    /\ \A s \in ToSet(w) : \A v \in s.to : Fits(s.pdu, v)
    /\ \A s \in ToSet(w) : s.pdu.type = "ADD_USER_RESPEST" => s.pdu = p

Handled(u, p, w) ==
    /\ Routed(u) /\ work[u] = << >> /\ toServer[u] # << >> /\ p = Head(toServer[u])
    /\ toServer' = [toServer EXCEPT ![u] = Tail(@)]
    /\ work' = [work EXCEPT ![u] = w]
    /\ UNCHANGED <<stage, toClient, dialog, list, chat, clicks>>
    /\ Changes(p)
    /\ Sends(p, w)

LEMMA PduTyped ==
    ASSUME NEW t \in Types, NEW u \in Users, NEW v \in Users
    PROVE  /\ Pdu(t, u, v) \in Pdus
           /\ Pdu(t, u, v).type = t /\ Pdu(t, u, v).from = u /\ Pdu(t, u, v).about = v
  BY DEF Pdu, Pdus

LEMMA SendingTyped ==
    ASSUME NEW r \in SUBSET Users, r # {}, NEW p \in Pdus
    PROVE  Sending(r, p) \in Items /\ Sending(r, p).to = r /\ Sending(r, p).pdu = p
  BY DEF Sending, Items

\* Most handlers send one PDU to one user, which nobody but the type decides.
LEMMA SendsOne ==
    ASSUME NEW p \in Pdus, NEW r \in SUBSET Users, r # {}, NEW q \in Pdus,
           \A v \in r : Fits(q, v), q.type = "ADD_USER_RESPEST" => q = p
    PROVE  Sends(p, <<Sending(r, q)>>)
<1> DEFINE s == Sending(r, q)
<1>1. s \in Items /\ s.to = r /\ s.pdu = q  BY SendingTyped
<1>2. <<s>> \in Seq(Items) /\ ToSet(<<s>>) = {s}  BY <1>1, OneElement
<1>3. QED  BY <1>1, <1>2 DEF Sends

LEMMA SendsNothing == ASSUME NEW p PROVE Sends(p, << >>)
  BY NoElements DEF Sends

LEMMA SendsBoth ==
    ASSUME NEW p, NEW v, NEW w, Sends(p, v), Sends(p, w)
    PROVE  Sends(p, v \o w)
<1>1. v \o w \in Seq(Items) /\ ToSet(v \o w) = ToSet(v) \cup ToSet(w)
  BY Joined DEF Sends
<1>2. QED  BY <1>1 DEF Sends
\* What the handler of u's connection has taken, whatever the handler.
LEMMA TakesPdu ==
    ASSUME IInv, NEW u \in Users, NEW t, Takes(u, t)
    PROVE  LET p == Head(toServer[u]) IN
           /\ p \in Pdus /\ p.from \in Users /\ p.about \in Users /\ p.type = t
           /\ Routed(u) /\ work[u] = << >> /\ toServer[u] # << >>
           /\ toServer' = [toServer EXCEPT ![u] = Tail(@)]
           /\ UNCHANGED <<stage, toClient, dialog, list, chat, clicks>>
<1>1. Head(toServer[u]) \in Pdus  BY Taken DEF Takes, IInv, Typed
<1>2. QED  BY <1>1 DEF Takes, Pdus

LEMMA AsTaken ==
    ASSUME IInv, NEW u \in Users, toServer[u] # << >>
    PROVE  Asks(Head(toServer[u]), u)
<1>1. Head(toServer[u]) \in ToSet(toServer[u])  BY Taken DEF IInv, Typed
<1>2. QED  BY <1>1 DEF IInv, Addressed

LEMMA ReplySent ==
    ASSUME NEW u \in Users, NEW p \in Pdus,
           NEW t \in {"ADD_USER_RESPONSE", "DEL_FRIEND_RESPONSE"}
    PROVE  Sends(p, <<Reply(u, t)>>)
<1>1. Pdu(t, u, u) \in Pdus /\ Pdu(t, u, u).type = t  BY PduTyped DEF Types
<1>2. \A v \in {u} : Fits(Pdu(t, u, u), v)  BY <1>1 DEF Fits, Messages
<1>3. QED  BY <1>1, <1>2, SendsOne DEF Reply

LEMMA AddUserReqHandled ==
    ASSUME IInv, NEW u \in Users, HandleAddUserReq(u)
    PROVE  \E p \in Pdus : \E w : Handled(u, p, w)
<1> DEFINE p == Head(toServer[u])
           forward == ~AreFriends(p.from, p.about) /\ p.about \in Online
           first == IF forward THEN <<Sending({p.about}, p)>> ELSE << >>
           w == first \o <<Reply(u, "ADD_USER_RESPONSE")>>
<1>1. Takes(u, "ADD_USER_RESPEST") /\ ToSend(u, w) /\ UNCHANGED <<rows, met>>
  BY DEF HandleAddUserReq
<1>2. p \in Pdus /\ p.about \in Users /\ p.type = "ADD_USER_RESPEST"  BY <1>1, TakesPdu
<1>3. Sends(p, first)
  <2>1. \A v \in {p.about} : Fits(p, v)  BY <1>2 DEF Fits, Messages
  <2>2. Sends(p, <<Sending({p.about}, p)>>)  BY <1>2, <2>1, SendsOne
  <2>3. QED  BY <2>2, SendsNothing
<1>4. Sends(p, w)  BY <1>2, <1>3, ReplySent, SendsBoth
<1>5. Handled(u, p, w)  BY <1>1, <1>4, TakesPdu DEF Handled, ToSend, Changes
<1>6. QED  BY <1>2, <1>5

LEMMA AgreedHandled ==
    ASSUME IInv, NEW u \in Users, HandleAddUserAgreed(u) \/ HandleAddUserRefuse(u)
    PROVE  \E p \in Pdus : \E w : Handled(u, p, w)
<1> DEFINE p == Head(toServer[u])
           w == <<Sending({p.from}, p)>>
<1>1. PICK t \in {"ADD_USER_AGREED", "ADD_USER_REFUSE"} :
         /\ Takes(u, t) /\ ToSend(u, w)
         /\ (t = "ADD_USER_AGREED" /\ Insert(p.from, p.about)) \/ UNCHANGED <<rows, met>>
  BY DEF HandleAddUserAgreed, HandleAddUserRefuse
<1>2. p \in Pdus /\ p.from \in Users /\ p.type = t  BY <1>1, TakesPdu
<1>3. Sends(p, w)
  <2>1. \A v \in {p.from} : Fits(p, v)  BY <1>2 DEF Fits, Messages
  <2>2. QED  BY <1>2, <2>1, SendsOne
<1>4. Changes(p)  BY <1>1, <1>2 DEF Changes, Insert
<1>5. Handled(u, p, w)  BY <1>1, <1>3, <1>4, TakesPdu DEF Handled, ToSend
<1>6. QED  BY <1>2, <1>5

\* Who are friends now have met.
LEMMA FriendsMet ==
    ASSUME IInv, NEW u \in Users
    PROVE  FriendsOf(u) \subseteq Users /\ \A v \in FriendsOf(u) : {u, v} \in met
<1> SUFFICES ASSUME NEW v \in FriendsOf(u) PROVE v \in Users /\ {u, v} \in met
  OBVIOUS
<1>1. v \in Users /\ (<<v, u>> \in rows \/ <<u, v>> \in rows)
  BY DEF FriendsOf, Online
<1>2. {v, u} \in met \/ {u, v} \in met  BY <1>1 DEF IInv, Addressed
<1>3. {v, u} = {u, v}  OBVIOUS
<1>4. QED  BY <1>1, <1>2, <1>3

LEMMA FlushFriendHandled ==
    ASSUME IInv, NEW u \in Users, HandleFlushFriend(u)
    PROVE  \E p \in Pdus : \E w : Handled(u, p, w)
<1> DEFINE p == Head(toServer[u])
           q == ListOf(u, FriendsOf(p.from))
           w == <<Sending({u}, q)>>
<1>1. Takes(u, "FLUSH_FRIEND_RESPEST") /\ ToSend(u, w) /\ UNCHANGED <<rows, met>>
  BY DEF HandleFlushFriend
<1>2. p \in Pdus /\ p.from = u
  <2>1. p \in Pdus /\ p.type = "FLUSH_FRIEND_RESPEST" /\ Asks(p, u)
    BY <1>1, TakesPdu, AsTaken DEF Takes
  <2>2. QED  BY <2>1 DEF Asks
<1>3. Sends(p, w)
  <2>1. FriendsOf(u) \subseteq Users /\ \A v \in FriendsOf(u) : {u, v} \in met
    BY FriendsMet
  <2>2. q \in Pdus /\ q.type = "FLUSH_FRIEND_RESPONSE" /\ q.names = FriendsOf(u)
    BY <1>2, <2>1 DEF ListOf, Pdus, Types
  <2>3. \A v \in {u} : Fits(q, v)  BY <2>1, <2>2 DEF Fits, Messages
  <2>4. QED  BY <1>2, <2>2, <2>3, SendsOne
<1>4. Handled(u, p, w)  BY <1>1, <1>3, TakesPdu DEF Handled, ToSend, Changes
<1>5. QED  BY <1>2, <1>4

LEMMA DelFriendHandled ==
    ASSUME IInv, NEW u \in Users, HandleDelFriend(u)
    PROVE  \E p \in Pdus : \E w : Handled(u, p, w)
<1> DEFINE p == Head(toServer[u])
           r == Reply(u, "DEL_FRIEND_RESPONSE")
           n == Sending({p.about}, p)
           w == <<r, n>>
<1>1. Takes(u, "DEL_FRIEND_RESPEST") /\ ToSend(u, w) /\ Delete(p.from, p.about)
  BY DEF HandleDelFriend
<1>2. p \in Pdus /\ p.about \in Users /\ p.type = "DEL_FRIEND_RESPEST"  BY <1>1, TakesPdu
<1>3. Sends(p, w)
  <2>1. \A v \in {p.about} : Fits(p, v)  BY <1>2 DEF Fits, Messages
  <2>2. Sends(p, <<n>>)  BY <1>2, <2>1, SendsOne
  <2>3. "DEL_FRIEND_RESPONSE" \in Types  BY DEF Types
  <2>4. Sends(p, <<r>>)  BY <1>2, ReplySent
  <2>5. Pdu("DEL_FRIEND_RESPONSE", u, u) \in Pdus  BY <2>3, PduTyped
  <2>6. r \in Items /\ n \in Items  BY <1>2, <2>5, SendingTyped DEF Reply
  <2>7. /\ w \in Seq(Items)
        /\ ToSet(w) = ToSet(<<r>>) \cup ToSet(<<n>>)
    BY <2>6, OneElement, TwoElements
  <2>8. QED  BY <2>2, <2>4, <2>7 DEF Sends
<1>4. Handled(u, p, w)
  BY <1>1, <1>2, <1>3, TakesPdu DEF Handled, ToSend, Changes, Delete
<1>5. QED  BY <1>2, <1>4

\* The table is not asked: what keeps a stranger out is that u's client could
\* write to nobody else.
LEMMA PrivateChatHandled ==
    ASSUME IInv, NEW u \in Users, HandlePrivateChat(u)
    PROVE  \E p \in Pdus : \E w : Handled(u, p, w)
<1> DEFINE p == Head(toServer[u])
           w == <<Sending({p.about}, p)>>
<1>1. Takes(u, "PRIVATE_CHAT_RESPEST") /\ ToSend(u, w) /\ UNCHANGED <<rows, met>>
  BY DEF HandlePrivateChat
<1>2. p \in Pdus /\ p.about \in Users /\ p.type = "PRIVATE_CHAT_RESPEST"
  BY <1>1, TakesPdu
<1>3. \A v \in {p.about} : Fits(p, v)
  <2>1. Asks(p, u)  BY <1>1, AsTaken DEF Takes
  <2>2. QED  BY <1>2, <2>1 DEF Asks, Fits
<1>4. Sends(p, w)  BY <1>2, <1>3, SendsOne
<1>5. Handled(u, p, w)  BY <1>1, <1>4, TakesPdu DEF Handled, ToSend, Changes
<1>6. QED  BY <1>2, <1>5

\* The only place where a group message gets its receivers: they are friends
\* at this moment, and so have met.
LEMMA GroupChatHandled ==
    ASSUME IInv, NEW u \in Users, HandleGroupChat(u)
    PROVE  \E p \in Pdus : \E w : Handled(u, p, w)
<1> DEFINE p == Head(toServer[u])
           friends == FriendsOf(p.from)
           w == IF friends = {} THEN << >> ELSE <<Sending(friends, p)>>
<1>1. Takes(u, "GROUP_CHAT_RESPEST") /\ ToSend(u, w) /\ UNCHANGED <<rows, met>>
  BY DEF HandleGroupChat
<1>2. p \in Pdus /\ p.from \in Users /\ p.type = "GROUP_CHAT_RESPEST"  BY <1>1, TakesPdu
<1>3. friends \subseteq Users /\ \A v \in friends : {p.from, v} \in met
  BY <1>2, FriendsMet
<1>4. Sends(p, w)
  <2>1. \A v \in friends : Fits(p, v)  BY <1>2, <1>3 DEF Fits
  <2>2. CASE friends = {}  BY <2>2, SendsNothing
  <2>3. CASE friends # {}
    <3> HIDE DEF friends
    <3>1. Sends(p, <<Sending(friends, p)>>)  BY <1>2, <1>3, <2>1, <2>3, SendsOne
    <3>2. QED  BY <2>3, <3>1
  <2>4. QED  BY <2>2, <2>3
<1>5. Handled(u, p, w)  BY <1>1, <1>4, TakesPdu DEF Handled, ToSend, Changes
<1>6. QED  BY <1>2, <1>5

LEMMA HandleHandled ==
    ASSUME IInv, NEW u \in Users, Handle(u)
    PROVE  \E p \in Pdus : \E w : Handled(u, p, w)
  BY AddUserReqHandled, AgreedHandled, FlushFriendHandled, DelFriendHandled,
     PrivateChatHandled, GroupChatHandled DEF Handle
-----------------------------------------------------------------------------
(* The invariant, one step per kind of step.                               *)

LEMMA TypedInit == Init => Typed
<1> SUFFICES ASSUME Init PROVE Typed  OBVIOUS
<1>1. << >> \in Seq(Pdus) /\ << >> \in Seq(Items)  BY NoElements
<1>2. 0 \in 0 .. MaxClicks  BY FriendsAssumption
<1>3. QED  BY <1>1, <1>2 DEF Init, Typed, Stages

LEMMA AddressedInit == Init => Addressed
  BY NoElements DEF Init, Addressed

LEMMA SameAddressed ==
    ASSUME Addressed,
           UNCHANGED <<rows, met, toServer, toClient, work, dialog, list, chat>>
    PROVE  Addressed'
<1>1. \A u \in Users : \A p \in ToSet(toClient'[u]) : Fits(p, u)'
  BY DEF Addressed, Fits
<1>2. \A u \in Users : \A s \in ToSet(work'[u]) : \A v \in s.to : Fits(s.pdu, v)'
  BY DEF Addressed, Fits
<1>3. \A u \in Users : \A p \in ToSet(toServer'[u]) : Asks(p, u)'
  BY DEF Addressed, Asks
<1>4. QED  BY <1>1, <1>2, <1>3 DEF Addressed

LEMMA ComeAndGoKeeps == ASSUME IInv, NEW u \in Users, ComeAndGo(u) PROVE IInv'
<1>1. PICK t \in Stages : stage' = [stage EXCEPT ![u] = t]
  BY DEF ComeAndGo, Move, Stages
<1>2. Typed'  BY <1>1 DEF IInv, Typed, ComeAndGo
<1>3. Addressed'  BY SameAddressed DEF IInv, ComeAndGo
<1>4. QED  BY <1>2, <1>3 DEF IInv

\* What is on its way is lost: when one user leaves, or with the server.
LEMMA LossKeeps ==
    ASSUME IInv, UNCHANGED <<rows, met, clicks>>, stage' \in [Users -> Stages],
           toServer' \in [Users -> Seq(Pdus)], toClient' \in [Users -> Seq(Pdus)],
           work' \in [Users -> Seq(Items)],
           dialog' \in [Users -> Pdus \cup {NoPdu}],
           list' \in [Users -> SUBSET Users], chat' \in [Users -> SUBSET Users],
           \A u \in Users : /\ toServer'[u] \in {toServer[u], << >>}
                            /\ toClient'[u] \in {toClient[u], << >>}
                            /\ list'[u] \in {list[u], {}}
                            /\ chat'[u] \in {chat[u], {}}
                            /\ work'[u] \in {work[u], << >>}
                            /\ dialog'[u] \in {dialog[u], NoPdu}
    PROVE  IInv'
<1>1. Typed'  BY DEF IInv, Typed
<1>2. ASSUME NEW u \in Users, NEW p \in ToSet(toClient'[u]) PROVE Fits(p, u)'
  BY <1>2, NoElements DEF IInv, Addressed, Fits
<1>3. ASSUME NEW u \in Users, NEW s \in ToSet(work'[u]), NEW v \in s.to PROVE Fits(s.pdu, v)'
  BY <1>3, NoElements DEF IInv, Addressed, Fits
<1>4. ASSUME NEW u \in Users, NEW p \in ToSet(toServer'[u]) PROVE Asks(p, u)'
  BY <1>4, NoElements DEF IInv, Addressed, Asks
<1>5. ASSUME NEW u \in Users, NEW v \in list'[u] \cup chat'[u] PROVE {u, v} \in met'
  <2>1. v \in list[u] \cup chat[u]  BY <1>5
  <2>2. QED  BY <2>1 DEF IInv, Addressed
<1>6. Addressed'
  BY <1>2, <1>3, <1>4, <1>5 DEF IInv, Addressed
<1>7. QED  BY <1>1, <1>6 DEF IInv

LEMMA LeaveKeeps == ASSUME IInv, NEW u \in Users, Leave(u) PROVE IInv'
  BY LossKeeps, NoElements DEF IInv, Typed, Leave, Move, Stages

LEMMA CrashKeeps == ASSUME IInv, Crash PROVE IInv'
  BY LossKeeps, NoElements DEF IInv, Typed, Crash, Stages

LEMMA ClickKeeps ==
    ASSUME IInv, NEW u \in Users, NEW p \in Pdus, Click(u, p), Asks(p, u),
           chat' \in [Users -> SUBSET Users],
           \A x \in Users : chat'[x] \subseteq list[x] \cup chat[x]
    PROVE  IInv'
<1>1. /\ toServer' \in [Users -> Seq(Pdus)]
      /\ \A x \in Users : \A q \in ToSet(toServer'[x]) :
             q \in ToSet(toServer[x]) \/ (q = p /\ x = u)
  BY Appended DEF IInv, Typed, Click
<1>2. clicks' \in 0 .. MaxClicks  BY FriendsAssumption DEF IInv, Typed, Click
<1>3. UNCHANGED <<rows, met, stage, toClient, work, dialog, list>>  BY DEF Click
<1>4. Typed'  BY <1>1, <1>2, <1>3 DEF IInv, Typed
<1>5. Addressed'
  <2>1. \A x \in Users : \A q \in ToSet(toClient'[x]) : Fits(q, x)'
    BY <1>3 DEF IInv, Addressed, Fits
  <2>2. \A x \in Users : \A s \in ToSet(work'[x]) : \A v \in s.to : Fits(s.pdu, v)'
    BY <1>3 DEF IInv, Addressed, Fits
  <2>3. ASSUME NEW x \in Users, NEW q \in ToSet(toServer'[x]) PROVE Asks(q, x)'
    <3>1. Asks(q, x)  BY <1>1, <2>3 DEF IInv, Addressed
    <3>2. QED  BY <1>3, <3>1 DEF Asks
  <2>4. ASSUME NEW x \in Users, NEW v \in list'[x] \cup chat'[x] PROVE {x, v} \in met'
    <3>1. v \in list[x] \cup chat[x]  BY <1>3, <2>4
    <3>2. QED  BY <1>3, <3>1 DEF IInv, Addressed
  <2>5. QED  BY <1>3, <2>1, <2>2, <2>3, <2>4 DEF IInv, Addressed
<1>6. QED  BY <1>4, <1>5 DEF IInv

LEMMA ClicksKeep ==
    ASSUME IInv, NEW u \in Users, NEW v \in Users,
           \/ AddFriend(u, v) \/ DelFriend(u, v) \/ PrivateChat(u, v)
           \/ FlushFriend(u) \/ GroupChat(u)
    PROVE  IInv'
<1>1. PICK t \in Types, w \in Users :
        /\ Click(u, Pdu(t, u, w))
        /\ t = "PRIVATE_CHAT_RESPEST" => w \in list[u] \cup chat[u]
  BY DEF AddFriend, DelFriend, PrivateChat, FlushFriend, GroupChat, Types
<1>2. \/ chat' = chat
      \/ chat' = [chat EXCEPT ![u] = {v}] /\ v \in list[u] \cup chat[u]
  BY DEF AddFriend, DelFriend, PrivateChat, FlushFriend, GroupChat
<1>3. /\ chat' \in [Users -> SUBSET Users]
      /\ \A x \in Users : chat'[x] \subseteq list[x] \cup chat[x]
  <2>1. chat \in [Users -> SUBSET Users]  BY DEF IInv, Typed
  <2>2. QED  BY <1>2, <2>1
<1>4. Asks(Pdu(t, u, w), u)
  BY <1>1, PduTyped DEF Asks, IInv, Addressed
<1>5. QED  BY <1>1, <1>3, <1>4, PduTyped, ClickKeeps

LEMMA RecvMsgKeeps == ASSUME IInv, NEW u \in Users, RecvMsg(u) PROVE IInv'
<1> DEFINE p == Head(toClient[u])
<1>1. /\ toClient[u] # << >> /\ toClient' = [toClient EXCEPT ![u] = Tail(@)]
      /\ dialog' = [dialog EXCEPT ![u] = IF p.type = "ADD_USER_RESPEST" THEN p ELSE NoPdu]
      /\ list' = [list EXCEPT ![u] = IF p.type = "FLUSH_FRIEND_RESPONSE" THEN p.names ELSE @]
      /\ chat' = [chat EXCEPT ![u] = IF p.type = "PRIVATE_CHAT_RESPEST" THEN {p.from} ELSE @]
      /\ UNCHANGED <<rows, met, stage, toServer, work, clicks>>
  BY DEF RecvMsg
<1>2. /\ p \in Pdus /\ Tail(toClient[u]) \in Seq(Pdus)
      /\ ToSet(toClient[u]) = {p} \cup ToSet(Tail(toClient[u]))
  BY <1>1, Taken DEF IInv, Typed
<1>3. Typed'
  <2>1. p.from \in Users /\ p.names \in SUBSET Users  BY <1>2 DEF Pdus
  <2>2. QED  BY <1>1, <1>2, <2>1 DEF IInv, Typed
<1>4. Addressed'
  <2>1. ASSUME NEW v \in Users, NEW q \in ToSet(toClient'[v]) PROVE Fits(q, v)'
    <3>1. q \in ToSet(toClient[v])  BY <1>1, <1>2, <2>1 DEF IInv, Typed
    <3>2. QED  BY <1>1, <3>1 DEF IInv, Addressed, Fits
  <2>2. ASSUME NEW v \in Users, dialog'[v] # NoPdu
        PROVE  dialog'[v].type = "ADD_USER_RESPEST" /\ dialog'[v].about = v
    <3>1. CASE v = u
      <4>1. dialog'[u] = IF p.type = "ADD_USER_RESPEST" THEN p ELSE NoPdu
        BY <1>1 DEF IInv, Typed
      <4>2. Fits(p, u)  BY <1>2 DEF IInv, Addressed
      <4>3. QED  BY <2>2, <3>1, <4>1, <4>2 DEF Fits
    <3>2. CASE v # u
      <4>1. dialog'[v] = dialog[v]  BY <1>1, <3>2 DEF IInv, Typed
      <4>2. QED  BY <2>2, <4>1 DEF IInv, Addressed
    <3>3. QED  BY <3>1, <3>2
  <2>3. \A v \in Users : \A s \in ToSet(work'[v]) : \A w \in s.to : Fits(s.pdu, w)'
    BY <1>1 DEF IInv, Addressed, Fits
  <2>4. \A r \in rows' : {r[1], r[2]} \in met'  BY <1>1 DEF IInv, Addressed
  <2>5. \A v \in Users : \A q \in ToSet(toServer'[v]) : Asks(q, v)'
    BY <1>1 DEF IInv, Addressed, Asks
  <2>6. ASSUME NEW v \in Users, NEW w \in list'[v] \cup chat'[v] PROVE {v, w} \in met'
    <3>1. CASE w \in list[v] \cup chat[v]  BY <1>1, <3>1 DEF IInv, Addressed
    <3>2. CASE w \notin list[v] \cup chat[v]
      <4>1. /\ v = u
            /\ \/ p.type = "FLUSH_FRIEND_RESPONSE" /\ w \in p.names
               \/ p.type = "PRIVATE_CHAT_RESPEST" /\ w = p.from
        BY <1>1, <2>6, <3>2 DEF IInv, Typed
      <4>2. Fits(p, u)  BY <1>2 DEF IInv, Addressed
      <4>3. {w, u} = {u, w}  OBVIOUS
      <4>4. QED  BY <1>1, <4>1, <4>2, <4>3 DEF Fits, Messages
    <3>3. QED  BY <3>1, <3>2
  <2>7. QED  BY <2>1, <2>2, <2>3, <2>4, <2>5, <2>6 DEF Addressed
<1>5. QED  BY <1>3, <1>4 DEF IInv

LEMMA AnswerKeeps ==
    ASSUME IInv, NEW u \in Users, NEW t \in {"ADD_USER_AGREED", "ADD_USER_REFUSE"},
           Answer(u, t)
    PROVE  IInv'
<1> DEFINE p == [dialog[u] EXCEPT !.type = t]
<1>1. p \in Pdus
  <2>1. dialog[u] \in Pdus  BY DEF Answer, IInv, Typed
  <2>2. t \in Types  BY DEF Types
  <2>3. QED  BY <2>1, <2>2 DEF Pdus
<1>2. /\ toServer' \in [Users -> Seq(Pdus)]
      /\ \A x \in Users : \A q \in ToSet(toServer'[x]) :
             q \in ToSet(toServer[x]) \/ (q = p /\ x = u)
  <2> HIDE DEF p
  <2>1. /\ Append(toServer[u], p) \in Seq(Pdus)
        /\ ToSet(Append(toServer[u], p)) = ToSet(toServer[u]) \cup {p}
    BY <1>1, Appended DEF IInv, Typed
  <2>2. toServer' = [toServer EXCEPT ![u] = Append(@, p)]  BY DEF Answer, p
  <2>3. QED  BY <2>1, <2>2 DEF IInv, Typed
<1>3. dialog' = [dialog EXCEPT ![u] = NoPdu]
      /\ UNCHANGED <<rows, met, stage, toClient, work, list, chat, clicks>>
  BY DEF Answer
<1>4. Typed'  BY <1>2, <1>3 DEF IInv, Typed
<1>5. Addressed'
  <2>1. \A v \in Users : dialog'[v] \in {dialog[v], NoPdu}  BY <1>3 DEF IInv, Typed
  <2>2. \A v \in Users : \A q \in ToSet(toClient'[v]) : Fits(q, v)'
    BY <1>3 DEF IInv, Addressed, Fits
  <2>3. \A v \in Users : \A s \in ToSet(work'[v]) : \A x \in s.to : Fits(s.pdu, x)'
    BY <1>3 DEF IInv, Addressed, Fits
  <2>4. ASSUME NEW v \in Users, NEW q \in ToSet(toServer'[v]) PROVE Asks(q, v)'
    <3>1. p.type = t  BY <1>1 DEF Answer, IInv, Typed, Pdus
    <3>2. CASE q \in ToSet(toServer[v])  BY <1>3, <3>2 DEF IInv, Addressed, Asks
    <3>3. CASE q = p  BY <3>1, <3>3 DEF Asks
    <3>4. QED  BY <1>2, <2>4, <3>2, <3>3
  <2>5. \A v \in Users : \A w \in list'[v] \cup chat'[v] : {v, w} \in met'
    BY <1>3 DEF IInv, Addressed
  <2>6. QED  BY <1>3, <2>1, <2>2, <2>3, <2>4, <2>5 DEF IInv, Addressed
<1>6. QED  BY <1>4, <1>5 DEF IInv

LEMMA HandledKeeps ==
    ASSUME IInv, NEW u \in Users, NEW p \in Pdus, NEW w, Handled(u, p, w)
    PROVE  IInv'
<1>1. p.from \in Users /\ p.about \in Users  BY DEF Pdus
<1>2. /\ rows' \subseteq rows \cup {<<p.from, p.about>>, <<p.about, p.from>>}
      /\ met \subseteq met' /\ met' \subseteq met \cup {{p.from, p.about}}
      /\ rows' \subseteq rows \/ {p.from, p.about} \in met'
  BY DEF Handled, Changes
<1>3. Typed'
  <2>1. rows' \in SUBSET (Users \X Users)  BY <1>1, <1>2 DEF IInv, Typed
  <2>2. met' \subseteq {{a, b} : a, b \in Users}
    <3> DEFINE P == {{a, b} : a, b \in Users}
    <3>1. {p.from, p.about} \in P  BY <1>1
    <3>2. met \subseteq P  BY DEF IInv, Typed
    <3> HIDE DEF P
    <3>3. met' \subseteq P  BY <1>2, <3>1, <3>2
    <3>4. QED  BY <3>3 DEF P
  <2>3. toServer' \in [Users -> Seq(Pdus)]  BY Taken DEF IInv, Typed, Handled
  <2>4. work' \in [Users -> Seq(Items)]  BY DEF IInv, Typed, Handled, Sends
  <2>5. QED  BY <2>1, <2>2, <2>3, <2>4 DEF IInv, Typed, Handled
<1>4. \A q, v : (Fits(q, v) => Fits(q, v)') /\ (Asks(q, v) => Asks(q, v)')
  BY <1>2 DEF Fits, Asks
<1>5. Addressed'
  <2>1. ASSUME NEW v \in Users, NEW s \in ToSet(work'[v]), NEW x \in s.to
        PROVE  Fits(s.pdu, x)
    <3>1. CASE v = u
      <4>1. work'[v] = w  BY <3>1 DEF Handled, IInv, Typed
      <4>2. QED  BY <2>1, <4>1 DEF Handled, Sends
    <3>2. CASE v # u
      <4>1. work'[v] = work[v]  BY <3>2 DEF Handled, IInv, Typed
      <4>2. QED  BY <2>1, <4>1 DEF IInv, Addressed
    <3>3. QED  BY <3>1, <3>2
  <2>2. ASSUME NEW r \in rows' PROVE {r[1], r[2]} \in met'
    <3>1. CASE r \in rows  BY <1>2, <3>1 DEF IInv, Addressed
    <3>2. CASE r \notin rows
      <4>1. {r[1], r[2]} = {p.from, p.about}  BY <1>2, <2>2, <3>2
      <4>2. QED  BY <1>2, <2>2, <3>2, <4>1
    <3>3. QED  BY <3>1, <3>2
  <2>3. ASSUME NEW v \in Users, NEW q \in ToSet(toServer'[v]) PROVE Asks(q, v)'
    <3>1. q \in ToSet(toServer[v])
      <4>1. ToSet(Tail(toServer[u])) \subseteq ToSet(toServer[u])
        BY Taken DEF IInv, Typed, Handled
      <4>2. toServer'[v] = toServer[v] \/ (v = u /\ toServer'[v] = Tail(toServer[u]))
        BY DEF IInv, Typed, Handled
      <4>3. QED  BY <2>3, <4>1, <4>2
    <3>2. QED  BY <1>4, <3>1 DEF IInv, Addressed
  <2>4. \A v \in Users : \A x \in list'[v] \cup chat'[v] : {v, x} \in met'
    BY <1>2 DEF IInv, Addressed, Handled
  <2>5. \A v \in Users : \A q \in ToSet(toClient'[v]) : Fits(q, v)'
    BY <1>4 DEF IInv, Addressed, Handled
  <2>6. \A v \in Users : \A i \in ToSet(work'[v]) : \A x \in i.to : Fits(i.pdu, x)'
    BY <1>4, <2>1
  <2>7. QED  BY <2>2, <2>3, <2>4, <2>5, <2>6 DEF IInv, Addressed, Handled
<1>6. QED  BY <1>3, <1>5 DEF IInv

\* One PDU leaves for v; w is what is left of the work.
Sent(u, s, v, w) ==
    /\ work[u] # << >> /\ s = Head(work[u]) /\ v \in s.to
    /\ toClient' = IF Routed(v) THEN [toClient EXCEPT ![v] = Append(@, s.pdu)] ELSE toClient
    /\ work' = [work EXCEPT ![u] = w]
    /\ w \in Seq(Items)
    /\ \A x \in ToSet(w) : \E y \in ToSet(work[u]) : x.pdu = y.pdu /\ x.to \subseteq y.to
    /\ s \in Items /\ s \in ToSet(work[u]) /\ s.pdu \in Pdus /\ v \in Users
    /\ UNCHANGED <<rows, met, stage, toServer, dialog, list, chat, clicks>>

LEMMA SendSent ==
    ASSUME IInv, NEW u \in Users, Send(u)
    PROVE  \E s \in Items : \E v \in Users : \E w : Sent(u, s, v, w)
<1> DEFINE s == Head(work[u])
<1>1. work[u] # << >> /\ work[u] \in Seq(Items)  BY DEF Send, IInv, Typed
<1>2. /\ s \in Items /\ Tail(work[u]) \in Seq(Items)
      /\ ToSet(work[u]) = {s} \cup ToSet(Tail(work[u]))
  BY <1>1, Taken
<1>3. PICK v \in s.to :
        /\ toClient' = IF Routed(v) THEN [toClient EXCEPT ![v] = Append(@, s.pdu)] ELSE toClient
        /\ ToSend(u, (IF s.to = {v} THEN << >> ELSE <<Sending(s.to \ {v}, s.pdu)>>)
                     \o Tail(work[u]))
  BY DEF Send
<1>4. v \in Users /\ s.pdu \in Pdus /\ s.to \in SUBSET Users  BY <1>2 DEF Items
<1> DEFINE rest == IF s.to = {v} THEN << >> ELSE <<Sending(s.to \ {v}, s.pdu)>>
           w == rest \o Tail(work[u])
<1>5. rest \in Seq(Items) /\ \A x \in ToSet(rest) : x.pdu = s.pdu /\ x.to \subseteq s.to
  <2>1. CASE s.to = {v}  BY <2>1, NoElements
  <2>2. CASE s.to # {v}
    <3>1. PICK x : x = Sending(s.to \ {v}, s.pdu)  OBVIOUS
    <3>2. x \in Items /\ x.to = s.to \ {v} /\ x.pdu = s.pdu
      BY <1>4, <2>2, <3>1, SendingTyped
    <3>3. <<x>> \in Seq(Items) /\ ToSet(<<x>>) = {x}  BY <3>2, OneElement
    <3>4. QED  BY <2>2, <3>1, <3>2, <3>3
  <2>3. QED  BY <2>1, <2>2
<1>6. w \in Seq(Items) /\ ToSet(w) = ToSet(rest) \cup ToSet(Tail(work[u]))
  <2> HIDE DEF rest
  <2>1. rest \in Seq(Items) /\ Tail(work[u]) \in Seq(Items)  BY <1>2, <1>5
  <2>2. QED  BY ONLY <2>1, Joined
<1>7. \A x \in ToSet(w) : \E y \in ToSet(work[u]) : x.pdu = y.pdu /\ x.to \subseteq y.to
  BY <1>2, <1>5, <1>6
<1>8. work' = [work EXCEPT ![u] = w]  BY <1>3 DEF ToSend
<1>9. Sent(u, s, v, w)
  <2> HIDE DEF w
  <2>1. QED  BY <1>1, <1>2, <1>3, <1>4, <1>6, <1>7, <1>8 DEF Sent, Send
<1>10. QED  BY <1>2, <1>4, <1>9

LEMMA SentKeeps ==
    ASSUME IInv, NEW u \in Users, NEW s \in Items, NEW v \in Users, NEW w, Sent(u, s, v, w)
    PROVE  IInv'
<1>1. Fits(s.pdu, v)  BY DEF IInv, Addressed, Sent
<1>2. ASSUME NEW x \in Users
      PROVE  /\ toClient'[x] \in Seq(Pdus)
             /\ \A p \in ToSet(toClient'[x]) : p \in ToSet(toClient[x]) \/ (p = s.pdu /\ x = v)
  <2>1. Append(toClient[v], s.pdu) \in Seq(Pdus) /\
        ToSet(Append(toClient[v], s.pdu)) = ToSet(toClient[v]) \cup {s.pdu}
    BY Appended DEF IInv, Typed, Sent
  <2>2. \/ toClient'[x] = toClient[x]
        \/ x = v /\ toClient'[x] = Append(toClient[v], s.pdu)
    BY DEF Sent, IInv, Typed
  <2>3. CASE toClient'[x] = toClient[x]  BY <2>3 DEF IInv, Typed
  <2>4. CASE x = v /\ toClient'[x] = Append(toClient[v], s.pdu)  BY <2>1, <2>4
  <2>5. QED  BY <2>2, <2>3, <2>4
<1>3. Typed'
  <2>1. toClient' \in [Users -> Seq(Pdus)]  BY <1>2 DEF Sent, IInv, Typed
  <2>2. QED  BY <2>1 DEF Sent, IInv, Typed
<1>4. Addressed'
  <2>1. ASSUME NEW x \in Users, NEW p \in ToSet(toClient'[x]) PROVE Fits(p, x)'
    BY <1>1, <1>2 DEF IInv, Addressed, Fits, Sent
  <2>2. ASSUME NEW x \in Users, NEW i \in ToSet(work'[x]), NEW y \in i.to
        PROVE  Fits(i.pdu, y)'
    <3>1. PICK j \in ToSet(work[x]) : i.pdu = j.pdu /\ i.to \subseteq j.to
      <4>1. work'[x] = IF x = u THEN w ELSE work[x]  BY DEF Sent, IInv, Typed
      <4>2. QED  BY <2>2, <4>1 DEF Sent
    <3>2. Fits(j.pdu, y)  BY <3>1 DEF IInv, Addressed
    <3>3. QED  BY <3>1, <3>2 DEF Fits, Sent
  <2>3. \A x \in Users : \A q \in ToSet(toServer'[x]) : Asks(q, x)'
    BY DEF IInv, Addressed, Asks, Sent
  <2>4. QED  BY <2>1, <2>2, <2>3 DEF IInv, Addressed, Sent
<1>5. QED  BY <1>3, <1>4 DEF IInv

LEMMA Step == ASSUME IInv, [Next]_vars PROVE IInv'
<1>1. CASE UNCHANGED vars
  BY <1>1, SameAddressed DEF vars, clients, IInv, Typed
<1>2. CASE Crash  BY <1>2, CrashKeeps
<1>3. ASSUME NEW u \in Users, Handle(u) PROVE IInv'
  <2>1. PICK p \in Pdus : \E w : Handled(u, p, w)  BY <1>3, HandleHandled
  <2>2. PICK w : Handled(u, p, w)  BY <2>1
  <2>3. QED  BY <2>2, HandledKeeps
<1>4. ASSUME NEW u \in Users, Send(u) PROVE IInv'
  <2>1. PICK s \in Items, v \in Users : \E w : Sent(u, s, v, w)  BY <1>4, SendSent
  <2>2. PICK w : Sent(u, s, v, w)  BY <2>1
  <2>3. QED  BY <2>2, SentKeeps
<1>5. QED
  BY <1>1, <1>2, <1>3, <1>4, ComeAndGoKeeps, LeaveKeeps, ClicksKeep, RecvMsgKeeps,
     AnswerKeeps DEF Next

LEMMA Invariance == Spec => []IInv
<1>1. Init => IInv  BY TypedInit, AddressedInit DEF IInv
<1>2. QED  BY <1>1, Step, PTL DEF Spec

\* Whatever PDUs are on their way, and whoever leaves or crashes in between, the
\* types hold, and a request is only ever shown to the user it is about.
THEOREM TypeCorrectness == Spec => []TypeOK
<1>1. IInv => TypeOK
  <2> SUFFICES ASSUME IInv PROVE TypeOK  OBVIOUS
  <2>1. ASSUME NEW u \in Users
        PROVE  /\ \A i \in 1 .. Len(toServer[u]) : toServer[u][i] \in Pdus
               /\ \A i \in 1 .. Len(toClient[u]) : toClient[u][i] \in Pdus
               /\ \A i \in 1 .. Len(work[u]) : work[u][i] \in Items
    BY ElementOfSeq DEF IInv, Typed
  <2>2. \A u \in Users : dialog[u] # NoPdu => dialog[u] \in Pdus /\ dialog[u].about = u
    BY DEF IInv, Typed, Addressed
  <2>3. QED  BY <2>1, <2>2 DEF IInv, Typed, TypeOK, Items
<1>2. QED  BY <1>1, Invariance, PTL

\* A message, to the group or to one user, is heard by nobody who has not been a
\* friend of the sender, for any number of users, handlers and losses on the way.
THEOREM OnlyFriendsHear == Spec => []StrangersHearNothing
<1>1. IInv => StrangersHearNothing
  <2> SUFFICES ASSUME IInv, NEW u \in Users, NEW i \in 1 .. Len(toClient[u])
               PROVE  toClient[u][i].type \in Messages => {toClient[u][i].from, u} \in met
    BY DEF StrangersHearNothing, Messages
  <2>1. toClient[u][i] \in ToSet(toClient[u])  BY Elements DEF IInv, Typed
  <2>2. QED  BY <2>1 DEF IInv, Addressed, Fits
<1>2. QED  BY <1>1, Invariance, PTL

-----------------------------------------------------------------------------
(* The refinement of Friendship.                                           *)

Pairs == {{r[1], r[2]} : r \in rows}
Asked == {<<p.from, p.about>> : p \in Said("ADD_USER_AGREED")
              \cup {q \in OnItsWay : q.type = "ADD_USER_RESPEST"}}
Parting == {<<p.from, p.about>> : p \in Said("DEL_FRIEND_RESPEST")}

\* What of u's queues keeps a question alive, and a wish.
Questions == {"ADD_USER_RESPEST", "ADD_USER_AGREED"}
AskedAt(u) ==
    {p \in ToSet(toServer[u]) : p.type \in Questions}
    \cup {p \in ToSet(toClient[u]) : p.type = "ADD_USER_RESPEST"}
    \cup {p \in {dialog[u]} : p # NoPdu /\ p.type = "ADD_USER_RESPEST"}
    \cup {p \in {s.pdu : s \in ToSet(work[u])} : p.type = "ADD_USER_RESPEST"}
WishedAt(u) == {p \in ToSet(toServer[u]) : p.type = "DEL_FRIEND_RESPEST"}

LEMMA AskedIs ==
    ASSUME NEW e
    PROVE  /\ e \in Asked <=> \E u \in Users : \E p \in AskedAt(u) : e = <<p.from, p.about>>
           /\ e \in Asked' <=> \E u \in Users : \E p \in AskedAt(u)' : e = <<p.from, p.about>>
  BY DEF Asked, AskedAt, Said, OnItsWay, Questions

LEMMA PartingIs ==
    ASSUME NEW e
    PROVE  /\ e \in Parting <=> \E u \in Users : \E p \in WishedAt(u) : e = <<p.from, p.about>>
           /\ e \in Parting' <=> \E u \in Users : \E p \in WishedAt(u)' : e = <<p.from, p.about>>
  BY DEF Parting, WishedAt, Said

\* The actions of Friendship, in these terms.
LEMMA IsLose == ASSUME Pairs' = Pairs, Asked' \subseteq Asked, Parting' \subseteq Parting
                PROVE  FR!Next
  BY DEF FR!Next, FR!Lose, Pairs, Asked, Parting

LEMMA IsAsk ==
    ASSUME NEW u \in Users, NEW v \in Users, UNCHANGED <<Pairs, Parting>>,
           Asked' = Asked \cup {<<u, v>>}
    PROVE  FR!Next
  BY DEF FR!Next, FR!Ask, Pairs, Asked, Parting

LEMMA IsWish ==
    ASSUME NEW u \in Users, NEW v \in Users, UNCHANGED <<Pairs, Asked>>,
           Parting' = Parting \cup {<<u, v>>}
    PROVE  FR!Next
  BY DEF FR!Next, FR!Wish, Pairs, Asked, Parting

LEMMA IsBefriend ==
    ASSUME NEW u \in Users, NEW v \in Users, UNCHANGED Parting, <<u, v>> \in Asked,
           Pairs' = Pairs \cup {{u, v}}, Asked' \in {Asked, Asked \ {<<u, v>>}}
    PROVE  FR!Next
  BY DEF FR!Next, FR!Befriend, Pairs, Asked, Parting

LEMMA IsPart ==
    ASSUME NEW u \in Users, NEW v \in Users, UNCHANGED Asked, <<u, v>> \in Parting,
           Pairs' = Pairs \ {{u, v}}, Parting' \in {Parting, Parting \ {<<u, v>>}}
    PROVE  FR!Next
  BY DEF FR!Next, FR!Part, Pairs, Asked, Parting

\* How the two sets change follows from how they change at each user; E holds
\* the pair that the step is about.
LEMMA AskedGrows ==
    ASSUME NEW E,
           \A u \in Users : \A p \in AskedAt(u)' : <<p.from, p.about>> \in E \/
               \E v \in Users : \E q \in AskedAt(v) : p.from = q.from /\ p.about = q.about
    PROVE  Asked' \subseteq Asked \cup E
<1> SUFFICES ASSUME NEW e \in Asked' PROVE e \in Asked \cup E  OBVIOUS
<1>1. PICK u \in Users : \E p \in AskedAt(u)' : e = <<p.from, p.about>>  BY AskedIs
<1>2. PICK p \in AskedAt(u)' : e = <<p.from, p.about>>  BY <1>1
<1>3. QED  BY <1>2, AskedIs

LEMMA AskedShrinks ==
    ASSUME NEW E,
           \A u \in Users : \A p \in AskedAt(u) : p \in AskedAt(u)' \/ <<p.from, p.about>> \in E
    PROVE  Asked \subseteq Asked' \cup E
<1> SUFFICES ASSUME NEW e \in Asked PROVE e \in Asked' \cup E  OBVIOUS
<1>1. PICK u \in Users : \E p \in AskedAt(u) : e = <<p.from, p.about>>  BY AskedIs
<1>2. PICK p \in AskedAt(u) : e = <<p.from, p.about>>  BY <1>1
<1>3. QED  BY <1>2, AskedIs

LEMMA PartingGrows ==
    ASSUME NEW E,
           \A u \in Users : \A p \in WishedAt(u)' : p \in WishedAt(u) \/ <<p.from, p.about>> \in E
    PROVE  Parting' \subseteq Parting \cup E
<1> SUFFICES ASSUME NEW e \in Parting' PROVE e \in Parting \cup E  OBVIOUS
<1>1. PICK u \in Users : \E p \in WishedAt(u)' : e = <<p.from, p.about>>  BY PartingIs
<1>2. PICK p \in WishedAt(u)' : e = <<p.from, p.about>>  BY <1>1
<1>3. QED  BY <1>2, PartingIs

LEMMA PartingShrinks ==
    ASSUME NEW E,
           \A u \in Users : \A p \in WishedAt(u) : p \in WishedAt(u)' \/ <<p.from, p.about>> \in E
    PROVE  Parting \subseteq Parting' \cup E
<1> SUFFICES ASSUME NEW e \in Parting PROVE e \in Parting' \cup E  OBVIOUS
<1>1. PICK u \in Users : \E p \in WishedAt(u) : e = <<p.from, p.about>>  BY PartingIs
<1>2. PICK p \in WishedAt(u) : e = <<p.from, p.about>>  BY <1>1
<1>3. QED  BY <1>2, PartingIs

\* A step that at most loses PDUs, or shows, forwards, or refuses a question.
LEMMA Losing ==
    ASSUME Pairs' = Pairs,
           \A u \in Users : \A p \in AskedAt(u)' :
               \E v \in Users : \E q \in AskedAt(v) : p.from = q.from /\ p.about = q.about,
           \A u \in Users : WishedAt(u)' \subseteq WishedAt(u)
    PROVE  FR!Next
<1>1. Asked' \subseteq Asked \cup {}  BY AskedGrows
<1>2. Parting' \subseteq Parting \cup {}  BY PartingGrows
<1>3. QED  BY <1>1, <1>2, IsLose

LEMMA LossLoses ==
    ASSUME UNCHANGED rows,
           \A u \in Users : /\ toServer'[u] \in {toServer[u], << >>}
                            /\ toClient'[u] \in {toClient[u], << >>}
                            /\ work'[u] \in {work[u], << >>}
                            /\ dialog'[u] \in {dialog[u], NoPdu}
    PROVE  FR!Next
<1>1. ASSUME NEW u \in Users
      PROVE  AskedAt(u)' \subseteq AskedAt(u) /\ WishedAt(u)' \subseteq WishedAt(u)
  <2>1. /\ ToSet(toServer'[u]) \subseteq ToSet(toServer[u])
        /\ ToSet(toClient'[u]) \subseteq ToSet(toClient[u])
        /\ ToSet(work'[u]) \subseteq ToSet(work[u])
    BY NoElements
  <2>2. QED  BY <2>1 DEF AskedAt, WishedAt
<1>2. Pairs' = Pairs  BY DEF Pairs
<1>3. QED  BY <1>1, <1>2, Losing

LEMMA LeaveLoses == ASSUME IInv, NEW u \in Users, Leave(u) PROVE FR!Next
  BY LossLoses DEF IInv, Typed, Leave

LEMMA CrashLoses == ASSUME IInv, Crash PROVE FR!Next
  BY LossLoses DEF IInv, Typed, Crash

\* What a user asks for, asks or wishes or neither.
LEMMA ClickAsks ==
    ASSUME IInv, NEW u \in Users, NEW t \in Types \ {"ADD_USER_AGREED"}, NEW v \in Users,
           Click(u, Pdu(t, u, v))
    PROVE  [FR!Next]_<<Pairs, Asked, Parting>>
<1> DEFINE E == {<<u, v>>}
<1>1. PICK p \in Pdus : p = Pdu(t, u, v) /\ p.type = t /\ p.from = u /\ p.about = v
  BY PduTyped
<1>2. toServer' = [toServer EXCEPT ![u] = Append(@, p)]
      /\ UNCHANGED <<rows, toClient, work, dialog>>
  BY <1>1 DEF Click
<1>3. ASSUME NEW x \in Users
      PROVE  ToSet(toServer'[x]) = ToSet(toServer[x]) \cup (IF x = u THEN {p} ELSE {})
  <2>1. ToSet(Append(toServer[u], p)) = ToSet(toServer[u]) \cup {p}
    BY Appended DEF IInv, Typed
  <2>2. toServer'[x] = IF x = u THEN Append(toServer[u], p) ELSE toServer[x]
    BY <1>2 DEF IInv, Typed
  <2>3. QED  BY <2>1, <2>2
<1>4. Pairs' = Pairs  BY <1>2 DEF Pairs
<1>5. ASSUME NEW x \in Users
      PROVE  /\ AskedAt(x)' = AskedAt(x) \cup
                    (IF x = u /\ t = "ADD_USER_RESPEST" THEN {p} ELSE {})
             /\ WishedAt(x)' = WishedAt(x) \cup
                    (IF x = u /\ t = "DEL_FRIEND_RESPEST" THEN {p} ELSE {})
  <2>1. UNCHANGED <<toClient, work, dialog>>  BY <1>2
  <2>2. CASE x # u
    <3>1. ToSet(toServer'[x]) = ToSet(toServer[x])  BY <1>3, <2>2
    <3>2. QED  BY <2>1, <2>2, <3>1 DEF AskedAt, WishedAt
  <2>3. CASE x = u
    <3>1. ToSet(toServer'[x]) = ToSet(toServer[x]) \cup {p}  BY <1>3, <2>3
    <3>2. /\ {q \in ToSet(toServer'[x]) : q.type \in Questions}
               = {q \in ToSet(toServer[x]) : q.type \in Questions}
                 \cup (IF t = "ADD_USER_RESPEST" THEN {p} ELSE {})
          /\ {q \in ToSet(toServer'[x]) : q.type = "DEL_FRIEND_RESPEST"}
               = {q \in ToSet(toServer[x]) : q.type = "DEL_FRIEND_RESPEST"}
                 \cup (IF t = "DEL_FRIEND_RESPEST" THEN {p} ELSE {})
      BY <1>1, <3>1 DEF Questions
    <3>3. QED  BY <2>1, <2>3, <3>2 DEF AskedAt, WishedAt
  <2>4. QED  BY <2>2, <2>3
<1>6. CASE t = "ADD_USER_RESPEST"
  <2>1. Asked' \subseteq Asked \cup E
    <3>1. \A x \in Users : \A q \in AskedAt(x)' : q \in AskedAt(x) \/ q = p  BY <1>5
    <3>2. \A x \in Users : \A q \in AskedAt(x)' : <<q.from, q.about>> \in E \/
              \E y \in Users : \E r \in AskedAt(y) : q.from = r.from /\ q.about = r.about
      BY <1>1, <3>1
    <3> HIDE DEF E
    <3>3. QED  BY <3>2, AskedGrows
  <2>2. Asked \subseteq Asked' \cup {}  BY <1>5, AskedShrinks
  <2>3. <<u, v>> \in Asked'
    <3>1. p \in AskedAt(u)'  BY <1>5, <1>6
    <3>2. QED  BY <1>1, <3>1, AskedIs
  <2>4. Parting' \subseteq Parting \cup {}  BY <1>5, <1>6, PartingGrows
  <2>5. Parting \subseteq Parting' \cup {}  BY <1>5, PartingShrinks
  <2>6. Asked' = Asked \cup {<<u, v>>} /\ Parting' = Parting
    BY <2>1, <2>2, <2>3, <2>4, <2>5
  <2>7. QED  BY <1>4, <2>6, IsAsk
<1>7. CASE t = "DEL_FRIEND_RESPEST"
  <2>1. Parting' \subseteq Parting \cup E
    <3>1. \A x \in Users : \A q \in WishedAt(x)' : q \in WishedAt(x) \/ q = p  BY <1>5
    <3>2. \A x \in Users : \A q \in WishedAt(x)' :
              q \in WishedAt(x) \/ <<q.from, q.about>> \in E
      BY <1>1, <3>1
    <3> HIDE DEF E
    <3>3. QED  BY <3>2, PartingGrows
  <2>2. Parting \subseteq Parting' \cup {}  BY <1>5, PartingShrinks
  <2>3. <<u, v>> \in Parting'
    <3>1. p \in WishedAt(u)'  BY <1>5, <1>7
    <3>2. QED  BY <1>1, <3>1, PartingIs
  <2>4. Asked' \subseteq Asked \cup {}  BY <1>5, <1>7, AskedGrows
  <2>5. Asked \subseteq Asked' \cup {}  BY <1>5, AskedShrinks
  <2>6. Parting' = Parting \cup {<<u, v>>} /\ Asked' = Asked
    BY <2>1, <2>2, <2>3, <2>4, <2>5
  <2>7. QED  BY <1>4, <2>6, IsWish
<1>8. CASE t \notin {"ADD_USER_RESPEST", "DEL_FRIEND_RESPEST"}
  <2>1. \A x \in Users : AskedAt(x)' = AskedAt(x) /\ WishedAt(x)' = WishedAt(x)
    BY <1>5, <1>8
  <2>2. QED  BY <1>4, <2>1, Losing
<1>9. QED  BY <1>6, <1>7, <1>8

LEMMA ClicksAsk ==
    ASSUME IInv, NEW u \in Users, NEW v \in Users,
           \/ AddFriend(u, v) \/ DelFriend(u, v) \/ PrivateChat(u, v)
           \/ FlushFriend(u) \/ GroupChat(u)
    PROVE  [FR!Next]_<<Pairs, Asked, Parting>>
<1>1. PICK t \in Types \ {"ADD_USER_AGREED"}, w \in Users : Click(u, Pdu(t, u, w))
  BY DEF AddFriend, DelFriend, PrivateChat, FlushFriend, GroupChat, Types
<1>2. QED  BY <1>1, ClickAsks

LEMMA RecvMsgLoses == ASSUME IInv, NEW u \in Users, RecvMsg(u) PROVE FR!Next
<1> DEFINE p == Head(toClient[u])
<1>1. /\ toClient[u] # << >> /\ toClient' = [toClient EXCEPT ![u] = Tail(@)]
      /\ dialog' = [dialog EXCEPT ![u] = IF p.type = "ADD_USER_RESPEST" THEN p ELSE NoPdu]
      /\ UNCHANGED <<rows, toServer, work>>
  BY DEF RecvMsg
<1>2. ToSet(toClient[u]) = {p} \cup ToSet(Tail(toClient[u]))  BY <1>1, Taken DEF IInv, Typed
<1>3. ASSUME NEW x \in Users
      PROVE  AskedAt(x)' \subseteq AskedAt(x) /\ WishedAt(x)' \subseteq WishedAt(x)
  <2>1. CASE x = u
    <3>1. toClient'[x] = Tail(toClient[u])
          /\ dialog'[x] = IF p.type = "ADD_USER_RESPEST" THEN p ELSE NoPdu
      BY <1>1, <2>1 DEF IInv, Typed
    <3>2. QED  BY <1>1, <1>2, <2>1, <3>1 DEF AskedAt, WishedAt
  <2>2. CASE x # u
    <3>1. toClient'[x] = toClient[x] /\ dialog'[x] = dialog[x]
      BY <1>1, <2>2 DEF IInv, Typed
    <3>2. QED  BY <1>1, <3>1 DEF AskedAt, WishedAt
  <2>3. QED  BY <2>1, <2>2
<1>4. Pairs' = Pairs  BY <1>1 DEF Pairs
<1>5. QED  BY <1>3, <1>4, Losing

LEMMA AnswerLoses ==
    ASSUME IInv, NEW u \in Users, NEW t \in {"ADD_USER_AGREED", "ADD_USER_REFUSE"},
           Answer(u, t)
    PROVE  FR!Next
<1> DEFINE d == dialog[u]
<1>1. PICK p : p = [d EXCEPT !.type = t]  OBVIOUS
<1>2. /\ d # NoPdu /\ toServer' = [toServer EXCEPT ![u] = Append(@, p)]
      /\ dialog' = [dialog EXCEPT ![u] = NoPdu]
      /\ UNCHANGED <<rows, toClient, work>>
  BY <1>1 DEF Answer
<1>3. d \in Pdus /\ d.type = "ADD_USER_RESPEST"  BY <1>2 DEF IInv, Typed, Addressed
<1>4. p \in Pdus /\ p.type = t /\ p.from = d.from /\ p.about = d.about
  BY <1>1, <1>3 DEF Pdus, Types
<1>5. d \in AskedAt(u)  BY <1>2, <1>3 DEF AskedAt
<1>6. ASSUME NEW x \in Users
      PROVE  /\ \A q \in AskedAt(x)' : q \in AskedAt(x) \/ q = p
             /\ WishedAt(x)' \subseteq WishedAt(x)
  <2>1. ToSet(toServer'[x]) \subseteq ToSet(toServer[x]) \cup {p}
    <3>1. ToSet(Append(toServer[u], p)) = ToSet(toServer[u]) \cup {p}
      BY <1>4, Appended DEF IInv, Typed
    <3>2. toServer'[x] = IF x = u THEN Append(toServer[u], p) ELSE toServer[x]
      BY <1>2 DEF IInv, Typed
    <3>3. QED  BY <3>1, <3>2
  <2>2. dialog'[x] \in {dialog[x], NoPdu}  BY <1>2 DEF IInv, Typed
  <2>3. QED  BY <1>2, <1>4, <2>1, <2>2 DEF AskedAt, WishedAt
<1>7. Pairs' = Pairs  BY <1>2 DEF Pairs
<1>8. QED  BY <1>4, <1>5, <1>6, <1>7, Losing

LEMMA SentLoses ==
    ASSUME IInv, NEW u \in Users, NEW s \in Items, NEW v \in Users, NEW w, Sent(u, s, v, w)
    PROVE  FR!Next
<1>1. ASSUME NEW x \in Users, NEW p \in AskedAt(x)'
      PROVE  p \in AskedAt(x) \/ p \in AskedAt(u)
  <2>1. ToSet(toClient'[x]) \subseteq ToSet(toClient[x]) \cup {s.pdu}
    <3>1. ToSet(Append(toClient[v], s.pdu)) = ToSet(toClient[v]) \cup {s.pdu}
      BY Appended DEF IInv, Typed, Sent
    <3>2. \/ toClient'[x] = toClient[x]
          \/ x = v /\ toClient'[x] = Append(toClient[v], s.pdu)
      BY DEF Sent, IInv, Typed
    <3>3. QED  BY <3>1, <3>2
  <2>2. {i.pdu : i \in ToSet(work'[x])} \subseteq {i.pdu : i \in ToSet(work[x])}
    <3>1. work'[x] = IF x = u THEN w ELSE work[x]  BY DEF Sent, IInv, Typed
    <3>2. QED  BY <3>1 DEF Sent
  <2>3. s.pdu \in {i.pdu : i \in ToSet(work[u])}  BY DEF Sent
  <2>4. QED  BY <1>1, <2>1, <2>2, <2>3 DEF AskedAt, Sent
<1>2. ASSUME NEW x \in Users PROVE WishedAt(x)' = WishedAt(x)  BY DEF WishedAt, Sent
<1>3. Pairs' = Pairs  BY DEF Sent, Pairs
<1>4. QED  BY <1>1, <1>2, <1>3, Losing
\* A handler takes its PDU from the queue, keeps a question alive only by
\* passing it on, and changes who are friends as somebody asked for.
LEMMA HandledMaps ==
    ASSUME IInv, NEW u \in Users, NEW p \in Pdus, NEW w, Handled(u, p, w)
    PROVE  FR!Next
<1> DEFINE a == p.from
           b == p.about
           E == {<<a, b>>}
<1>1. a \in Users /\ b \in Users  BY DEF Pdus
<1>2. /\ work[u] = << >> /\ toServer[u] # << >> /\ p = Head(toServer[u])
      /\ toServer' = [toServer EXCEPT ![u] = Tail(@)]
      /\ work' = [work EXCEPT ![u] = w]
      /\ UNCHANGED <<toClient, dialog>>
      /\ \A s \in ToSet(w) : s.pdu.type = "ADD_USER_RESPEST" => s.pdu = p
  BY DEF Handled, Sends
<1>3. ToSet(toServer[u]) = {p} \cup ToSet(Tail(toServer[u]))
  BY <1>2, Taken DEF IInv, Typed
<1>4. ASSUME NEW x \in Users
      PROVE  \/ x # u /\ toServer'[x] = toServer[x] /\ work'[x] = work[x]
             \/ x = u /\ toServer'[x] = Tail(toServer[u]) /\ work'[x] = w /\ work[x] = << >>
  BY <1>2 DEF IInv, Typed
<1>5. ASSUME NEW x \in Users
      PROVE  /\ AskedAt(x)' \subseteq AskedAt(x)
             /\ WishedAt(x)' \subseteq WishedAt(x)
             /\ \A q \in AskedAt(x) : q \in AskedAt(x)' \/ (q = p /\ p.type \in Questions)
             /\ \A q \in WishedAt(x) :
                    q \in WishedAt(x)' \/ (q = p /\ p.type = "DEL_FRIEND_RESPEST")
  <2>1. CASE x # u
    <3>1. toServer'[x] = toServer[x] /\ work'[x] = work[x]  BY <1>4, <2>1
    <3>2. QED  BY <1>2, <3>1 DEF AskedAt, WishedAt
  <2>2. CASE x = u
    <3>1. toServer'[x] = Tail(toServer[u]) /\ work'[x] = w /\ work[x] = << >>
      BY <1>4, <2>2
    <3>2. {s.pdu : s \in ToSet(work[x])} = {}  BY <3>1, NoElements
    <3>3. \A q \in {s.pdu : s \in ToSet(work'[x])} : q.type = "ADD_USER_RESPEST" => q = p
      BY <1>2, <3>1
    <3>4. p.type = "ADD_USER_RESPEST" => p \in AskedAt(x)
      BY <1>3, <2>2 DEF AskedAt, Questions
    <3>5. AskedAt(x)' \subseteq AskedAt(x)
      BY <1>2, <1>3, <2>2, <3>1, <3>3, <3>4 DEF AskedAt
    <3>6. WishedAt(x)' \subseteq WishedAt(x)
      BY <1>3, <2>2, <3>1 DEF WishedAt
    <3>7. \A q \in AskedAt(x) : q \in AskedAt(x)' \/ (q = p /\ p.type \in Questions)
      BY <1>2, <1>3, <2>2, <3>1, <3>2 DEF AskedAt
    <3>8. \A q \in WishedAt(x) :
              q \in WishedAt(x)' \/ (q = p /\ p.type = "DEL_FRIEND_RESPEST")
      BY <1>3, <2>2, <3>1 DEF WishedAt
    <3>9. QED  BY <3>5, <3>6, <3>7, <3>8
  <2>3. QED  BY <2>1, <2>2
<1>6. Asked' \subseteq Asked
  <2>1. Asked' \subseteq Asked \cup {}  BY <1>5, AskedGrows
  <2>2. QED  BY <2>1
<1>7. Parting' \subseteq Parting
  <2>1. Parting' \subseteq Parting \cup {}  BY <1>5, PartingGrows
  <2>2. QED  BY <2>1
<1>8. CASE UNCHANGED <<rows, met>>
  <2>1. Pairs' = Pairs  BY <1>8 DEF Pairs
  <2>2. QED  BY <1>6, <1>7, <2>1, IsLose
<1>9. CASE p.type = "ADD_USER_AGREED" /\ rows' = rows \cup {<<a, b>>, <<b, a>>}
  <2>1. Pairs' = Pairs \cup {{a, b}}
    <3>1. \A x : x \in Pairs' <=> \E r \in rows' : x = {r[1], r[2]}  BY DEF Pairs
    <3>2. \A x : x \in Pairs <=> \E r \in rows : x = {r[1], r[2]}  BY DEF Pairs
    <3>3. {b, a} = {a, b}  OBVIOUS
    <3>4. \A r : r \in rows' <=> r \in rows \/ r = <<a, b>> \/ r = <<b, a>>  BY <1>9
    <3>5. <<a, b>>[1] = a /\ <<a, b>>[2] = b /\ <<b, a>>[1] = b /\ <<b, a>>[2] = a  OBVIOUS
    <3>6. ASSUME NEW x \in Pairs' PROVE x \in Pairs \cup {{a, b}}
      <4>1. PICK r \in rows' : x = {r[1], r[2]}  BY <3>1, <3>6
      <4>2. r \in rows \/ x = {a, b}  BY <3>3, <3>4, <3>5, <4>1
      <4>3. QED  BY <3>2, <4>1, <4>2
    <3>7. \A x \in Pairs : x \in Pairs'  BY <3>1, <3>2, <3>4
    <3>8. {a, b} \in Pairs'
      <4>1. <<a, b>> \in rows'  BY <3>4
      <4>2. QED  BY <3>1, <3>5, <4>1
    <3>9. QED  BY <3>6, <3>7, <3>8
  <2>2. <<a, b>> \in Asked
    <3>1. p \in AskedAt(u)  BY <1>3, <1>9 DEF AskedAt, Questions
    <3>2. QED  BY <3>1, AskedIs
  <2>3. Asked \subseteq Asked' \cup E
    <3>1. \A x \in Users : \A q \in AskedAt(x) :
              q \in AskedAt(x)' \/ <<q.from, q.about>> \in E
      BY <1>5
    <3> HIDE DEF E
    <3>2. QED  BY <3>1, AskedShrinks
  <2>4. Asked' \in {Asked, Asked \ {<<a, b>>}}
    <3>1. CASE <<a, b>> \in Asked'  BY <1>6, <2>3, <3>1
    <3>2. CASE <<a, b>> \notin Asked'  BY <1>6, <2>3, <3>2
    <3>3. QED  BY <3>1, <3>2
  <2>5. Parting' = Parting
    <3>1. \A x \in Users : \A q \in WishedAt(x) : q \in WishedAt(x)'  BY <1>5, <1>9
    <3>2. Parting \subseteq Parting' \cup {}  BY <3>1, PartingShrinks
    <3>3. QED  BY <1>7, <3>2
  <2>6. QED  BY <1>1, <2>1, <2>2, <2>4, <2>5, IsBefriend
<1>10. CASE p.type = "DEL_FRIEND_RESPEST"
            /\ \E s \in SUBSET {<<a, b>>, <<b, a>>} : rows' = rows \ s
  <2>1. Pairs' \subseteq Pairs /\ Pairs \subseteq Pairs' \cup {{a, b}}
    <3>1. \A x : x \in Pairs' <=> \E r \in rows' : x = {r[1], r[2]}  BY DEF Pairs
    <3>2. \A x : x \in Pairs <=> \E r \in rows : x = {r[1], r[2]}  BY DEF Pairs
    <3>3. {b, a} = {a, b}  OBVIOUS
    <3>4. /\ \A r \in rows' : r \in rows
          /\ \A r \in rows : r \in rows' \/ r = <<a, b>> \/ r = <<b, a>>
      BY <1>10
    <3>5. <<a, b>>[1] = a /\ <<a, b>>[2] = b /\ <<b, a>>[1] = b /\ <<b, a>>[2] = a  OBVIOUS
    <3>6. QED  BY <3>1, <3>2, <3>3, <3>4, <3>5
  <2>2. CASE Pairs' = Pairs  BY <1>6, <1>7, <2>2, IsLose
  <2>3. CASE Pairs' # Pairs
    <3>1. Pairs' = Pairs \ {{a, b}}  BY <2>1, <2>3
    <3>2. <<a, b>> \in Parting
      <4>1. p \in WishedAt(u)  BY <1>3, <1>10 DEF WishedAt
      <4>2. QED  BY <4>1, PartingIs
    <3>3. Parting \subseteq Parting' \cup E
      <4>1. \A x \in Users : \A q \in WishedAt(x) :
                q \in WishedAt(x)' \/ <<q.from, q.about>> \in E
        BY <1>5
      <4> HIDE DEF E
      <4>2. QED  BY <4>1, PartingShrinks
    <3>4. Parting' \in {Parting, Parting \ {<<a, b>>}}
      <4>1. CASE <<a, b>> \in Parting'  BY <1>7, <3>3, <4>1
      <4>2. CASE <<a, b>> \notin Parting'  BY <1>7, <3>3, <4>2
      <4>3. QED  BY <4>1, <4>2
    <3>5. Asked' = Asked
      <4>1. \A x \in Users : \A q \in AskedAt(x) : q \in AskedAt(x)'
        BY <1>5, <1>10 DEF Questions
      <4>2. Asked \subseteq Asked' \cup {}  BY <4>1, AskedShrinks
      <4>3. QED  BY <1>6, <4>2
    <3>6. QED  BY <1>1, <3>1, <3>2, <3>4, <3>5, IsPart
  <2>4. QED  BY <2>2, <2>3
<1>11. QED  BY <1>8, <1>9, <1>10 DEF Handled, Changes

LEMMA FriendshipStep ==
    ASSUME IInv, [Next]_vars
    PROVE  [FR!Next]_<<Pairs, Asked, Parting>>
<1>1. ASSUME UNCHANGED <<rows, toServer, toClient, work, dialog>>
      PROVE  UNCHANGED <<Pairs, Asked, Parting>>
  BY <1>1 DEF Pairs, Asked, Parting, Said, OnItsWay
<1>2. CASE UNCHANGED vars  BY <1>1, <1>2 DEF vars, clients
<1>3. ASSUME NEW u \in Users, ComeAndGo(u) PROVE UNCHANGED <<Pairs, Asked, Parting>>
  BY <1>1, <1>3 DEF ComeAndGo
<1>4. ASSUME NEW u \in Users, Handle(u) PROVE FR!Next
  <2>1. PICK p \in Pdus : \E w : Handled(u, p, w)  BY <1>4, HandleHandled
  <2>2. PICK w : Handled(u, p, w)  BY <2>1
  <2>3. QED  BY <2>2, HandledMaps
<1>5. ASSUME NEW u \in Users, Send(u) PROVE FR!Next
  <2>1. PICK s \in Items, v \in Users : \E w : Sent(u, s, v, w)  BY <1>5, SendSent
  <2>2. PICK w : Sent(u, s, v, w)  BY <2>1
  <2>3. QED  BY <2>2, SentLoses
<1>6. QED
  BY <1>2, <1>3, <1>4, <1>5, LeaveLoses, CrashLoses, ClicksAsk, RecvMsgLoses,
     AnswerLoses DEF Next

\* CloudServer's friend handlers, with the clients' queues and dialogs, the losses,
\* the crashes and the statements that fail, implement Friendship: nobody becomes
\* a friend without having asked or agreed, nobody is dropped without a wish.
THEOREM FriendshipRefinement == Spec => IsFriendship
<1>1. Init => FR!Init
  <2> SUFFICES ASSUME Init PROVE FR!Init  OBVIOUS
  <2>1. Pairs \subseteq {{u, v} : u, v \in Users}
    <3>1. \A r \in rows : r[1] \in Users /\ r[2] \in Users  BY DEF Init
    <3>2. QED  BY <3>1 DEF Pairs
  <2>2. \A u \in Users : AskedAt(u) = {} /\ WishedAt(u) = {}
    BY NoElements DEF Init, AskedAt, WishedAt
  <2>3. Asked = {} /\ Parting = {}  BY <2>2, AskedIs, PartingIs
  <2>4. QED  BY <2>1, <2>3 DEF FR!Init, Pairs, Asked, Parting
<1>2. IInv /\ [Next]_vars => [FR!Next]_<<Pairs, Asked, Parting>>  BY FriendshipStep
<1>3. IInv /\ [Next]_vars =>
        [FR!Next]_<<{{r[1], r[2]} : r \in rows},
                   {<<p.from, p.about>> : p \in Said("ADD_USER_AGREED")
                        \cup {q \in OnItsWay : q.type = "ADD_USER_RESPEST"}},
                   {<<p.from, p.about>> : p \in Said("DEL_FRIEND_RESPEST")}>>
  BY <1>2 DEF Pairs, Asked, Parting
<1>4. QED  BY <1>1, <1>3, Invariance, PTL DEF Spec, IsFriendship, FR!Spec
=============================================================================
