--------------------------- MODULE ReactorProofs ---------------------------
(***************************************************************************)
(* Proofs about Reactor, for any number of connections and descriptors:    *)
(* what the three tables keyed by descriptor hold, and that a connection   *)
(* dies only after its close has been handled.                             *)
(*                                                                         *)
(* The three properties lean on each other.  That the close of one         *)
(* connection, or the idle timer, erases "whatever has that key" harms     *)
(* nobody else because of RegistriesAgree; that nobody dies in silence is  *)
(* because CloudServer's table still holds whoever was not closed          *)
(* (ServedUntilClosed); and that the tables hold only the living is        *)
(* because holding is what keeps alive (Reclaim).  None of them is         *)
(* inductive without what the two threads hold on to in the middle of a    *)
(* creation (Building) and of a close (Closing).                           *)
(*                                                                         *)
(* A fourth one says that epoll forgets nobody: who waits to be read, or   *)
(* has something to be written, is registered for it, or will be.          *)
(***************************************************************************)
EXTENDS Reactor, SequenceTheorems, TLAPS

Entries == [Fds -> Conns \cup {None}]
Tasks == [op : {"read", "send"}, conn : Conns]
Counts == [requests : 0 .. MaxRequests, foreign : 0 .. MaxSends]
Events == {"in", "out", "rdhup", "hup"}

\* Type invariant of Reactor.
TypeOK ==
    /\ stage \in [Conns -> {"new", "open", "dead"}]
    /\ fdOf \in [Conns -> Fds \cup {None}]
    /\ server \in Entries /\ timed \in Entries /\ cloud \in Entries
    /\ main \in [pc : {"accept", "server", "timed", "post", "cloud"}, conn : Conns \cup {None}]
    /\ tasks \in Seq(Tasks)
    /\ enabled \in [Conns -> SUBSET Events]
    /\ inepoll \in [Conns -> BOOLEAN]
    /\ revents \in [Conns -> SUBSET Events]
    /\ pend \subseteq {"timer", "wake"}
    /\ doing \in [op : {"none", "close", "erase", "remove"}, conn : Conns \cup {None},
                  fd : Fds \cup {None}]
    /\ disconnect \in [Conns -> BOOLEAN]
    /\ outbuf \in [Conns -> Nat]
    /\ unread \in [Conns -> Nat]
    /\ stream \in [Conns -> BOOLEAN]
    /\ peer \in [Conns -> {"up", "fin", "rst"}]
    /\ sent \in [Conns -> Counts]
    /\ quiet \subseteq Conns
    /\ closed \subseteq Conns
    /\ died \in BOOLEAN

\* A living connection has a descriptor.
Described == \A c \in Conns : stage[c] = "open" => fdOf[c] \in Fds

\* In the middle of newConnection the main thread keeps its connection alive.
Building == IF main.pc = "accept" THEN main.conn = None
            ELSE main.conn \in Conns /\ stage[main.conn] = "open"

\* In the middle of a close the loop thread keeps its connection alive, and
\* the descriptor it works with is still this connection's; what it erases
\* from TcpServer's table was closed at CloudServer's.
Closing == IF doing.op \in {"close", "erase"}
           THEN /\ doing.conn \in Conns /\ stage[doing.conn] = "open"
                /\ doing.fd = fdOf[doing.conn]
                /\ doing.op = "erase" => doing.conn \in closed
           ELSE doing.conn = None

\* Nothing is written for a connection before it is accepted.
EmptyAtFirst == \A c \in Conns : stage[c] = "new" => outbuf[c] = 0

IInv == /\ TypeOK /\ Described /\ Building /\ Closing
        /\ RegistriesAgree /\ NoSilentDeath /\ ServedUntilClosed
        /\ EmptyAtFirst /\ NeverForgotten

-----------------------------------------------------------------------------
(* The types, one step per action.                                         *)

LEMMA QueueTyped ==
    ASSUME tasks \in Seq(Tasks)
    PROVE  /\ \A t \in Tasks : Append(tasks, t) \in Seq(Tasks)
           /\ tasks # << >> => Head(tasks) \in Tasks /\ Tail(tasks) \in Seq(Tasks)
  BY AppendProperties, HeadTailProperties

LEMMA CountsTyped ==
    ASSUME NEW s \in [Conns -> Counts], NEW c \in Conns
    PROVE  /\ s[c].requests < MaxRequests =>
                [s EXCEPT ![c].requests = @ + 1] \in [Conns -> Counts]
           /\ s[c].foreign < MaxSends =>
                [s EXCEPT ![c].foreign = @ + 1] \in [Conns -> Counts]
<1>1. s[c] \in Counts  OBVIOUS
<1>2. s[c].requests < MaxRequests => [s[c] EXCEPT !.requests = @ + 1] \in Counts
  BY <1>1, ReactorAssumption DEF Counts
<1>3. s[c].foreign < MaxSends => [s[c] EXCEPT !.foreign = @ + 1] \in Counts
  BY <1>1, ReactorAssumption DEF Counts
<1>4. QED  BY <1>2, <1>3

LEMMA TypedInit == Init => TypeOK
<1> SUFFICES ASSUME Init PROVE TypeOK  OBVIOUS
<1>1. sent \in [Conns -> Counts]  BY ReactorAssumption DEF Init, Counts
<1>2. tasks \in Seq(Tasks)  BY EmptySeq DEF Init
<1>3. QED  BY <1>1, <1>2 DEF Init, TypeOK, Entries, Nothing

LEMMA TypedPeer == ASSUME TypeOK, NEW c \in Conns
    PROVE  /\ PeerSends(c) => TypeOK'
           /\ PeerStreams(c) => TypeOK'
           /\ PeerCloses(c) => TypeOK'
           /\ ForeignSend(c) => TypeOK'
           /\ TenSecondsPass(c) => TypeOK'
<1> USE DEF TypeOK, tables, channel, loop, net
<1>1. PeerSends(c) => TypeOK'
  <2> SUFFICES ASSUME PeerSends(c) PROVE TypeOK'  OBVIOUS
  <2>1. sent' \in [Conns -> Counts]  BY CountsTyped DEF PeerSends
  <2>2. unread' \in [Conns -> Nat]  BY DEF PeerSends
  <2>3. QED  BY <2>1, <2>2 DEF PeerSends
<1>2. PeerCloses(c) => TypeOK'  BY DEF PeerCloses
<1>3. ForeignSend(c) => TypeOK'
  <2> SUFFICES ASSUME ForeignSend(c) PROVE TypeOK'  OBVIOUS
  <2>1. sent' \in [Conns -> Counts]  BY CountsTyped DEF ForeignSend
  <2>2. [op |-> "send", conn |-> c] \in Tasks  BY DEF Tasks
  <2>3. tasks' \in Seq(Tasks)  BY <2>2, QueueTyped DEF ForeignSend
  <2>4. QED  BY <2>1, <2>3 DEF ForeignSend
<1>4. TenSecondsPass(c) => TypeOK'  BY DEF TenSecondsPass
<1>5. PeerStreams(c) => TypeOK'  BY DEF PeerStreams
<1>6. QED  BY <1>1, <1>2, <1>3, <1>4, <1>5

LEMMA TypedAccept == ASSUME TypeOK, NEW c \in Conns, NEW f \in Fds, Accept(c, f)
                     PROVE  TypeOK'
  BY DEF Accept, TypeOK, tables, channel, loop, net, Events, Entries

LEMMA TypedMain == ASSUME TypeOK, Building, MainStep PROVE TypeOK'
<1> USE DEF TypeOK, tables, channel, loop, net
<1>1. CASE RegisterServer    BY <1>1 DEF RegisterServer, Entries
<1>2. CASE AddNewConnection  BY <1>2 DEF AddNewConnection, Entries
<1>3. CASE PostEnableReading
  <2>1. [op |-> "read", conn |-> main.conn] \in Tasks
    BY <1>3 DEF PostEnableReading, Building, Tasks
  <2>2. QED  BY <1>3, <2>1, QueueTyped DEF PostEnableReading
<1>4. CASE HandleNewConnection  BY <1>4 DEF HandleNewConnection, Entries
<1>5. QED  BY <1>1, <1>2, <1>3, <1>4 DEF MainStep

LEMMA TypedPoll == ASSUME TypeOK, NEW timer \in {{}, {"timer"}}, Poll(timer) PROVE TypeOK'
<1>1. \A c \in Conns : Readiness(c) \subseteq Events
  BY DEF Readiness, TypeOK, Events
<1>2. revents' \in [Conns -> SUBSET Events] /\ pend' \subseteq {"timer", "wake"}
  BY <1>1 DEF Poll
<1>3. QED  BY <1>2 DEF Poll, TypeOK, tables, channel, net

LEMMA TypedTasks == ASSUME TypeOK
    PROVE  /\ RunEnableReading => TypeOK'
           /\ RunSendInLoop => TypeOK'
           /\ RunTaskOfFreed => TypeOK'
           /\ TasksDone => TypeOK'
<1> USE DEF TypeOK, tables, channel, loop, net
<1>1. ASSUME NEW op, NextTask(op)
      PROVE  tasks' \in Seq(Tasks) /\ Head(tasks).conn \in Conns
  BY <1>1, QueueTyped DEF NextTask, Tasks
<1>2. RunEnableReading => TypeOK'
  BY <1>1 DEF RunEnableReading, Subscribe, Events
<1>3. RunSendInLoop => TypeOK'
  <2> SUFFICES ASSUME RunSendInLoop PROVE TypeOK'  OBVIOUS
  <2>1. tasks' \in Seq(Tasks)  BY <1>1 DEF RunSendInLoop
  <2>2. PICK c \in Conns : c = Head(tasks).conn  BY <1>1 DEF RunSendInLoop
  <2>3. outbuf' \in [Conns -> Nat]  BY <2>2 DEF RunSendInLoop
  <2>4. enabled' \in [Conns -> SUBSET Events] /\ inepoll' \in [Conns -> BOOLEAN]
    BY <2>2 DEF RunSendInLoop, Subscribe, Events
  <2>5. QED  BY <2>1, <2>3, <2>4 DEF RunSendInLoop
<1>4. RunTaskOfFreed => TypeOK'  BY <1>1 DEF RunTaskOfFreed
<1>5. TasksDone => TypeOK'       BY DEF TasksDone
<1>6. QED  BY <1>2, <1>3, <1>4, <1>5

LEMMA TypedEvent == ASSUME TypeOK, NEW c \in Conns, Event(c) PROVE TypeOK'
<1> USE DEF TypeOK, tables, channel, loop, net, Handling, Events
<1>1. CASE HandleFreed(c)   BY <1>1 DEF HandleFreed
<1>2. CASE OnMessage(c)
  <2>1. /\ outbuf' \in [Conns -> Nat]
        /\ enabled' \in [Conns -> SUBSET Events]
        /\ inepoll' \in [Conns -> BOOLEAN]
    <3>1. CASE cloud[fdOf[c]] = c /\ unread[c] > 0
      <4>1. outbuf[c] + unread[c] \in Nat  OBVIOUS
      <4>2. outbuf' = [outbuf EXCEPT ![c] = @ + unread[c]]  BY <1>2, <3>1 DEF OnMessage
      <4>3. /\ enabled' = [enabled EXCEPT ![c] = enabled[c] \cup {"out"}]
            /\ inepoll' = [inepoll EXCEPT ![c] = TRUE]
        BY <1>2, <3>1 DEF OnMessage, Subscribe
      <4>4. outbuf' \in [Conns -> Nat]  BY <4>1, <4>2
      <4>5. QED  BY <4>3, <4>4
    <3>2. CASE ~(cloud[fdOf[c]] = c /\ unread[c] > 0)  BY <1>2, <3>2 DEF OnMessage
    <3>3. QED  BY <3>1, <3>2
  <2>2. unread' \in [Conns -> Nat] /\ stream' \in [Conns -> BOOLEAN] /\ quiet' \subseteq Conns
    BY <1>2 DEF OnMessage
  <2>3. revents' \in [Conns -> SUBSET Events]  BY <1>2 DEF OnMessage
  <2>4. QED  BY <1>2, <2>1, <2>2, <2>3 DEF OnMessage
<1>3. CASE OnMessageEof(c)  BY <1>3 DEF OnMessageEof, Disconnecting, Remove, Doing
<1>4. CASE OnHangup(c)      BY <1>4 DEF OnHangup, Disconnecting, Remove, Doing
<1>5. CASE WriteCallback(c)
  <2>1. PICK n \in (IF outbuf[c] = 0 THEN {0} ELSE 1 .. outbuf[c]) :
            /\ outbuf' = [outbuf EXCEPT ![c] = @ - n]
            /\ enabled' = [enabled EXCEPT ![c] = IF outbuf[c] = n THEN @ \ {"out"} ELSE @]
    BY <1>5 DEF WriteCallback
  <2>2. outbuf' \in [Conns -> Nat] /\ enabled' \in [Conns -> SUBSET Events]  BY <2>1
  <2>3. peer' \in [Conns -> {"up", "fin", "rst"}]  BY <1>5 DEF WriteCallback
  <2>4. died' \in BOOLEAN  BY <1>5 DEF WriteCallback
  <2>5. QED  BY <1>5, <2>2, <2>3, <2>4 DEF WriteCallback
<1>6. QED  BY <1>1, <1>2, <1>3, <1>4, <1>5 DEF Event

LEMMA Reclaiming == ASSUME TypeOK, Reclaim
    PROVE  /\ stage' \in [Conns -> {"new", "open", "dead"}]
           /\ \A c \in Conns :
                /\ stage'[c] = "open" <=> stage[c] = "open" /\ Referenced(c)'
                /\ stage'[c] = "dead" => stage[c] = "dead" \/ ~Referenced(c)'
  BY DEF Reclaim, TypeOK

LEMMA TypedClose == ASSUME TypeOK, Closing
    PROVE  /\ HandleClose => TypeOK'
           /\ EraseConnection => TypeOK'
<1> USE DEF TypeOK, tables, channel, net, Doing, Nothing, Closing, Entries
<1>1. HandleClose => TypeOK'
  <2> SUFFICES ASSUME HandleClose PROVE TypeOK'  OBVIOUS
  <2>1. cloud' \in Entries /\ closed' \subseteq Conns  BY DEF HandleClose
  <2>2. doing' \in [op : {"none", "close", "erase", "remove"}, conn : Conns \cup {None},
                    fd : Fds \cup {None}]  BY DEF HandleClose
  <2>3. QED  BY <2>1, <2>2 DEF HandleClose
<1>2. EraseConnection => TypeOK'
  <2> SUFFICES ASSUME EraseConnection PROVE TypeOK'  OBVIOUS
  <2>1. stage' \in [Conns -> {"new", "open", "dead"}]
    BY Reclaiming DEF EraseConnection
  <2>2. QED  BY <2>1 DEF EraseConnection
<1>3. QED  BY <1>1, <1>2

LEMMA TypedTimer == ASSUME TypeOK
    PROVE  /\ \A f \in Fds : TimerErase(f) => TypeOK'
           /\ RemoveConnection => TypeOK'
           /\ TimerDone => TypeOK'
<1> USE DEF TypeOK, tables, channel, net, Doing, Nothing, Entries
<1>1. ASSUME NEW f \in Fds, TimerErase(f) PROVE TypeOK'
  <2>1. stage' \in [Conns -> {"new", "open", "dead"}]
    BY <1>1, Reclaiming DEF TimerErase
  <2>2. QED  BY <1>1, <2>1 DEF TimerErase
<1>2. ASSUME RemoveConnection PROVE TypeOK'
  <2>1. stage' \in [Conns -> {"new", "open", "dead"}]
    BY <1>2, Reclaiming DEF RemoveConnection
  <2>2. QED  BY <1>2, <2>1 DEF RemoveConnection
<1>3. TimerDone => TypeOK'  BY DEF TimerDone
<1>4. QED  BY <1>1, <1>2, <1>3

LEMMA TypedStep == ASSUME TypeOK, Building, Closing, [Next]_vars PROVE TypeOK'
<1>1. CASE UNCHANGED vars \/ Dead
  BY <1>1 DEF Dead, vars, tables, channel, loop, net, TypeOK
<1>2. CASE LoopStep
  BY <1>2, TypedPoll, TypedTasks, TypedEvent, TypedClose, TypedTimer DEF LoopStep
<1>3. QED
  BY <1>1, <1>2, TypedPeer, TypedAccept, TypedMain, TypedPoll DEF Next

-----------------------------------------------------------------------------
(* The tables, one step per action that touches a table, a connection's    *)
(* life, or what one of the two threads holds on to.                       *)

Safe == Described /\ Building /\ Closing
            /\ RegistriesAgree /\ NoSilentDeath /\ ServedUntilClosed

LEMMA SafeInit == Init => Safe
  BY ReactorAssumption
  DEF Init, Nothing, Safe, Described, Building, Closing, RegistriesAgree,
      NoSilentDeath, ServedUntilClosed

LEMMA SafeUnchanged ==
    ASSUME Safe, UNCHANGED <<stage, fdOf, tables, main, doing, closed>>
    PROVE  Safe'
  BY DEF tables, Safe, Described, Building, Closing, RegistriesAgree,
         NoSilentDeath, ServedUntilClosed

LEMMA SafeElsewhere == ASSUME Safe
    PROVE  /\ \A c \in Conns : \/ PeerSends(c) \/ PeerStreams(c) \/ PeerCloses(c) \/ ForeignSend(c)
                               \/ TenSecondsPass(c) \/ HandleFreed(c) \/ OnMessage(c)
                               \/ WriteCallback(c)
                             => Safe'
           /\ \A timer : Poll(timer) => Safe'
           /\ \/ RunEnableReading \/ RunSendInLoop \/ RunTaskOfFreed \/ TasksDone
              \/ TimerDone \/ Dead
              => Safe'
<1> USE SafeUnchanged DEF loop
<1>1. ASSUME NEW c \in Conns
      PROVE  \/ PeerSends(c) \/ PeerStreams(c) \/ PeerCloses(c) \/ ForeignSend(c)
             \/ TenSecondsPass(c) \/ HandleFreed(c) \/ OnMessage(c)
             \/ WriteCallback(c)
             => Safe'
  BY DEF PeerSends, PeerStreams, PeerCloses, ForeignSend, TenSecondsPass, HandleFreed,
         OnMessage, WriteCallback
<1>2. ASSUME NEW timer, Poll(timer) PROVE Safe'  BY <1>2 DEF Poll
<1>3. \/ RunEnableReading \/ RunSendInLoop \/ RunTaskOfFreed \/ TasksDone
      \/ TimerDone \/ Dead
      => Safe'
  BY DEF RunEnableReading, RunSendInLoop, RunTaskOfFreed, TasksDone, TimerDone,
         Dead, vars
<1>4. QED  BY <1>1, <1>2, <1>3

\* The kernel gives out only a descriptor that no living connection has.
LEMMA SafeAccept ==
    ASSUME TypeOK, Safe, NEW c \in Conns, NEW f \in Fds, Accept(c, f)
    PROVE  Safe'
<1> USE DEF TypeOK, Safe, tables, loop
<1>1. /\ stage' = [stage EXCEPT ![c] = "open"] /\ stage[c] = "new"
      /\ fdOf' = [fdOf EXCEPT ![c] = f]
      /\ main.conn = None /\ main' = [pc |-> "server", conn |-> c]
      /\ UNCHANGED <<tables, doing, closed>>
      /\ \A d \in Conns : stage[d] = "open" => fdOf[d] # f
  BY DEF Accept, Building
<1>2. Described' /\ Building'  BY <1>1 DEF Described, Building
<1>3. Closing'  BY <1>1 DEF Closing
<1>4. RegistriesAgree'
  <2>1. ASSUME NEW g \in Fds, NEW d \in Conns, d \in {server'[g], timed'[g], cloud'[g]}
        PROVE  stage'[d] = "open" /\ fdOf'[d] = g
    BY <1>1, <2>1, ReactorAssumption DEF RegistriesAgree
  <2>2. ASSUME NEW g \in Fds
        PROVE  {server'[g], timed'[g], cloud'[g]} \subseteq
                  {None} \cup {d \in Conns : stage'[d] = "open" /\ fdOf'[d] = g}
    BY <2>1, <1>1, ReactorAssumption DEF Entries
  <2>3. \A d, e \in Conns :
            stage'[d] = "open" /\ stage'[e] = "open" /\ fdOf'[d] = fdOf'[e] => d = e
    BY <1>1 DEF RegistriesAgree
  <2>4. QED  BY <2>2, <2>3 DEF RegistriesAgree
<1>5. NoSilentDeath'  BY <1>1 DEF NoSilentDeath
<1>6. ServedUntilClosed'  BY <1>1, ReactorAssumption DEF ServedUntilClosed
<1>7. QED  BY <1>2, <1>3, <1>4, <1>5, <1>6

LEMMA SafeMain == ASSUME TypeOK, Safe, MainStep PROVE Safe'
<1> USE DEF TypeOK, Safe, tables, loop, Entries
<1>1. main.conn \in Conns /\ stage[main.conn] = "open" /\ fdOf[main.conn] \in Fds
  BY DEF MainStep, RegisterServer, AddNewConnection, PostEnableReading,
         HandleNewConnection, Building, Described
<1>2. UNCHANGED <<stage, fdOf, doing, closed>>
  BY DEF MainStep, RegisterServer, AddNewConnection, PostEnableReading, HandleNewConnection
<1>3. Described' /\ Closing' /\ NoSilentDeath'
  BY <1>2 DEF Described, Closing, NoSilentDeath
<1>4. Building'
  <2>1. \/ main' = [pc |-> "accept", conn |-> None]
        \/ main'.conn = main.conn /\ main'.pc # "accept"
    BY DEF MainStep, RegisterServer, AddNewConnection, PostEnableReading,
           HandleNewConnection
  <2>2. QED  BY <1>1, <1>2, <2>1 DEF Building
<1>5. RegistriesAgree'
  <2>1. ASSUME NEW g \in Fds
        PROVE  /\ server'[g] = server[g] \/ (server'[g] = main.conn /\ g = fdOf[main.conn])
               /\ timed'[g] = timed[g] \/ (timed'[g] = main.conn /\ g = fdOf[main.conn])
               /\ cloud'[g] = cloud[g] \/ (cloud'[g] = main.conn /\ g = fdOf[main.conn])
    BY DEF MainStep, RegisterServer, AddNewConnection, PostEnableReading,
           HandleNewConnection
  <2>2. ASSUME NEW g \in Fds, NEW d, d \in {server'[g], timed'[g], cloud'[g]}
        PROVE  d \in {None} \cup {e \in Conns : stage'[e] = "open" /\ fdOf'[e] = g}
    <3>1. d \in {server[g], timed[g], cloud[g]} \/ (d = main.conn /\ g = fdOf[main.conn])
      BY <2>1, <2>2
    <3>2. QED  BY <1>1, <1>2, <3>1 DEF RegistriesAgree
  <2>3. QED  BY <1>2, <2>2 DEF RegistriesAgree
<1>6. ServedUntilClosed'
  <2>1. CASE HandleNewConnection
    BY <1>1, <1>2, <2>1 DEF HandleNewConnection, ServedUntilClosed, RegistriesAgree,
                            Described
  <2>2. CASE RegisterServer \/ AddNewConnection \/ PostEnableReading
    BY <1>2, <2>2 DEF RegisterServer, AddNewConnection, PostEnableReading, ServedUntilClosed
  <2>3. QED  BY <2>1, <2>2 DEF MainStep
<1>7. QED  BY <1>3, <1>4, <1>5, <1>6

LEMMA SafeDisconnect ==
    ASSUME TypeOK, Safe, NEW c \in Conns, OnMessageEof(c) \/ OnHangup(c)
    PROVE  Safe'
<1>1. /\ stage[c] = "open"
      /\ doing' = [op |-> "close", conn |-> c, fd |-> fdOf[c]]
      /\ UNCHANGED <<stage, fdOf, tables, main, closed>>
  BY DEF OnMessageEof, OnHangup, Handling, Disconnecting, Doing
<1>2. Closing'  BY <1>1 DEF Closing
<1>3. QED
  BY <1>1, <1>2 DEF Safe, tables, Described, Building, RegistriesAgree, NoSilentDeath,
                    ServedUntilClosed

\* Whoever had the descriptor in CloudServer's table was the one that closes.
LEMMA SafeHandleClose == ASSUME TypeOK, Safe, HandleClose PROVE Safe'
<1> USE DEF TypeOK, Safe, tables, Entries
<1>1. /\ doing.op = "close" /\ doing.conn \in Conns /\ stage[doing.conn] = "open"
      /\ doing.fd = fdOf[doing.conn]
      /\ cloud' = [cloud EXCEPT ![doing.fd] = None]
      /\ closed' = closed \cup {doing.conn}
      /\ doing' = [op |-> "erase", conn |-> doing.conn, fd |-> doing.fd]
      /\ UNCHANGED <<stage, fdOf, server, timed, main>>
  BY DEF HandleClose, Closing, Doing
<1>2. Described' /\ Building' /\ Closing' /\ NoSilentDeath'
  BY <1>1 DEF Described, Building, Closing, NoSilentDeath
<1>3. RegistriesAgree'
  <2>1. ASSUME NEW g \in Fds
        PROVE  {server'[g], timed'[g], cloud'[g]} \subseteq
                  {None} \cup {d \in Conns : stage'[d] = "open" /\ fdOf'[d] = g}
    BY <1>1 DEF RegistriesAgree
  <2>2. QED  BY <1>1, <2>1 DEF RegistriesAgree
<1>4. ServedUntilClosed'
  BY <1>1 DEF ServedUntilClosed, RegistriesAgree, Described
<1>5. QED  BY <1>2, <1>3, <1>4

\* A step that drops references and reclaims: whoever is in CloudServer's table,
\* or is being built, stays alive; whoever dies is in neither and so was closed.
LEMMA SafeReclaim ==
    ASSUME TypeOK, TypeOK', Safe, Reclaim, Closing',
           UNCHANGED <<fdOf, cloud, main, closed>>,
           \A g \in Fds : server'[g] \in {server[g], None} /\ timed'[g] \in {timed[g], None}
    PROVE  Safe'
<1>1. \A c \in Conns :
         /\ stage'[c] = "open" <=> stage[c] = "open" /\ Referenced(c)'
         /\ stage'[c] = "dead" => stage[c] = "dead" \/ ~Referenced(c)'
  BY Reclaiming
<1>2. Described'  BY <1>1 DEF Safe, Described
<1>3. Building'
  <2>1. \A c \in Conns : main'.conn = c => Referenced(c)'  BY DEF Referenced
  <2>2. QED  BY <1>1, <2>1 DEF Safe, Building
<1>4. RegistriesAgree'
  <2>1. ASSUME NEW g \in Fds, NEW d \in Conns, d \in {server'[g], timed'[g], cloud'[g]}
        PROVE  stage'[d] = "open" /\ fdOf'[d] = g
    <3>1. Referenced(d)'  BY <2>1 DEF Referenced
    <3>2. d \in {server[g], timed[g], cloud[g]}  BY <2>1, ReactorAssumption
    <3>3. stage[d] = "open" /\ fdOf[d] = g
      BY <3>2, ReactorAssumption DEF Safe, RegistriesAgree
    <3>4. QED  BY <1>1, <3>1, <3>3
  <2>2. ASSUME NEW g \in Fds
        PROVE  {server'[g], timed'[g], cloud'[g]} \subseteq
                  {None} \cup {d \in Conns : stage'[d] = "open" /\ fdOf'[d] = g}
    BY <2>1 DEF TypeOK, Entries
  <2>3. \A d, e \in Conns :
            stage'[d] = "open" /\ stage'[e] = "open" /\ fdOf'[d] = fdOf'[e] => d = e
    BY <1>1 DEF Safe, RegistriesAgree
  <2>4. QED  BY <2>2, <2>3 DEF RegistriesAgree
<1>5. NoSilentDeath'
  <2> SUFFICES ASSUME NEW c \in Conns, stage'[c] = "dead" PROVE c \in closed'
    BY DEF NoSilentDeath
  <2>1. CASE stage[c] = "dead"  BY <2>1 DEF Safe, NoSilentDeath
  <2>2. CASE stage[c] # "dead"
    <3>1. stage[c] = "open" /\ ~Referenced(c)'
      BY <1>1, <2>2 DEF Reclaim, TypeOK
    <3>2. main.conn # c /\ cloud[fdOf[c]] # c
      BY <3>1 DEF Referenced, Safe, Described
    <3>3. QED  BY <3>1, <3>2 DEF Safe, ServedUntilClosed
  <2>3. QED  BY <2>1, <2>2
<1>6. ServedUntilClosed'  BY <1>1 DEF Safe, ServedUntilClosed
<1>7. QED  BY <1>2, <1>3, <1>4, <1>5, <1>6 DEF Safe

LEMMA SafeErase ==
    ASSUME TypeOK, TypeOK', Safe
    PROVE  /\ EraseConnection => Safe'
           /\ RemoveConnection => Safe'
           /\ \A f \in Fds : TimerErase(f) => Safe'
<1>1. ASSUME EraseConnection \/ RemoveConnection PROVE Safe'
  <2>1. Closing'
    BY <1>1 DEF EraseConnection, RemoveConnection, Closing, Nothing
  <2>2. \A g \in Fds : server'[g] \in {server[g], None} /\ timed'[g] = timed[g]
    BY <1>1 DEF EraseConnection, RemoveConnection, TypeOK, Entries
  <2>3. Reclaim /\ UNCHANGED <<fdOf, cloud, main, closed>>
    BY <1>1 DEF EraseConnection, RemoveConnection
  <2>4. QED  BY <2>1, <2>2, <2>3, SafeReclaim
<1>2. ASSUME NEW f \in Fds, TimerErase(f) PROVE Safe'
  <2>1. Closing'  BY <1>2 DEF TimerErase, Closing, Doing
  <2>2. \A g \in Fds : server'[g] = server[g] /\ timed'[g] \in {timed[g], None}
    BY <1>2 DEF TimerErase, TypeOK, Entries
  <2>3. Reclaim /\ UNCHANGED <<fdOf, cloud, main, closed>>  BY <1>2 DEF TimerErase
  <2>4. QED  BY <2>1, <2>2, <2>3, SafeReclaim
<1>3. QED  BY <1>1, <1>2

LEMMA SafeStep == ASSUME TypeOK, TypeOK', Safe, [Next]_vars PROVE Safe'
<1>1. CASE UNCHANGED vars  BY <1>1, SafeUnchanged DEF vars, loop
<1>2. CASE LoopStep
  BY <1>2, SafeElsewhere, SafeDisconnect, SafeHandleClose, SafeErase DEF LoopStep, Event
<1>3. QED
  BY <1>1, <1>2, SafeElsewhere, SafeAccept, SafeMain DEF Next

-----------------------------------------------------------------------------
(* What epoll is told.                                                     *)

Watched == EmptyAtFirst /\ NeverForgotten

\* What NeverForgotten says of one connection.
Seen(c) == /\ InSetup(c) \/ (inepoll[c] /\ "in" \in enabled[c])
           /\ outbuf[c] > 0 => inepoll[c] /\ "out" \in enabled[c]

Posted(c) == \E i \in 1 .. Len(tasks) : tasks[i] = [op |-> "read", conn |-> c]

LEMMA WatchedInit == Init => Watched
  BY DEF Init, Watched, EmptyAtFirst, NeverForgotten

\* A task that is posted stays in the queue until it is run.
LEMMA PostedStays ==
    ASSUME TypeOK, NEW c \in Conns, Posted(c)
    PROVE  /\ \A t \in Tasks : tasks' = Append(tasks, t) => Posted(c)'
           /\ /\ tasks # << >>
              /\ tasks' = Tail(tasks)
              /\ Head(tasks) # [op |-> "read", conn |-> c]
              => Posted(c)'
<1>0. tasks \in Seq(Tasks) /\ Len(tasks) \in Nat  BY LenProperties DEF TypeOK
<1>1. PICK i \in 1 .. Len(tasks) : tasks[i] = [op |-> "read", conn |-> c]  BY DEF Posted
<1>2. ASSUME NEW t \in Tasks, tasks' = Append(tasks, t) PROVE Posted(c)'
  <2>1. i \in 1 .. Len(tasks') /\ tasks'[i] = tasks[i]
    BY <1>0, <1>2, AppendProperties
  <2>2. QED  BY <1>1, <2>1 DEF Posted
<1>3. ASSUME tasks # << >>, tasks' = Tail(tasks), Head(tasks) # [op |-> "read", conn |-> c]
      PROVE  Posted(c)'
  <2>1. /\ Len(tasks') = Len(tasks) - 1
        /\ \A j \in 1 .. Len(tasks') : tasks'[j] = tasks[j + 1]
        /\ Head(tasks) = tasks[1]
    BY <1>0, <1>3, HeadTailProperties
  <2>2. i # 1  BY <1>1, <1>3, <2>1
  <2>3. i - 1 \in 1 .. Len(tasks') /\ (i - 1) + 1 = i  BY <1>0, <2>1, <2>2
  <2>4. tasks'[i - 1] = tasks[i]  BY <2>1, <2>3
  <2>5. QED  BY <1>1, <2>3, <2>4 DEF Posted
<1>4. QED  BY <1>2, <1>3

\* A connection that a step leaves as it is, or that is closing from then on.
LEMMA SeenOnly ==
    ASSUME Watched,
           \A c \in Conns :
              /\ stage'[c] = "new" => stage[c] = "new" /\ outbuf'[c] = outbuf[c]
              /\ \/ stage'[c] # "open" \/ disconnect'[c]
                 \/ stage[c] = "open" /\ ~disconnect[c] /\ (Seen(c) => Seen(c)')
                 \/ Seen(c)'
    PROVE  Watched'
<1>1. \A c \in Conns : stage[c] = "open" /\ ~disconnect[c] => Seen(c)
  BY DEF Watched, NeverForgotten, Seen
<1>2. \A c \in Conns : stage'[c] = "open" /\ ~disconnect'[c] => Seen(c)'
  BY <1>1
<1>3. NeverForgotten'  BY <1>2 DEF NeverForgotten, Seen
<1>4. EmptyAtFirst'  BY DEF Watched, EmptyAtFirst
<1>5. QED  BY <1>3, <1>4 DEF Watched

LEMMA WatchedElsewhere ==
    ASSUME Watched, UNCHANGED <<tasks, channel, disconnect, outbuf, main>>,
           \A c \in Conns : /\ stage'[c] = "open" => stage[c] = "open"
                            /\ stage'[c] = "new" => stage[c] = "new"
    PROVE  Watched'
<1>1. \A c \in Conns : Seen(c) => Seen(c)'  BY DEF Seen, InSetup, channel
<1>2. QED  BY <1>1, SeenOnly

LEMMA WatchedReclaim ==
    ASSUME TypeOK, Watched, Reclaim, UNCHANGED <<tasks, channel, disconnect, outbuf, main>>
    PROVE  Watched'
<1>1. \A c \in Conns : /\ stage'[c] = "open" => stage[c] = "open"
                       /\ stage'[c] = "new" => stage[c] = "new"
  BY DEF Reclaim
<1>2. QED  BY <1>1, WatchedElsewhere

\* The connection is in the main thread's hands.
LEMMA WatchedAccept ==
    ASSUME TypeOK, Building, Watched, NEW c \in Conns, NEW f \in Fds, Accept(c, f)
    PROVE  Watched'
<1>1. /\ stage[c] = "new" /\ stage' = [stage EXCEPT ![c] = "open"]
      /\ main.conn = None /\ main' = [pc |-> "server", conn |-> c]
      /\ \A d \in Conns : d # c => enabled'[d] = enabled[d]
      /\ UNCHANGED <<tasks, inepoll, disconnect, outbuf>>
  BY DEF Accept, Building, TypeOK
<1>2. Seen(c)'
  <2>1. outbuf'[c] = 0  BY <1>1 DEF Watched, EmptyAtFirst
  <2>2. QED  BY <1>1, <2>1 DEF Seen, InSetup
<1>3. ASSUME NEW d \in Conns, d # c, stage'[d] = "open"
      PROVE  stage[d] = "open" /\ (Seen(d) => Seen(d)')
  <2>1. stage[d] = "open"  BY <1>1, <1>3 DEF TypeOK
  <2>2. Seen(d) => Seen(d)'
    BY <1>1, <1>3, ReactorAssumption DEF Seen, InSetup
  <2>3. QED  BY <2>1, <2>2
<1>4. \A d \in Conns : stage'[d] = "new" => stage[d] = "new"  BY <1>1 DEF TypeOK
<1>5. QED  BY <1>1, <1>2, <1>3, <1>4, SeenOnly

\* It passes the connection to the loop by the task, before it lets go of it.
LEMMA WatchedMain == ASSUME TypeOK, Building, Watched, MainStep PROVE Watched'
<1>1. UNCHANGED <<stage, channel, disconnect, outbuf>>
  BY DEF MainStep, RegisterServer, AddNewConnection, PostEnableReading, HandleNewConnection
<1>2. ASSUME NEW c \in Conns, InSetup(c) PROVE InSetup(c)'
  <2>1. CASE RegisterServer
    BY <1>2, <2>1 DEF RegisterServer, InSetup, TypeOK
  <2>2. CASE AddNewConnection
    BY <1>2, <2>2 DEF AddNewConnection, InSetup, TypeOK
  <2>3. CASE PostEnableReading
    <3> DEFINE t == [op |-> "read", conn |-> main.conn]
    <3>1. t \in Tasks /\ tasks' = Append(tasks, t)
      BY <2>3 DEF PostEnableReading, Building, Tasks
    <3>2. CASE main.conn = c
      <4>1. /\ Len(tasks) \in Nat /\ Len(tasks') = Len(tasks) + 1
            /\ tasks'[Len(tasks) + 1] = t
        BY <3>1, AppendProperties, LenProperties DEF TypeOK
      <4>2. Len(tasks) + 1 \in 1 .. Len(tasks')  BY <4>1
      <4>3. QED  BY <3>2, <4>1, <4>2 DEF InSetup
    <3>3. CASE main.conn # c
      <4>1. Posted(c)  BY <1>2, <3>3 DEF InSetup, Posted
      <4>2. Posted(c)'  BY <3>1, <4>1, PostedStays
      <4>3. QED  BY <4>2 DEF Posted, InSetup
    <3>4. QED  BY <3>2, <3>3
  <2>4. CASE HandleNewConnection
    BY <1>2, <2>4 DEF HandleNewConnection, InSetup
  <2>5. QED  BY <2>1, <2>2, <2>3, <2>4 DEF MainStep
<1>3. \A c \in Conns : Seen(c) => Seen(c)'  BY <1>1, <1>2 DEF Seen, channel
<1>4. QED  BY <1>1, <1>3, SeenOnly

LEMMA WatchedForeignSend ==
    ASSUME TypeOK, Watched, NEW c \in Conns, ForeignSend(c) PROVE Watched'
<1>1. /\ tasks' = Append(tasks, [op |-> "send", conn |-> c])
      /\ [op |-> "send", conn |-> c] \in Tasks
      /\ UNCHANGED <<stage, main, channel, disconnect, outbuf>>
  BY DEF ForeignSend, Tasks
<1>2. \A d \in Conns : InSetup(d) => InSetup(d)'
  BY <1>1, PostedStays DEF InSetup, Posted
<1>3. \A d \in Conns : Seen(d) => Seen(d)'  BY <1>1, <1>2 DEF Seen, channel
<1>4. QED  BY <1>1, <1>3, SeenOnly

\* A task is run: it is only gone for the connection that it serves.
LEMMA WatchedTasks ==
    ASSUME TypeOK, Watched, RunEnableReading \/ RunSendInLoop PROVE Watched'
<1> DEFINE t == Head(tasks)
<1>1. /\ tasks # << >> /\ tasks' = Tail(tasks) /\ t \in Tasks
      /\ stage[t.conn] = "open"
      /\ UNCHANGED <<stage, main, disconnect>>
  BY QueueTyped DEF RunEnableReading, RunSendInLoop, NextTask, TypeOK
<1>2. PICK c \in Conns : c = t.conn  BY <1>1 DEF Tasks
<1>3. ASSUME NEW d \in Conns, InSetup(d), t # [op |-> "read", conn |-> d]
      PROVE  InSetup(d)'
  <2>1. CASE Posted(d)
    <3>1. Posted(d)'  BY <1>1, <1>3, <2>1, PostedStays
    <3>2. QED  BY <3>1 DEF Posted, InSetup
  <2>2. CASE ~Posted(d)  BY <1>1, <1>3, <2>2 DEF InSetup, Posted
  <2>3. QED  BY <2>1, <2>2
<1>4. ASSUME NEW d \in Conns, d # c PROVE Seen(d) => Seen(d)'
  <2>1. enabled'[d] = enabled[d] /\ inepoll'[d] = inepoll[d] /\ outbuf'[d] = outbuf[d]
    BY <1>2, <1>4 DEF RunEnableReading, RunSendInLoop, Subscribe, TypeOK
  <2>2. t # [op |-> "read", conn |-> d]  BY <1>2, <1>4
  <2>3. QED  BY <1>3, <2>1, <2>2 DEF Seen
<1>5. CASE RunEnableReading
  <2>1. /\ enabled'[c] = enabled[c] \cup {"in"} /\ inepoll'[c] /\ outbuf' = outbuf
    BY <1>2, <1>5 DEF RunEnableReading, Subscribe, TypeOK
  <2>2. Seen(c) => Seen(c)'  BY <2>1 DEF Seen
  <2>3. \A d \in Conns : Seen(d) => Seen(d)'  BY <1>4, <2>2
  <2>4. QED  BY <1>1, <2>1, <2>3, SeenOnly
<1>6. CASE RunSendInLoop
  <2>1. /\ enabled'[c] = enabled[c] \cup {"out"} /\ inepoll'[c]
        /\ \A d \in Conns : d # c => outbuf'[d] = outbuf[d]
        /\ t.op = "send"
    BY <1>2, <1>6 DEF RunSendInLoop, NextTask, Subscribe, TypeOK
  <2>2. t # [op |-> "read", conn |-> c]  BY <2>1
  <2>3. Seen(c) => Seen(c)'  BY <1>3, <2>1, <2>2 DEF Seen
  <2>4. \A d \in Conns : Seen(d) => Seen(d)'  BY <1>4, <2>3
  <2>5. \A d \in Conns : stage'[d] = "new" => d # c  BY <1>1, <1>2
  <2>6. QED  BY <1>1, <2>1, <2>4, <2>5, SeenOnly
<1>7. QED  BY <1>5, <1>6

LEMMA WatchedFreed == ASSUME TypeOK, Watched, RunTaskOfFreed PROVE Watched'
<1> DEFINE t == Head(tasks)
<1>1. /\ tasks # << >> /\ tasks' = Tail(tasks) /\ stage[t.conn] = "dead"
      /\ UNCHANGED <<stage, main, channel, disconnect, outbuf>>
  BY DEF RunTaskOfFreed, NextTask
<1>2. ASSUME NEW d \in Conns, stage[d] = "open" PROVE Seen(d) => Seen(d)'
  <2>1. t # [op |-> "read", conn |-> d]  BY <1>1, <1>2
  <2>2. InSetup(d) => InSetup(d)'
    BY <1>1, <2>1, PostedStays DEF InSetup, Posted
  <2>3. QED  BY <1>1, <2>2 DEF Seen, channel
<1>3. QED  BY <1>1, <1>2, SeenOnly

\* One event is handled: only its connection's subscription changes.
LEMMA WatchedEvent == ASSUME TypeOK, Watched, NEW c \in Conns, Event(c) PROVE Watched'
<1>1. CASE HandleFreed(c)  BY <1>1, WatchedElsewhere DEF HandleFreed
<1>2. ASSUME UNCHANGED <<stage, main, tasks, disconnect>>, stage[c] = "open",
             \A d \in Conns : d # c => /\ enabled'[d] = enabled[d]
                                       /\ inepoll'[d] = inepoll[d]
                                       /\ outbuf'[d] = outbuf[d],
             Seen(c) => Seen(c)'
      PROVE  Watched'
  <2>1. \A d \in Conns : Seen(d) => Seen(d)'  BY <1>2 DEF Seen, InSetup
  <2>2. QED  BY <1>2, <2>1, SeenOnly
<1>3. CASE OnMessage(c)
  <2>1. UNCHANGED <<stage, main, tasks, disconnect>> /\ stage[c] = "open"
    BY <1>3 DEF OnMessage, Handling
  <2>2. CASE cloud[fdOf[c]] = c /\ unread[c] > 0
    <3>1. /\ outbuf' = [outbuf EXCEPT ![c] = @ + unread[c]]
          /\ enabled' = [enabled EXCEPT ![c] = enabled[c] \cup {"out"}]
          /\ inepoll' = [inepoll EXCEPT ![c] = TRUE]
      BY <1>3, <2>2 DEF OnMessage, Subscribe
    <3>2. /\ enabled'[c] = enabled[c] \cup {"out"} /\ inepoll'[c]
          /\ \A d \in Conns : d # c => /\ enabled'[d] = enabled[d]
                                       /\ inepoll'[d] = inepoll[d]
                                       /\ outbuf'[d] = outbuf[d]
      BY <3>1 DEF TypeOK
    <3>3. Seen(c) => Seen(c)'  BY <2>1, <3>2 DEF Seen, InSetup
    <3>4. QED  BY <1>2, <2>1, <3>2, <3>3
  <2>3. CASE ~(cloud[fdOf[c]] = c /\ unread[c] > 0)
    BY <1>3, <2>1, <2>3, WatchedElsewhere DEF OnMessage
  <2>4. QED  BY <2>2, <2>3
<1>4. CASE OnMessageEof(c) \/ OnHangup(c)
  <2>1. /\ UNCHANGED <<stage, main, tasks, outbuf>>
        /\ disconnect'[c]
        /\ \A d \in Conns : d # c => /\ disconnect'[d] = disconnect[d]
                                     /\ enabled'[d] = enabled[d]
                                     /\ inepoll'[d] = inepoll[d]
    BY <1>4 DEF OnMessageEof, OnHangup, Disconnecting, Remove, TypeOK
  <2>2. \A d \in Conns : d # c => (Seen(d) => Seen(d)')  BY <2>1 DEF Seen, InSetup
  <2>3. \A d \in Conns : \/ stage'[d] # "open" \/ disconnect'[d]
                         \/ stage[d] = "open" /\ ~disconnect[d] /\ (Seen(d) => Seen(d)')
    BY <2>1, <2>2
  <2>4. QED  BY <2>1, <2>3, SeenOnly
<1>5. CASE WriteCallback(c)
  <2>1. UNCHANGED <<stage, main, tasks, inepoll, disconnect>> /\ stage[c] = "open"
    BY <1>5 DEF WriteCallback, Handling
  <2>2. PICK n \in (IF outbuf[c] = 0 THEN {0} ELSE 1 .. outbuf[c]) :
            /\ outbuf' = [outbuf EXCEPT ![c] = @ - n]
            /\ enabled' = [enabled EXCEPT ![c] = IF outbuf[c] = n THEN @ \ {"out"} ELSE @]
    BY <1>5 DEF WriteCallback
  <2>3. /\ outbuf[c] \in Nat /\ n \in Nat /\ outbuf'[c] = outbuf[c] - n
        /\ enabled'[c] = IF outbuf[c] = n THEN enabled[c] \ {"out"} ELSE enabled[c]
        /\ \A d \in Conns : d # c => outbuf'[d] = outbuf[d] /\ enabled'[d] = enabled[d]
    BY <2>2 DEF TypeOK
  <2>4. "in" \in enabled[c] => "in" \in enabled'[c]  BY <2>3
  <2>5. outbuf'[c] > 0 => outbuf[c] > 0 /\ enabled'[c] = enabled[c]  BY <2>3
  <2>6. Seen(c) => Seen(c)'  BY <2>1, <2>4, <2>5 DEF Seen, InSetup
  <2>7. QED  BY <1>2, <2>1, <2>3, <2>6
<1>6. QED  BY <1>1, <1>3, <1>4, <1>5 DEF Event

LEMMA WatchedStep == ASSUME TypeOK, Building, Watched, [Next]_vars PROVE Watched'
<1>1. CASE UNCHANGED vars \/ Dead
  BY <1>1, WatchedElsewhere DEF Dead, vars, channel
<1>2. ASSUME NEW c \in Conns, PeerSends(c) \/ PeerStreams(c) \/ PeerCloses(c) \/ TenSecondsPass(c)
      PROVE  Watched'
  BY <1>2, WatchedElsewhere DEF PeerSends, PeerStreams, PeerCloses, TenSecondsPass
<1>3. ASSUME NEW timer, Poll(timer) PROVE Watched'
  BY <1>3, WatchedElsewhere DEF Poll
<1>4. CASE TasksDone \/ TimerDone \/ HandleClose
  BY <1>4, WatchedElsewhere DEF TasksDone, TimerDone, HandleClose
<1>5. CASE EraseConnection \/ RemoveConnection
  BY <1>5, WatchedReclaim DEF EraseConnection, RemoveConnection
<1>6. ASSUME NEW f \in Fds, TimerErase(f) PROVE Watched'
  BY <1>6, WatchedReclaim DEF TimerErase
<1>7. CASE LoopStep
  BY <1>3, <1>4, <1>5, <1>6, <1>7, WatchedTasks, WatchedFreed, WatchedEvent DEF LoopStep
<1>8. QED
  BY <1>1, <1>2, <1>3, <1>7, WatchedForeignSend, WatchedAccept, WatchedMain DEF Next

-----------------------------------------------------------------------------
LEMMA Inductive == Spec => []IInv
<1>1. Init => IInv  BY TypedInit, SafeInit, WatchedInit DEF IInv, Safe, Watched
<1>2. IInv /\ [Next]_vars => IInv'
  BY TypedStep, SafeStep, WatchedStep DEF IInv, Safe, Watched
<1>3. QED  BY <1>1, <1>2, PTL DEF Spec

\* Every variable keeps its type: in particular both counters of a connection
\* stay in their bounds and the loop's queue holds tasks of real connections.
THEOREM TypeCorrect == Spec => []TypeOK
  BY Inductive, PTL DEF IInv

\* However many connections come and go on however many descriptors, no table
\* entry outlives its connection or stands under a key that was given to
\* another one, and no two living connections share a descriptor.
THEOREM TablesAgree == Spec => []RegistriesAgree
  BY Inductive, PTL DEF IInv

\* Destroyed means closed: the idle timer never takes the last reference to a
\* connection whose close CloudServer has not handled.
THEOREM DeathIsClosed == Spec => []NoSilentDeath
  BY Inductive, PTL DEF IInv

\* Whatever order the posted tasks, the sends of other threads and the events of
\* the loop fall in, an open connection is registered, or its registration is
\* under way, for reading, and for writing while something is to be written: the
\* safety half of RequestsHandled and of RepliesWritten.
THEOREM EpollForgetsNobody == Spec => []NeverForgotten
  BY Inductive, PTL DEF IInv

\* From the end of newConnection to its close a connection can be found by its
\* descriptor in CloudServer's table, whatever is erased by number meanwhile.
THEOREM FoundUntilClosed == Spec => []ServedUntilClosed
  BY Inductive, PTL DEF IInv
=============================================================================
