------------------------------ MODULE Reactor ------------------------------
(***************************************************************************)
(* The life of a TCP connection: accepted by the main thread               *)
(* (framework/TcpServer.cpp), served by one event loop thread              *)
(* (EventLoop, Channel, Connection, Epoll), entered in three tables keyed  *)
(* by descriptor, and destroyed when the last table forgets it:            *)
(*   server   TcpServer::conns_     erased when the close is handled, or   *)
(*                                  when the idle timer drops the fd       *)
(*   timed    EventLoop::conns_     erased by the idle timer only          *)
(*   cloud    CloudServer::conns_   erased when the close is handled       *)
(* The destructor closes the descriptor, which the kernel may give out     *)
(* again.  Channels in epoll and tasks in the loop's queue refer to the    *)
(* connection by a raw pointer.                                            *)
(*                                                                         *)
(* One subordinate loop is modelled (a connection never changes its loop)  *)
(* with the main thread and the other loops' threads, which send to the    *)
(* connection by a task.  The queue with its wake-up is that of EventLoop. *)
(***************************************************************************)
EXTENDS Naturals, Sequences, FiniteSets

CONSTANTS Conns,        \* the connections that peers make, one after the other
          Fds,          \* descriptors the kernel gives out for this loop
          None,         \* no connection, no descriptor
          MaxRequests,  \* bound: requests a peer sends
          MaxSends,     \* bound: messages other connections' handlers send it
          Steady        \* bound: the connections whose peers may send without end

ASSUME ReactorAssumption ==
    /\ None \notin Conns \cup Fds
    /\ MaxRequests \in Nat /\ MaxSends \in Nat
    /\ Steady \subseteq Conns

VARIABLES
    stage,      \* "new", then "open" while the Connection exists, then "dead"
    fdOf,       \* its descriptor
    server, timed, cloud,   \* the three tables
    main,       \* newConnection: the step it is at and the connection
    tasks,      \* the loop's taskqueue_
    enabled,    \* Channel::events_, as far as handleevent looks at the bits
    inepoll,    \* Channel::inepoll_
    revents,    \* what epoll_wait reported, for the channels still to handle
    pend,       \* the loop's own channels still to handle
    doing,      \* the callback the loop thread is in
    disconnect, \* Connection::disconnect_
    outbuf,     \* messages in outputbuffer_
    unread,     \* requests in the socket
    stream,     \* bytes in the socket that get no reply, as those of a file
    peer,       \* "up", "fin" (closed), "rst" (closed, and has answered a write)
    sent,       \* requests and foreign messages so far, for the bounds
    quiet,      \* connections whose lasttime_ is more than ten seconds ago
    closed,     \* connections whose handleClose has run
    died        \* the process was killed: SIGPIPE, or a freed Connection was used

tables == <<server, timed, cloud>>
channel == <<enabled, inepoll>>
net == <<unread, stream, peer, sent>>
loop == <<revents, pend, doing>>
vars == <<stage, fdOf, tables, main, tasks, channel, loop, disconnect, outbuf,
          net, quiet, closed, died>>

Nothing == [op |-> "none", conn |-> None, fd |-> None]
Doing(op, c, f) == doing' = [op |-> op, conn |-> c, fd |-> f]
FreeLoop == doing = Nothing

\* Somebody holds a shared_ptr to the connection.
Referenced(c) ==
    \/ \E f \in Fds : server[f] = c \/ timed[f] = c \/ cloud[f] = c
    \/ main.conn = c
    \/ doing.conn = c

\* ~Connection and ~Socket, in the step that drops the last reference.
Reclaim ==
    stage' = [c \in Conns |-> IF stage[c] = "open" /\ ~Referenced(c)'
                              THEN "dead" ELSE stage[c]]

Init ==
    /\ stage = [c \in Conns |-> "new"]
    /\ fdOf = [c \in Conns |-> None]
    /\ server = [f \in Fds |-> None]
    /\ timed = [f \in Fds |-> None]
    /\ cloud = [f \in Fds |-> None]
    /\ main = [pc |-> "accept", conn |-> None]
    /\ tasks = << >>
    /\ enabled = [c \in Conns |-> {}]
    /\ inepoll = [c \in Conns |-> FALSE]
    /\ revents = [c \in Conns |-> {}]
    /\ pend = {}
    /\ doing = Nothing
    /\ disconnect = [c \in Conns |-> FALSE]
    /\ outbuf = [c \in Conns |-> 0]
    /\ unread = [c \in Conns |-> 0]
    /\ stream = [c \in Conns |-> FALSE]
    /\ peer = [c \in Conns |-> "up"]
    /\ sent = [c \in Conns |-> [requests |-> 0, foreign |-> 0]]
    /\ quiet = {}
    /\ closed = {}
    /\ died = FALSE

-----------------------------------------------------------------------------
(* The peer.                                                               *)

PeerSends(c) ==
    /\ ~died
    /\ stage[c] = "open"
    /\ peer[c] = "up"
    /\ sent[c].requests < MaxRequests
    /\ sent' = [sent EXCEPT ![c].requests = @ + 1]
    /\ unread' = [unread EXCEPT ![c] = @ + 1]
    /\ UNCHANGED <<stage, fdOf, tables, main, tasks, channel, loop, disconnect,
                   outbuf, stream, peer, quiet, closed, died>>

\* A long upload, for one: there is no bound to it.
PeerStreams(c) ==
    /\ ~died
    /\ c \in Steady
    /\ stage[c] = "open"
    /\ peer[c] = "up"
    /\ ~stream[c]
    /\ stream' = [stream EXCEPT ![c] = TRUE]
    /\ UNCHANGED <<stage, fdOf, tables, main, tasks, channel, loop, disconnect,
                   outbuf, unread, peer, sent, quiet, closed, died>>

PeerCloses(c) ==
    /\ ~died
    /\ stage[c] = "open"
    /\ peer[c] = "up"
    /\ peer' = [peer EXCEPT ![c] = "fin"]
    /\ UNCHANGED <<stage, fdOf, tables, main, tasks, channel, loop, disconnect,
                   outbuf, unread, stream, sent, quiet, closed, died>>

-----------------------------------------------------------------------------
(* The main thread: TcpServer::newConnection, table by table.              *)

\* The Connection is built.  Channel's constructor does not initialise events_:
\* it holds what the heap held.  ("in" will be added before it is used.)
Accept(c, f) ==
    /\ ~died
    /\ main.pc = "accept"
    /\ stage[c] = "new"
    /\ \A d \in Conns : stage[d] = "open" => fdOf[d] # f
    /\ stage' = [stage EXCEPT ![c] = "open"]
    /\ fdOf' = [fdOf EXCEPT ![c] = f]
    /\ main' = [pc |-> "server", conn |-> c]
    /\ \E garbage \in SUBSET {"out", "rdhup"} : enabled' = [enabled EXCEPT ![c] = garbage]
    /\ UNCHANGED <<tables, tasks, inepoll, loop, disconnect, outbuf, net, quiet, closed, died>>

RegisterServer ==
    /\ ~died
    /\ main.pc = "server"
    /\ server' = [server EXCEPT ![fdOf[main.conn]] = main.conn]
    /\ main' = [main EXCEPT !.pc = "timed"]
    /\ UNCHANGED <<stage, fdOf, timed, cloud, tasks, channel, loop, disconnect,
                   outbuf, net, quiet, closed, died>>

AddNewConnection ==
    /\ ~died
    /\ main.pc = "timed"
    /\ timed' = [timed EXCEPT ![fdOf[main.conn]] = main.conn]
    /\ main' = [main EXCEPT !.pc = "post"]
    /\ UNCHANGED <<stage, fdOf, server, cloud, tasks, channel, loop, disconnect,
                   outbuf, net, quiet, closed, died>>

\* setinqueue(enablereading) comes BEFORE the new-connection callback.
PostEnableReading ==
    /\ ~died
    /\ main.pc = "post"
    /\ tasks' = Append(tasks, [op |-> "read", conn |-> main.conn])
    /\ main' = [main EXCEPT !.pc = "cloud"]
    /\ UNCHANGED <<stage, fdOf, tables, channel, loop, disconnect, outbuf, net,
                   quiet, closed, died>>

\* CloudServer::handleNewConnection; then newConnection drops its reference.
HandleNewConnection ==
    /\ ~died
    /\ main.pc = "cloud"
    /\ cloud' = [cloud EXCEPT ![fdOf[main.conn]] = main.conn]
    /\ main' = [pc |-> "accept", conn |-> None]
    /\ UNCHANGED <<stage, fdOf, server, timed, tasks, channel, loop, disconnect,
                   outbuf, net, quiet, closed, died>>

-----------------------------------------------------------------------------
(* A handler on another loop: sendTo/resend find the connection in cloud   *)
(* and call sendto_ob.  The test of disconnect_ and the push are one step: *)
(* the loop does not look at its queue before it is back from a close.     *)

ForeignSend(c) ==
    /\ ~died
    /\ \E f \in Fds : cloud[f] = c
    /\ ~disconnect[c]
    /\ sent[c].foreign < MaxSends
    /\ sent' = [sent EXCEPT ![c].foreign = @ + 1]
    /\ tasks' = Append(tasks, [op |-> "send", conn |-> c])
    /\ UNCHANGED <<stage, fdOf, tables, main, channel, loop, disconnect, outbuf,
                   unread, stream, peer, quiet, closed, died>>

-----------------------------------------------------------------------------
(* epoll.                                                                  *)

\* What the kernel reports: EPOLLHUP needs no subscription and comes once
\* both directions are shut, that is after the peer's reset.
Readiness(c) ==
    IF ~inepoll[c] THEN {}
    ELSE {e \in enabled[c] : CASE e = "in"    -> unread[c] > 0 \/ stream[c] \/ peer[c] # "up"
                               [] e = "out"   -> TRUE
                               [] e = "rdhup" -> peer[c] # "up"}
         \cup {e \in {"hup"} : peer[c] = "rst"}

\* One return of epoll_wait.  The timer may have expired or not; time passes
\* unseen.  Everything reported is handled before the next call.
Poll(timer) ==
    /\ ~died
    /\ FreeLoop /\ pend = {} /\ \A c \in Conns : revents[c] = {}
    /\ revents' = [c \in Conns |-> IF stage[c] = "open" THEN Readiness(c) ELSE {}]
    /\ pend' = timer \cup (IF tasks # << >> THEN {"wake"} ELSE {})
    /\ pend' # {} \/ revents' # revents
    /\ UNCHANGED <<stage, fdOf, tables, main, tasks, channel, doing, disconnect,
                   outbuf, net, quiet, closed, died>>

\* Channel::updatechannel with the given events: MOD, or ADD if not there.
Subscribe(c, events) ==
    /\ enabled' = [enabled EXCEPT ![c] = events]
    /\ inepoll' = [inepoll EXCEPT ![c] = TRUE]

\* Channel::remove: disableall, then out of epoll.
Remove(c) ==
    /\ enabled' = [enabled EXCEPT ![c] = {}]
    /\ inepoll' = [inepoll EXCEPT ![c] = FALSE]

-----------------------------------------------------------------------------
(* The loop thread: handlewakeIO runs the queued tasks.                    *)

NextTask(op) ==
    /\ ~died
    /\ FreeLoop
    /\ "wake" \in pend
    /\ tasks # << >>
    /\ Head(tasks).op = op
    /\ tasks' = Tail(tasks)

\* The bound Channel::enablereading.
RunEnableReading ==
    LET c == Head(tasks).conn IN
    /\ NextTask("read")
    /\ stage[c] = "open"
    /\ Subscribe(c, enabled[c] \cup {"in"})
    /\ UNCHANGED <<stage, fdOf, tables, main, loop, disconnect, outbuf, net, quiet, closed, died>>

\* Mutant: enablewriting assigns EPOLLOUT to events_ instead of adding it.
RunSendOverwritesEvents ==
    LET c == Head(tasks).conn IN
    /\ NextTask("send")
    /\ stage[c] = "open"
    /\ outbuf' = [outbuf EXCEPT ![c] = @ + 1]
    /\ Subscribe(c, {"out"})
    /\ UNCHANGED <<stage, fdOf, tables, main, loop, disconnect, net, quiet, closed, died>>

\* sendinloop: it does not look at disconnect_ again.
RunSendInLoop ==
    LET c == Head(tasks).conn IN
    /\ NextTask("send")
    /\ stage[c] = "open"
    /\ outbuf' = [outbuf EXCEPT ![c] = @ + 1]
    /\ Subscribe(c, enabled[c] \cup {"out"})
    /\ UNCHANGED <<stage, fdOf, tables, main, loop, disconnect, net, quiet, closed, died>>

\* The task's raw pointer outlived its connection.
RunTaskOfFreed ==
    /\ \E op \in {"read", "send"} : NextTask(op)
    /\ stage[Head(tasks).conn] = "dead"
    /\ died' = TRUE
    /\ UNCHANGED <<stage, fdOf, tables, main, channel, loop, disconnect, outbuf,
                   net, quiet, closed>>

TasksDone ==
    /\ ~died
    /\ FreeLoop
    /\ "wake" \in pend
    /\ tasks = << >>
    /\ pend' = pend \ {"wake"}
    /\ UNCHANGED <<stage, fdOf, tables, main, tasks, channel, revents, doing,
                   disconnect, outbuf, net, quiet, closed, died>>

-----------------------------------------------------------------------------
(* Channel::handleevent, by branch.                                        *)

\* else-if: a peer's shutdown, if events_ asks for it, hides everything,
\* reading hides writing, and all of them hide an error.
Branch(c) == IF "rdhup" \in revents[c] THEN "rdhup"
             ELSE IF "in" \in revents[c] THEN "in"
             ELSE IF "out" \in revents[c] THEN "out" ELSE "hup"

Handling(c, branch) ==
    /\ ~died
    /\ FreeLoop
    /\ stage[c] = "open"
    /\ revents[c] # {}
    /\ Branch(c) = branch
    /\ revents' = [revents EXCEPT ![c] = {}]

\* The Channel of a report was freed by a handler of the same batch.
HandleFreed(c) ==
    /\ ~died
    /\ FreeLoop
    /\ revents[c] # {} /\ stage[c] = "dead"
    /\ died' = TRUE
    /\ UNCHANGED <<stage, fdOf, tables, main, tasks, channel, loop, disconnect,
                   outbuf, net, quiet, closed>>

\* onMessage up to EAGAIN: every request is handled and answered through
\* CloudServer::sendTo(fd), which gives up if the table has no such fd.
OnMessage(c) ==
    /\ Handling(c, "in")
    /\ peer[c] = "up"
    /\ unread' = [unread EXCEPT ![c] = 0]
    /\ stream' = [stream EXCEPT ![c] = FALSE]
    /\ quiet' = quiet \ {c}
    /\ IF cloud[fdOf[c]] = c /\ unread[c] > 0
       THEN /\ outbuf' = [outbuf EXCEPT ![c] = @ + unread[c]]
            /\ Subscribe(c, enabled[c] \cup {"out"})
       ELSE UNCHANGED <<outbuf, channel>>
    /\ UNCHANGED <<stage, fdOf, tables, main, tasks, pend, doing, disconnect,
                   peer, sent, closed, died>>

\* Connection::closecallback and errorcallback up to TcpServer's callback.
Disconnecting(c) ==
    /\ disconnect' = [disconnect EXCEPT ![c] = TRUE]
    /\ Remove(c)
    /\ Doing("close", c, fdOf[c])

\* onMessage reads 0: closed, whatever was read in the same call is dropped.
OnMessageEof(c) ==
    /\ Handling(c, "in")
    /\ peer[c] # "up"
    /\ unread' = [unread EXCEPT ![c] = 0]
    /\ stream' = [stream EXCEPT ![c] = FALSE]
    /\ Disconnecting(c)
    /\ UNCHANGED <<stage, fdOf, tables, main, tasks, pend, outbuf, peer, sent,
                   quiet, closed, died>>

\* The branches for EPOLLRDHUP and for EPOLLHUP alone: nothing is read.
OnHangup(c) ==
    /\ \E branch \in {"rdhup", "hup"} : Handling(c, branch)
    /\ Disconnecting(c)
    /\ UNCHANGED <<stage, fdOf, tables, main, tasks, pend, outbuf, net, quiet, closed, died>>

\* Mutant: disablewriting after every send, complete or not.
WriteOnce(c) ==
    /\ Handling(c, "out")
    /\ \E n \in 0 .. outbuf[c] : outbuf' = [outbuf EXCEPT ![c] = @ - n]
    /\ enabled' = [enabled EXCEPT ![c] = @ \ {"out"}]
    /\ UNCHANGED <<stage, fdOf, tables, main, tasks, inepoll, pend, doing,
                   disconnect, net, quiet, closed, died>>

\* writecallback: send what the socket takes.  A closed peer answers the
\* first write by a reset; a write after that raises SIGPIPE.
WriteCallback(c) ==
    /\ Handling(c, "out")
    /\ \E n \in (IF outbuf[c] = 0 THEN {0} ELSE 1 .. outbuf[c]) :
        /\ outbuf' = [outbuf EXCEPT ![c] = @ - n]
        /\ enabled' = [enabled EXCEPT ![c] = IF outbuf[c] = n THEN @ \ {"out"} ELSE @]
    /\ peer' = [peer EXCEPT ![c] = IF @ = "fin" /\ outbuf[c] > 0 THEN "rst" ELSE @]
    /\ died' = (peer[c] = "rst")
    /\ UNCHANGED <<stage, fdOf, tables, main, tasks, inepoll, pend, doing,
                   disconnect, unread, stream, sent, quiet, closed>>

-----------------------------------------------------------------------------
(* TcpServer::closecallback (and errorcallback, which does the same).      *)

\* Mutant: handleClose without conns_.erase(fd).
HandleCloseKeepsConn ==
    /\ ~died
    /\ doing.op = "close"
    /\ closed' = closed \cup {doing.conn}
    /\ Doing("erase", doing.conn, doing.fd)
    /\ UNCHANGED <<stage, fdOf, tables, main, tasks, channel, revents, pend,
                   disconnect, outbuf, net, quiet, died>>

\* closecb_: CloudServer::handleClose, under mmutex_.
HandleClose ==
    /\ ~died
    /\ doing.op = "close"
    /\ cloud' = [cloud EXCEPT ![doing.fd] = None]
    /\ closed' = closed \cup {doing.conn}
    /\ Doing("erase", doing.conn, doing.fd)
    /\ UNCHANGED <<stage, fdOf, server, timed, main, tasks, channel, revents, pend,
                   disconnect, outbuf, net, quiet, died>>

\* Mutant: close(conn->fd()) in closecallback, where it is commented out.
EraseClosesFd ==
    /\ ~died
    /\ doing.op = "erase"
    /\ server' = [server EXCEPT ![doing.fd] = None]
    /\ fdOf' = [fdOf EXCEPT ![doing.conn] = None]
    /\ doing' = Nothing
    /\ UNCHANGED <<timed, cloud, main>>
    /\ Reclaim
    /\ UNCHANGED <<tasks, channel, revents, pend, disconnect, outbuf, net, quiet,
                   closed, died>>

\* conns_.erase(fd), and the callback's own reference goes.
EraseConnection ==
    /\ ~died
    /\ doing.op = "erase"
    /\ server' = [server EXCEPT ![doing.fd] = None]
    /\ doing' = Nothing
    /\ UNCHANGED <<timed, cloud, main>>
    /\ Reclaim
    /\ UNCHANGED <<fdOf, tasks, channel, revents, pend, disconnect, outbuf, net,
                   quiet, closed, died>>

-----------------------------------------------------------------------------
(* EventLoop::handletime, one connection at a time.                        *)

\* Ten seconds without a message from c.  Everything else that was ready to
\* be done has been done in that time, which is all this model knows of time.
TenSecondsPass(c) ==
    /\ ~died
    /\ stage[c] = "open" /\ main.conn # c /\ c \notin quiet
    /\ FreeLoop /\ pend = {} /\ tasks = << >>
    /\ \A d \in Conns : stage[d] = "open" => Readiness(d) = {} /\ revents[d] = {}
    /\ quiet' = quiet \cup {c}
    /\ UNCHANGED <<stage, fdOf, tables, main, tasks, channel, loop, disconnect,
                   outbuf, net, closed, died>>

\* Mutant: the idle timer drops the connection from every table.
TimerErasesEverywhere(f) ==
    /\ ~died
    /\ FreeLoop
    /\ "timer" \in pend
    /\ timed[f] \in quiet
    /\ timed' = [timed EXCEPT ![f] = None]
    /\ cloud' = [cloud EXCEPT ![f] = None]
    /\ Doing("remove", None, f)
    /\ UNCHANGED <<server, main>>
    /\ Reclaim
    /\ UNCHANGED <<fdOf, tasks, channel, revents, pend, disconnect, outbuf, net,
                   quiet, closed, died>>

TimerErase(f) ==
    /\ ~died
    /\ FreeLoop
    /\ "timer" \in pend
    /\ timed[f] \in quiet
    /\ timed' = [timed EXCEPT ![f] = None]
    /\ Doing("remove", None, f)
    /\ UNCHANGED <<server, cloud, main>>
    /\ Reclaim
    /\ UNCHANGED <<fdOf, tasks, channel, revents, pend, disconnect, outbuf, net,
                   quiet, closed, died>>

\* Mutant: timerout_ is bound to CloudServer's table.
RemoveFromCloud ==
    /\ ~died
    /\ doing.op = "remove"
    /\ cloud' = [cloud EXCEPT ![doing.fd] = None]
    /\ doing' = Nothing
    /\ UNCHANGED <<server, timed, main>>
    /\ Reclaim
    /\ UNCHANGED <<fdOf, tasks, channel, revents, pend, disconnect, outbuf, net,
                   quiet, closed, died>>

\* timerout_(fd): TcpServer::removeconnection erases whatever has that key.
RemoveConnection ==
    /\ ~died
    /\ doing.op = "remove"
    /\ server' = [server EXCEPT ![doing.fd] = None]
    /\ doing' = Nothing
    /\ UNCHANGED <<timed, cloud, main>>
    /\ Reclaim
    /\ UNCHANGED <<fdOf, tasks, channel, revents, pend, disconnect, outbuf, net,
                   quiet, closed, died>>

TimerDone ==
    /\ ~died
    /\ FreeLoop
    /\ "timer" \in pend
    /\ \A f \in Fds : timed[f] \notin quiet
    /\ pend' = pend \ {"timer"}
    /\ UNCHANGED <<stage, fdOf, tables, main, tasks, channel, revents, doing,
                   disconnect, outbuf, net, quiet, closed, died>>

\* A process that was killed does nothing more.
Dead == died /\ UNCHANGED vars

-----------------------------------------------------------------------------
MainStep == RegisterServer \/ AddNewConnection \/ PostEnableReading \/ HandleNewConnection

Event(c) == \/ HandleFreed(c) \/ OnMessage(c) \/ OnMessageEof(c)
            \/ OnHangup(c)    \/ WriteCallback(c)

LoopStep == \/ Poll({})
            \/ RunEnableReading \/ RunSendInLoop \/ RunTaskOfFreed \/ TasksDone
            \/ \E c \in Conns : Event(c)
            \/ HandleClose \/ EraseConnection
            \/ (\E f \in Fds : TimerErase(f)) \/ RemoveConnection \/ TimerDone

Next == \/ \E c \in Conns : PeerSends(c) \/ PeerStreams(c) \/ PeerCloses(c) \/ ForeignSend(c)
        \/ \E c \in Conns, f \in Fds : Accept(c, f)
        \/ MainStep
        \/ LoopStep
        \/ Poll({"timer"})
        \/ \E c \in Conns : TenSecondsPass(c)
        \/ Dead

Spec == Init /\ [][Next]_vars

(***************************************************************************)
(* The two threads run on, the loop handles what epoll reported, the timer *)
(* is set again by every handletime and so expires again and again, and a  *)
(* closed connection, whose lasttime_ stands still, is idle in the end.    *)
(***************************************************************************)
FairSpec ==
    /\ Spec
    /\ WF_vars(MainStep)
    /\ WF_vars(LoopStep)
    /\ SF_vars(Poll({"timer"}))
    /\ \A c \in Conns : SF_vars(Event(c))
    /\ \A c \in Conns : SF_vars(c \in closed /\ TenSecondsPass(c))

-----------------------------------------------------------------------------
\* The tables never point to a connection that is gone or that has another
\* descriptor than the key, and no two living connections share a descriptor,
\* although all three are keyed by a number that the kernel reuses.
RegistriesAgree ==
    /\ \A f \in Fds : {server[f], timed[f], cloud[f]} \subseteq
          {None} \cup {c \in Conns : stage[c] = "open" /\ fdOf[c] = f}
    /\ \A c, d \in Conns :
          stage[c] = "open" /\ stage[d] = "open" /\ fdOf[c] = fdOf[d] => c = d

\* A connection is never destroyed without handleClose: the idle timer and
\* the two-fold close only drop references, so no user stays online and no
\* entry of CloudServer stays behind because of a connection that vanished.
NoSilentDeath == \A c \in Conns : stage[c] = "dead" => c \in closed

\* Until its close is handled an open connection is found in CloudServer's
\* table: neither the idle timer nor the close of the connection that had
\* its descriptor before takes it out.  Before the acceptor's thread is through
\* with newConnection, replies to requests that are already read find no
\* connection and are lost (sendTo).
ServedUntilClosed ==
    \A c \in Conns : stage[c] = "open" /\ main.conn # c /\ c \notin closed
                        => cloud[fdOf[c]] = c

\* Until its close begins an open connection is never forgotten by epoll: it
\* is there for reading, or the main thread is still to post enablereading, or
\* the task is in the loop's queue; and for writing as long as something is in
\* its output buffer, whichever of the sends, complete or not, of the loop and
\* of other loops' tasks came last (Channel::enablereading, enablewriting).
InSetup(c) ==
    \/ main.conn = c /\ main.pc \in {"server", "timed", "post"}
    \/ \E i \in 1 .. Len(tasks) : tasks[i] = [op |-> "read", conn |-> c]
NeverForgotten ==
    \A c \in Conns : stage[c] = "open" /\ ~disconnect[c] =>
        /\ InSetup(c) \/ (inepoll[c] /\ "in" \in enabled[c])
        /\ outbuf[c] > 0 => inepoll[c] /\ "out" \in enabled[c]

\* Every request that reached the server is handled, or its peer closes.
RequestsHandled ==
    \A c \in Conns : unread[c] > 0 ~> unread[c] = 0 \/ peer[c] # "up" \/ died

\* Every report for the connection says that there is something to read, and
\* handleevent prefers reading to writing.
Starves(c) ==
    /\ []<>("in" \in revents[c])
    /\ <>[](revents[c] # {} => "in" \in revents[c])

\* What was appended to the output buffer of a connection is written, or its
\* peer closes; unless the peer sends so steadily that in the end no
\* epoll_wait returns without something to read.
RepliesWritten ==
    \A c \in Conns :
        \/ Starves(c)
        \/ outbuf[c] > 0 ~> outbuf[c] = 0 \/ peer[c] # "up" \/ died

\* A connection that is in CloudServer's table when its peer closes is in the
\* end destroyed and its descriptor free.
ClosedIsReclaimed ==
    \A c \in Conns :
        peer[c] # "up" /\ c \notin closed /\ (\E f \in Fds : cloud[f] = c)
            ~> stage[c] = "dead" \/ died

-----------------------------------------------------------------------------
(* A claim of the documentation that the code does not keep.               *)

\* README: no crash when clients come and go.
NoCrash == ~died
=============================================================================
