----------------------------- MODULE EventLoop -----------------------------
(***************************************************************************)
(* How threads hand work to each other: the cross-thread task queue of     *)
(* framework/EventLoop.cpp (setinqueue, wakeIO, handlewakeIO) and the two  *)
(* kinds of caller that post to it while other locks are about:            *)
(*   - TcpServer::newConnection on the main thread, which posts            *)
(*     Channel::enablereading and then runs CloudServer's new-connection   *)
(*     handler under CloudServer::mmutex_;                                 *)
(*   - CloudServer::sendTo/resend on an IO thread, which call              *)
(*     Connection::sendto_ob, hence setinqueue, while HOLDING              *)
(*     CloudServer::mmutex_.                                               *)
(* handlewakeIO in turn runs the tasks while holding the loop's mutex_.    *)
(* Every lock operation, the eventfd write and the eventfd read are steps  *)
(* of their own.  The locks that are always innermost (TcpServer::mmtex_,  *)
(* EventLoop::mmutex_, DB::mutex_) nest nothing and are left out.          *)
(***************************************************************************)
EXTENDS Naturals, Sequences

CONSTANTS Loops,      \* the subordinate event loops, one IO thread each
          Main,       \* the main thread (the accepting loop)
          Free,       \* the owner of an unlocked mutex
          MaxEvents   \* bound: client events each thread handles

Threads == Loops \cup {Main}

ASSUME ThreadAssumption ==
    /\ Loops # {}
    /\ Main \notin Loops
    /\ Free \notin Loops \cup {Main}
    /\ MaxEvents \in Nat

VARIABLES taskqueue,  \* EventLoop::taskqueue_ of each loop
          mutex,      \* EventLoop::mutex_ of each loop: its owner or Free
          wakefd,     \* the counter of each loop's eventfd
          mmutex,     \* CloudServer::mmutex_: its owner or Free
          pc,         \* what each thread is about to do
          target,     \* the loop a thread is posting to
          events      \* how many client events each thread has taken

vars == <<taskqueue, mutex, wakefd, mmutex, pc, target, events>>

(***************************************************************************)
(* The program counter.                                                    *)
(*   run     in EventLoop::run, about to take the next ready channel       *)
(*   woken   the eventfd is read; about to lock the loop's own mutex_      *)
(*   drain   inside handlewakeIO, holding the loop's own mutex_            *)
(*   handle  in a CloudServer handler, about to lock mmutex_               *)
(*   post    in setinqueue, about to lock the target's mutex_              *)
(*   push    in setinqueue, holding the target's mutex_                    *)
(*   pushed  the task is queued and the lock released; about to wakeIO     *)
(*   leave   holding mmutex_, about to release it                          *)
(***************************************************************************)
PC == {"run", "woken", "drain", "handle", "post", "push", "pushed", "leave"}

Tasks == Threads \X (1 .. MaxEvents)   \* the task of a thread's n-th event

Goto(t, from, to) == /\ pc[t] = from
                     /\ pc' = [pc EXCEPT ![t] = to]

Init ==
    /\ taskqueue = [k \in Loops |-> << >>]
    /\ mutex = [k \in Loops |-> Free]
    /\ wakefd = [k \in Loops |-> 0]
    /\ mmutex = Free
    /\ pc = [t \in Threads |-> "run"]
    /\ target = [t \in Threads |-> CHOOSE k \in Loops : TRUE]  \* not yet read
    /\ events = [t \in Threads |-> 0]

-----------------------------------------------------------------------------
(* Mutants: plausible mistakes in the code, each caught by a property.     *)

\* while(taskqueue_.size()>0) written as if(...): one task for each wake-up.
UnlockAfterOneTask(l) ==
    /\ Goto(l, "drain", "run")
    /\ mutex' = [mutex EXCEPT ![l] = Free]
    /\ UNCHANGED <<taskqueue, wakefd, mmutex, target, events>>

\* A task that replies through CloudServer::sendTo while handlewakeIO still
\* holds the loop's mutex_.
RunTaskThatReplies(l) ==
    /\ taskqueue[l] # << >>
    /\ taskqueue' = [taskqueue EXCEPT ![l] = Tail(@)]
    /\ Goto(l, "drain", "handle")
    /\ UNCHANGED <<mutex, wakefd, mmutex, target, events>>

\* An "optimised" wakeIO: a loop that is busy needs no wake-up.
WakeOnlyIdleLoop(t) ==
    /\ Goto(t, "pushed", IF t = Main THEN "handle" ELSE "leave")
    /\ wakefd' = [wakefd EXCEPT ![target[t]] = IF pc[target[t]] = "run" THEN @ + 1 ELSE @]
    /\ UNCHANGED <<taskqueue, mutex, mmutex, target, events>>

-----------------------------------------------------------------------------
(* The consumer: the IO thread of loop l in handlewakeIO.                  *)

\* epoll reports the eventfd; its counter is read (and so reset) FIRST.
HandleWakeRead(l) ==
    /\ wakefd[l] > 0
    /\ Goto(l, "run", "woken")
    /\ wakefd' = [wakefd EXCEPT ![l] = 0]
    /\ UNCHANGED <<taskqueue, mutex, mmutex, target, events>>

HandleWakeLock(l) ==
    /\ mutex[l] = Free
    /\ Goto(l, "woken", "drain")
    /\ mutex' = [mutex EXCEPT ![l] = l]
    /\ UNCHANGED <<taskqueue, wakefd, mmutex, target, events>>

\* tmp = move(front); pop; tmp().  The tasks posted in this program
\* (Channel::enablereading, Connection::sendinloop) take no lock.
RunTask(l) ==
    /\ pc[l] = "drain"
    /\ taskqueue[l] # << >>
    /\ taskqueue' = [taskqueue EXCEPT ![l] = Tail(@)]
    /\ UNCHANGED <<mutex, wakefd, mmutex, pc, target, events>>

\* while(taskqueue_.size()>0) is over: the lock_guard goes out of scope.
HandleWakeUnlock(l) ==
    /\ taskqueue[l] = << >>
    /\ Goto(l, "drain", "run")
    /\ mutex' = [mutex EXCEPT ![l] = Free]
    /\ UNCHANGED <<taskqueue, wakefd, mmutex, target, events>>

-----------------------------------------------------------------------------
(* The producers.                                                          *)

TakeEvent(t) == /\ events[t] < MaxEvents
                /\ events' = [events EXCEPT ![t] = @ + 1]

\* A client's request is read on loop l and its handler starts.
HandleMessage(l) ==
    /\ TakeEvent(l)
    /\ Goto(l, "run", "handle")
    /\ UNCHANGED <<taskqueue, mutex, wakefd, mmutex, target>>

\* sendTo/resend: lock mmutex_, find the receiver's connection, sendto_ob.
\* Its loop is k; if that is the running loop (isinloop), or there is no
\* such connection (the same to this model), nothing is posted.
Resend(l, k) ==
    /\ mmutex = Free
    /\ mmutex' = l
    /\ Goto(l, "handle", IF k = l THEN "leave" ELSE "post")
    /\ target' = [target EXCEPT ![l] = k]
    /\ UNCHANGED <<taskqueue, mutex, wakefd, events>>

\* TcpServer::newConnection for a descriptor that belongs to loop k.
Accept(k) ==
    /\ TakeEvent(Main)
    /\ Goto(Main, "run", "post")
    /\ target' = [target EXCEPT ![Main] = k]
    /\ UNCHANGED <<taskqueue, mutex, wakefd, mmutex>>

SetInQueueLock(t) ==
    /\ mutex[target[t]] = Free
    /\ Goto(t, "post", "push")
    /\ mutex' = [mutex EXCEPT ![target[t]] = t]
    /\ UNCHANGED <<taskqueue, wakefd, mmutex, target, events>>

SetInQueuePush(t) ==
    /\ Goto(t, "push", "pushed")
    /\ taskqueue' = [taskqueue EXCEPT ![target[t]] = Append(@, <<t, events[t]>>)]
    /\ mutex' = [mutex EXCEPT ![target[t]] = Free]
    /\ UNCHANGED <<wakefd, mmutex, target, events>>

\* write(wakefd_, 1), then back to the caller: newConnection goes on to the
\* new-connection callback, sendTo/resend to the end of their lock scope.
WakeIO(t) ==
    /\ Goto(t, "pushed", IF t = Main THEN "handle" ELSE "leave")
    /\ wakefd' = [wakefd EXCEPT ![target[t]] = @ + 1]
    /\ UNCHANGED <<taskqueue, mutex, mmutex, target, events>>

\* CloudServer::handleNewConnection: lock mmutex_, conns_[fd] = conn.
HandleNewConnection ==
    /\ mmutex = Free
    /\ mmutex' = Main
    /\ Goto(Main, "handle", "leave")
    /\ UNCHANGED <<taskqueue, mutex, wakefd, target, events>>

\* The lock_guard on mmutex_ goes out of scope.
Release(t) ==
    /\ Goto(t, "leave", "run")
    /\ mmutex' = Free
    /\ UNCHANGED <<taskqueue, mutex, wakefd, target, events>>

\* epoll_wait gives up after 10 s on every loop: the timeout callback is empty.
EpollTimeout ==
    /\ \A t \in Threads : pc[t] = "run"
    /\ \A k \in Loops : wakefd[k] = 0
    /\ UNCHANGED vars

ConsumerStep(l) == \/ HandleWakeRead(l) \/ HandleWakeLock(l)
                   \/ RunTask(l)        \/ HandleWakeUnlock(l)

ProducerStep(t) == SetInQueueLock(t) \/ SetInQueuePush(t) \/ WakeIO(t) \/ Release(t)

Next == \/ \E l \in Loops : ConsumerStep(l) \/ HandleMessage(l)
        \/ \E l, k \in Loops : Resend(l, k)
        \/ \E k \in Loops : Accept(k)
        \/ \E t \in Threads : ProducerStep(t)
        \/ HandleNewConnection
        \/ EpollTimeout

Spec == Init /\ [][Next]_vars

(***************************************************************************)
(* A running thread runs on, and a mutex that stays free is obtained.      *)
(* Weak fairness is all that is asked: nothing is assumed of the mutexes'  *)
(* queues, and nothing makes a client send.                                *)
(***************************************************************************)
FairSpec ==
    /\ Spec
    /\ \A l \in Loops : WF_vars(ConsumerStep(l)) /\ WF_vars(\E k \in Loops : Resend(l, k))
    /\ \A t \in Threads : WF_vars(ProducerStep(t))
    /\ WF_vars(HandleNewConnection)

-----------------------------------------------------------------------------
\* Type invariant.
TypeOK ==
    /\ taskqueue \in [Loops -> Seq(Tasks)]
    /\ mutex \in [Loops -> Threads \cup {Free}]
    /\ wakefd \in [Loops -> Nat]
    /\ mmutex \in Threads \cup {Free}
    /\ pc \in [Threads -> PC]
    /\ target \in [Threads -> Loops]
    /\ events \in [Threads -> 0 .. MaxEvents]

\* A queued task is never forgotten: while a loop's queue is not empty, its
\* eventfd is readable, or the loop is on its way to the queue, or the thread
\* that queued the task is about to write the eventfd.  This is what reading
\* the eventfd before draining, and writing it after queueing, are for.
NoLostWakeup ==
    \A k \in Loops : taskqueue[k] # << >> =>
        \/ wakefd[k] > 0
        \/ pc[k] \in {"woken", "drain"}
        \/ \E t \in Threads : pc[t] = "pushed" /\ target[t] = k

BlockedOn(t, u) ==
    \/ pc[t] = "woken" /\ mutex[t] = u
    \/ pc[t] = "post" /\ mutex[target[t]] = u
    \/ pc[t] = "handle" /\ mmutex = u

\* No deadlock among the locks: in every group of threads somebody does not
\* wait for a lock held inside the group (a group of one is a thread waiting
\* for itself).  resend takes a loop's mutex_ under mmutex_; handlewakeIO runs
\* tasks under mutex_; the property is that the two never close a circle.
NoCircularWait ==
    \A S \in (SUBSET Threads) \ {{}} :
        \E t \in S : \A u \in S : ~BlockedOn(t, u)

\* The queue implements the mailbox: tasks are run in the order of posting,
\* none twice, none dropped, and (under FairSpec) each of them eventually.
MB == INSTANCE Mailbox WITH Owners <- Loops, box <- taskqueue
IsMailbox == MB!Spec
IsFairMailbox == MB!FairSpec
=============================================================================
