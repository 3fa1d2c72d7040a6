----------------------------- MODULE ThreadPool -----------------------------
(***************************************************************************)
(* The thread pool (framework/ThreadPool.cpp) as TcpServer uses it: the    *)
(* constructor adds one task per subordinate loop, EventLoop::run, to a    *)
(* pool with as many workers, and TcpServer::stop tells every loop to stop *)
(* and then stops and joins the pool.                                      *)
(*                                                                         *)
(* A worker that waits on the condition variable tests the predicate with  *)
(* the mutex held and then releases the mutex and goes to sleep in one     *)
(* step.  stop_ is an atomic that stop() writes without the mutex.         *)
(***************************************************************************)
EXTENDS Naturals, Sequences, FiniteSets, SequencesExt

CONSTANTS Workers,   \* the pool's threads
          LoopNum,   \* TcpServer::threadNum_: the loops to run, one task each
          Free       \* the owner of the unlocked mutex

ASSUME PoolAssumption ==
    /\ IsFiniteSet(Workers)
    /\ Free \notin Workers
    /\ LoopNum \in Nat \ {0}

VARIABLES taskqueue,  \* ThreadPool::taskqueue_: the numbers of the loops
          mutex,      \* ThreadPool::mutex_: its owner or Free
          stop,       \* ThreadPool::stop_
          loopstop,   \* EventLoop::stop_ of each loop
          pc,         \* what each worker is about to do
          task,       \* the loop a worker took, 0 before the first
          owner,      \* what the thread that owns the server is about to do
          next        \* the loop it has come to

vars == <<taskqueue, mutex, stop, loopstop, pc, task, owner, next>>

LoopIds == 1 .. LoopNum

(***************************************************************************)
(* Worker: check (the while), lock, test (the predicate of wait, mutex     *)
(* held), sleep (about to block, mutex held), waiting (in the condition    *)
(* variable), take (past wait, mutex held), run (inside the task), exited. *)
(* Owner: add and notify (addtask), serve, loops (stopping the loops),     *)
(* pool, wake and join (ThreadPool::stop), done.                           *)
(***************************************************************************)
WorkerPC == {"check", "lock", "test", "sleep", "waiting", "take", "run", "exited"}
OwnerPC == {"add", "notify", "serve", "loops", "pool", "wake", "join", "done"}

Goto(w, from, to) == pc[w] = from /\ pc' = [pc EXCEPT ![w] = to]
OwnerGoto(from, to) == owner = from /\ owner' = to

Init ==
    /\ taskqueue = << >>
    /\ mutex = Free
    /\ stop = FALSE
    /\ loopstop = [k \in LoopIds |-> FALSE]
    /\ pc = [w \in Workers |-> "check"]
    /\ task = [w \in Workers |-> 0]
    /\ owner = "add"
    /\ next = 1

-----------------------------------------------------------------------------
(* The worker.                                                             *)

\* while(stop_==false)
Check(w) ==
    /\ Goto(w, "check", IF stop THEN "exited" ELSE "lock")
    /\ UNCHANGED <<taskqueue, mutex, stop, loopstop, task, owner, next>>

Lock(w) ==
    /\ mutex = Free
    /\ mutex' = w
    /\ Goto(w, "lock", "test")
    /\ UNCHANGED <<taskqueue, stop, loopstop, task, owner, next>>

\* The predicate of condition_.wait.
Test(w) ==
    /\ Goto(w, "test", IF stop \/ taskqueue # << >> THEN "take" ELSE "sleep")
    /\ UNCHANGED <<taskqueue, mutex, stop, loopstop, task, owner, next>>

Sleep(w) ==
    /\ Goto(w, "sleep", "waiting")
    /\ mutex' = Free
    /\ UNCHANGED <<taskqueue, stop, loopstop, task, owner, next>>

\* Mutant: condition_.wait(lock) without the predicate.
WakeWithoutTest(w) ==
    /\ mutex = Free
    /\ mutex' = w
    /\ Goto(w, "waiting", "take")
    /\ UNCHANGED <<taskqueue, stop, loopstop, task, owner, next>>

\* A condition variable may wake a thread for no reason.  Like a notified one
\* it takes the mutex again and tests the predicate again.
SpuriousWakeup(w) ==
    /\ Goto(w, "waiting", "lock")
    /\ UNCHANGED <<taskqueue, mutex, stop, loopstop, task, owner, next>>

\* Mutant: task=front() without pop().
TakeWithoutPop(w) ==
    /\ taskqueue # << >>
    /\ Goto(w, "take", "run")
    /\ task' = [task EXCEPT ![w] = Head(taskqueue)]
    /\ mutex' = Free
    /\ UNCHANGED <<taskqueue, stop, loopstop, owner, next>>

\* task=move(front); pop.  Nothing is popped once the pool stops with an
\* empty queue.
Take(w) ==
    /\ taskqueue # << >>
    /\ Goto(w, "take", "run")
    /\ task' = [task EXCEPT ![w] = Head(taskqueue)]
    /\ taskqueue' = Tail(taskqueue)
    /\ mutex' = Free
    /\ UNCHANGED <<stop, loopstop, owner, next>>

ExitEmpty(w) ==
    /\ taskqueue = << >>
    /\ stop
    /\ Goto(w, "take", "exited")
    /\ mutex' = Free
    /\ UNCHANGED <<taskqueue, stop, loopstop, task, owner, next>>

\* task() returns: EventLoop::run sees its stop_.  stop() woke its epoll_wait.
RunReturns(w) ==
    /\ Goto(w, "run", "check")
    /\ loopstop[task[w]]
    /\ UNCHANGED <<taskqueue, mutex, stop, loopstop, task, owner, next>>

-----------------------------------------------------------------------------
(* The owner.                                                              *)

\* Mutant: the push without the mutex.
AddTaskUnlocked ==
    /\ OwnerGoto("add", "notify")
    /\ taskqueue' = Append(taskqueue, next)
    /\ UNCHANGED <<mutex, stop, loopstop, pc, task, next>>

\* addtask: push under the mutex, which is held for no other step ...
AddTask ==
    /\ mutex = Free
    /\ OwnerGoto("add", "notify")
    /\ taskqueue' = Append(taskqueue, next)
    /\ UNCHANGED <<mutex, stop, loopstop, pc, task, next>>

\* Mutant: addtask wakes nobody.
NotifyNobody ==
    /\ OwnerGoto("notify", IF next < LoopNum THEN "add" ELSE "serve")
    /\ next' = IF next < LoopNum THEN next + 1 ELSE 1
    /\ UNCHANGED <<taskqueue, mutex, stop, loopstop, pc, task>>

\* ... and notify_one: some waiting worker, if there is one, is woken.
NotifyOne ==
    /\ OwnerGoto("notify", IF next < LoopNum THEN "add" ELSE "serve")
    /\ next' = IF next < LoopNum THEN next + 1 ELSE 1
    /\ \/ \E w \in Workers : Goto(w, "waiting", "lock")
       \/ (\A w \in Workers : pc[w] # "waiting") /\ UNCHANGED pc
    /\ UNCHANGED <<taskqueue, mutex, stop, loopstop, task>>

\* SIGTERM: TcpServer::stop begins.
StopServer ==
    /\ OwnerGoto("serve", "loops")
    /\ UNCHANGED <<taskqueue, mutex, stop, loopstop, pc, task, next>>

\* subloop_[i]->stop()
StopLoop ==
    /\ OwnerGoto("loops", IF next < LoopNum THEN "loops" ELSE "pool")
    /\ loopstop' = [loopstop EXCEPT ![next] = TRUE]
    /\ next' = IF next < LoopNum THEN next + 1 ELSE 1
    /\ UNCHANGED <<taskqueue, mutex, stop, pc, task>>

\* threadpool_.stop(): the flag, without the mutex ...
SetStop ==
    /\ OwnerGoto("pool", "wake")
    /\ stop' = TRUE
    /\ UNCHANGED <<taskqueue, mutex, loopstop, pc, task, next>>

\* Mutant: notify_one.
NotifyOneOfAll ==
    /\ OwnerGoto("wake", "join")
    /\ \/ \E w \in Workers : Goto(w, "waiting", "lock")
       \/ (\A w \in Workers : pc[w] # "waiting") /\ UNCHANGED pc
    /\ UNCHANGED <<taskqueue, mutex, stop, loopstop, task, next>>

\* ... notify_all ...
NotifyAll ==
    /\ OwnerGoto("wake", "join")
    /\ pc' = [w \in Workers |-> IF pc[w] = "waiting" THEN "lock" ELSE pc[w]]
    /\ UNCHANGED <<taskqueue, mutex, stop, loopstop, task, next>>

\* ... and join, thread by thread.
Join ==
    /\ OwnerGoto("join", "done")
    /\ \A w \in Workers : pc[w] = "exited"
    /\ UNCHANGED <<taskqueue, mutex, stop, loopstop, pc, task, next>>

WorkerStep(w) == \/ Check(w) \/ Lock(w) \/ Test(w) \/ Sleep(w)
                 \/ Take(w) \/ ExitEmpty(w) \/ RunReturns(w)

Starting == AddTask \/ NotifyOne
Stopping == StopLoop \/ SetStop \/ NotifyAll \/ Join

Next == \/ \E w \in Workers : WorkerStep(w) \/ SpuriousWakeup(w)
        \/ Starting
        \/ StopServer
        \/ Stopping

Spec == Init /\ [][Next]_vars

(***************************************************************************)
(* Threads run on; a mutex that is free again and again is obtained (each  *)
(* holder keeps it for three steps); nobody need ever stop the server and  *)
(* no spurious wake-up need ever come.                                     *)
(***************************************************************************)
FairSpec ==
    /\ Spec
    /\ \A w \in Workers : SF_vars(WorkerStep(w))
    /\ SF_vars(Starting)
    /\ WF_vars(Stopping)

-----------------------------------------------------------------------------
\* Type invariant.
TypeOK ==
    /\ taskqueue \in Seq(LoopIds)
    /\ mutex \in Workers \cup {Free}
    /\ stop \in BOOLEAN
    /\ loopstop \in [LoopIds -> BOOLEAN]
    /\ pc \in [Workers -> WorkerPC]
    /\ task \in [Workers -> 0 .. LoopNum]
    /\ owner \in OwnerPC
    /\ next \in LoopIds

\* A worker past the wait finds a task or a stopped pool: the front of an
\* empty queue is never taken, however wake-ups, spurious or stolen, fall.
NeverTakesFromEmpty ==
    \A w \in Workers : pc[w] = "take" => stop \/ taskqueue # << >>

\* An event loop belongs to one thread: no loop is ever run by two workers,
\* nor queued again once it runs.  Connection::sendto_ob's isinloop test and
\* every "own thread only" structure of EventLoop rest on it.
OneThreadPerLoop ==
    \A k \in LoopIds :
        /\ \A v, w \in Workers : task[v] = k /\ task[w] = k => v = w
        /\ \A w \in Workers : task[w] = k => ~Contains(taskqueue, k)

\* No wake-up is lost: unless the pool stops, nobody sleeps on the condition
\* variable, or is about to, while more tasks are queued than there are workers
\* on their way to the queue, the one counted that the next notify_one wakes.
\* addtask notifies after the mutex is released, and a worker that decides to
\* sleep holds it (ThreadPool.cpp).
Coming == {w \in Workers : pc[w] \in {"check", "lock", "test", "take"}}
ToBeWoken == IF owner = "notify" THEN 1 ELSE 0
NoWakeupLost ==
    ~stop /\ (\E w \in Workers : pc[w] \in {"sleep", "waiting"}) =>
        Len(taskqueue) <= Cardinality(Coming) + ToBeWoken

\* Every loop that was added is run in the end, unless the pool is stopped.
EveryLoopRuns ==
    \A k \in LoopIds : Contains(taskqueue, k) ~> (\E w \in Workers : task[w] = k) \/ stop

\* ThreadPool::stop, "they must be woken": every worker is woken, exits and is
\* joined, so that stop returns; unless one of them has tested the predicate
\* before stop_ was set and does not sleep yet when notify_all comes, which
\* stop, that does not take the mutex, cannot exclude.
StopReturns ==
    owner = "wake" /\ (\A w \in Workers : pc[w] # "sleep") ~> owner = "done"
=============================================================================
