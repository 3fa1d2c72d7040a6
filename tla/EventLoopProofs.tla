-------------------------- MODULE EventLoopProofs --------------------------
(***************************************************************************)
(* Theorems about EventLoop for any number of loops and of client events.  *)
(* The inductive invariant says who owns which mutex, from the program     *)
(* counters alone; the absence of circular waits and of lost wake-ups      *)
(* follows.                                                                *)
(***************************************************************************)
EXTENDS EventLoop, SequenceTheorems, TLAPS

\* t is between lock and unlock of loop k's mutex_.
InQueue(t, k) == \/ t = k /\ pc[t] = "drain"
                 \/ pc[t] = "push" /\ target[t] = k

\* t is between lock and unlock of CloudServer::mmutex_.  The main thread
\* posts before it takes that lock, the IO threads post while holding it.
InHandler(t) == \/ pc[t] = "leave"
                \/ t # Main /\ pc[t] \in {"post", "push", "pushed"}

\* A thread that is serving an event has taken one: its task has a number.
EventTaken == \A t \in Threads :
    pc[t] \in {"handle", "post", "push", "pushed", "leave"} => events[t] > 0

\* The main loop has no tasks: only stop() ever writes its eventfd.
MainOnlyPosts == pc[Main] \notin {"woken", "drain"}

OwnersOK ==
    /\ \A t \in Threads, k \in Loops : InQueue(t, k) <=> mutex[k] = t
    /\ \A t \in Threads : InHandler(t) <=> mmutex = t

Typed == TypeOK /\ EventTaken /\ MainOnlyPosts

IInv == Typed /\ OwnersOK

-----------------------------------------------------------------------------
(* Sequences of tasks: what push and pop do to the type of a queue.        *)

LEMMA PushTyped ==
    ASSUME taskqueue \in [Loops -> Seq(Tasks)], NEW k \in Loops, NEW task \in Tasks
    PROVE  [taskqueue EXCEPT ![k] = Append(@, task)] \in [Loops -> Seq(Tasks)]
  BY AppendProperties

LEMMA PopTyped ==
    ASSUME taskqueue \in [Loops -> Seq(Tasks)], NEW k \in Loops, taskqueue[k] # << >>
    PROVE  [taskqueue EXCEPT ![k] = Tail(@)] \in [Loops -> Seq(Tasks)]
  <1>1. Tail(taskqueue[k]) \in Seq(Tasks)  BY HeadTailProperties
  <1>2. QED  BY <1>1

-----------------------------------------------------------------------------
(* The types, one step per action.                                         *)

LEMMA TypedInit == Init => Typed
  <1>1. Init => target \in [Threads -> Loops]
    <2>1. \E k \in Loops : TRUE  BY ThreadAssumption
    <2>2. (CHOOSE k \in Loops : TRUE) \in Loops  BY <2>1
    <2>3. QED  BY <2>2 DEF Init
  <1>2. Init => taskqueue \in [Loops -> Seq(Tasks)]  BY EmptySeq DEF Init
  <1>3. SUFFICES ASSUME Init PROVE Typed  OBVIOUS
  <1>4. /\ mutex \in [Loops -> Threads \cup {Free}]
        /\ wakefd \in [Loops -> Nat]
        /\ mmutex \in Threads \cup {Free}
        /\ pc \in [Threads -> PC]
        /\ events \in [Threads -> 0 .. MaxEvents]
    BY <1>3, ThreadAssumption DEF Init, PC
  <1>5. EventTaken /\ MainOnlyPosts
    BY <1>3 DEF Init, EventTaken, MainOnlyPosts, Threads
  <1>6. QED  BY <1>1, <1>2, <1>3, <1>4, <1>5 DEF Typed, TypeOK

LEMMA TypedStep == ASSUME Typed, [Next]_vars PROVE Typed'
<1> USE ThreadAssumption DEF Typed, TypeOK, EventTaken, MainOnlyPosts, PC, Goto, TakeEvent, Threads
<1>1. CASE UNCHANGED vars  BY <1>1 DEF vars
<1>2. ASSUME NEW l \in Loops, ConsumerStep(l) PROVE Typed'
  <2>1. CASE HandleWakeRead(l)    BY <2>1 DEF HandleWakeRead
  <2>2. CASE HandleWakeLock(l)    BY <2>2 DEF HandleWakeLock
  <2>3. CASE RunTask(l)
    <3>1. taskqueue' \in [Loops -> Seq(Tasks)]  BY <2>3, PopTyped DEF RunTask
    <3>2. QED  BY <2>3, <3>1 DEF RunTask
  <2>4. CASE HandleWakeUnlock(l)  BY <2>4 DEF HandleWakeUnlock
  <2>5. QED  BY <1>2, <2>1, <2>2, <2>3, <2>4 DEF ConsumerStep
<1>3. ASSUME NEW l \in Loops, HandleMessage(l) PROVE Typed'
  BY <1>3 DEF HandleMessage
<1>4. ASSUME NEW l \in Loops, NEW k \in Loops, Resend(l, k) PROVE Typed'
  BY <1>4 DEF Resend
<1>5. ASSUME NEW k \in Loops, Accept(k) PROVE Typed'
  <2>1. /\ events[Main] < MaxEvents /\ events' = [events EXCEPT ![Main] = @ + 1]
        /\ pc' = [pc EXCEPT ![Main] = "post"]
        /\ target' = [target EXCEPT ![Main] = k]
        /\ UNCHANGED <<taskqueue, mutex, wakefd, mmutex>>
    BY <1>5 DEF Accept
  <2>2. events' \in [Threads -> 0 .. MaxEvents]  BY <2>1
  <2>3. EventTaken'  BY <2>1
  <2>4. TypeOK' /\ MainOnlyPosts'  BY <2>1, <2>2
  <2>5. QED  BY <2>3, <2>4
<1>6. ASSUME NEW t \in Threads, ProducerStep(t) PROVE Typed'
  <2>1. CASE SetInQueueLock(t)  BY <2>1 DEF SetInQueueLock
  <2>2. CASE SetInQueuePush(t)
    <3>1. target[t] \in Loops /\ <<t, events[t]>> \in Tasks
      BY <2>2 DEF SetInQueuePush, Tasks
    <3>2. taskqueue' \in [Loops -> Seq(Tasks)]
      BY <2>2, <3>1, PushTyped DEF SetInQueuePush
    <3>3. QED  BY <2>2, <3>2 DEF SetInQueuePush
  <2>3. CASE WakeIO(t)   BY <2>3 DEF WakeIO
  <2>4. CASE Release(t)  BY <2>4 DEF Release
  <2>5. QED  BY <1>6, <2>1, <2>2, <2>3, <2>4 DEF ProducerStep
<1>7. CASE HandleNewConnection  BY <1>7 DEF HandleNewConnection
<1>8. CASE EpollTimeout         BY <1>8 DEF EpollTimeout, vars
<1>9. QED  BY <1>1, <1>2, <1>3, <1>4, <1>5, <1>6, <1>7, <1>8 DEF Next

-----------------------------------------------------------------------------
(* Who owns which mutex.                                                   *)

LEMMA OwnersInit == Init => OwnersOK
  <1>1. SUFFICES ASSUME Init PROVE OwnersOK  OBVIOUS
  <1>2. /\ \A t \in Threads : pc[t] = "run" /\ mmutex # t
        /\ \A t \in Threads, k \in Loops : mutex[k] # t
    BY <1>1, ThreadAssumption DEF Init, Threads
  <1>3. \A t \in Threads, k \in Loops : ~InQueue(t, k)
    BY <1>2 DEF InQueue, Threads
  <1>4. \A t \in Threads : ~InHandler(t)
    BY <1>2 DEF InHandler, Threads
  <1>5. QED  BY <1>2, <1>3, <1>4 DEF OwnersOK

LEMMA OwnersStep == ASSUME IInv, [Next]_vars PROVE OwnersOK'
<1>0. /\ pc \in [Threads -> PC] /\ target \in [Threads -> Loops]
      /\ mutex \in [Loops -> Threads \cup {Free}] /\ mmutex \in Threads \cup {Free}
      /\ OwnersOK
  BY DEF IInv, Typed, TypeOK
<1> USE <1>0, ThreadAssumption DEF OwnersOK, InQueue, InHandler, Goto, Threads
<1> HIDE DEF PC
<1>1. CASE UNCHANGED vars  BY <1>1 DEF vars
<1>2. ASSUME NEW l \in Loops, ConsumerStep(l) PROVE OwnersOK'
  <2>1. CASE HandleWakeRead(l)    BY <2>1 DEF HandleWakeRead
  <2>2. CASE HandleWakeLock(l)
    <3>1. /\ pc[l] = "woken" /\ pc' = [pc EXCEPT ![l] = "drain"]
          /\ mutex[l] = Free /\ mutex' = [mutex EXCEPT ![l] = l]
          /\ mmutex' = mmutex /\ target' = target
      BY <2>2 DEF HandleWakeLock
    <3>2. ASSUME NEW s \in Threads, NEW k \in Loops
          PROVE  InQueue(s, k)' <=> (mutex[k] = s)'
      BY <3>1
    <3>3. ASSUME NEW s \in Threads PROVE InHandler(s)' <=> (mmutex = s)'
      BY <3>1
    <3>4. QED  BY <3>2, <3>3
  <2>3. CASE RunTask(l)           BY <2>3 DEF RunTask
  <2>4. CASE HandleWakeUnlock(l)
    <3>1. /\ pc[l] = "drain" /\ pc' = [pc EXCEPT ![l] = "run"]
          /\ mutex[l] = l /\ mutex' = [mutex EXCEPT ![l] = Free]
          /\ mmutex' = mmutex /\ target' = target
      BY <2>4 DEF HandleWakeUnlock
    <3>2. ASSUME NEW s \in Threads, NEW k \in Loops
          PROVE  InQueue(s, k)' <=> (mutex[k] = s)'
      BY <3>1
    <3>3. ASSUME NEW s \in Threads PROVE InHandler(s)' <=> (mmutex = s)'
      BY <3>1
    <3>4. QED  BY <3>2, <3>3
  <2>5. QED  BY <1>2, <2>1, <2>2, <2>3, <2>4 DEF ConsumerStep
<1>3. ASSUME NEW l \in Loops, HandleMessage(l) PROVE OwnersOK'
  BY <1>3 DEF HandleMessage
<1>4. ASSUME NEW l \in Loops, NEW k \in Loops, Resend(l, k) PROVE OwnersOK'
  BY <1>4 DEF Resend
<1>5. ASSUME NEW k \in Loops, Accept(k) PROVE OwnersOK'
  <2>1. /\ pc[Main] = "run" /\ pc' = [pc EXCEPT ![Main] = "post"]
        /\ mutex' = mutex /\ mmutex' = mmutex
        /\ target' = [target EXCEPT ![Main] = k]
    BY <1>5 DEF Accept
  <2>2. ASSUME NEW s \in Threads, NEW j \in Loops
        PROVE  InQueue(s, j)' <=> (mutex[j] = s)'
    <3>1. CASE s = Main
      <4>1. ~InQueue(Main, j) /\ ~InQueue(Main, j)'  BY <2>1
      <4>2. QED  BY <2>1, <3>1, <4>1
    <3>2. CASE s # Main  BY <2>1, <3>2
    <3>3. QED  BY <3>1, <3>2
  <2>3. ASSUME NEW s \in Threads PROVE InHandler(s)' <=> (mmutex = s)'
    BY <2>1
  <2>4. QED  BY <2>2, <2>3
<1>6. ASSUME NEW t \in Threads, ProducerStep(t) PROVE OwnersOK'
  <2>1. CASE SetInQueueLock(t)
    <3>1. /\ pc[t] = "post" /\ pc' = [pc EXCEPT ![t] = "push"]
          /\ target[t] \in Loops /\ mutex[target[t]] = Free
          /\ mutex' = [mutex EXCEPT ![target[t]] = t]
          /\ mmutex' = mmutex /\ target' = target
      BY <2>1 DEF SetInQueueLock
    <3>2. ASSUME NEW s \in Threads, NEW k \in Loops
          PROVE  InQueue(s, k)' <=> (mutex[k] = s)'
      BY <3>1
    <3>3. ASSUME NEW s \in Threads PROVE InHandler(s)' <=> (mmutex = s)'
      BY <3>1
    <3>4. QED  BY <3>2, <3>3
  <2>2. CASE SetInQueuePush(t)
    <3>1. /\ target[t] \in Loops /\ mutex[target[t]] = t
          /\ pc' = [pc EXCEPT ![t] = "pushed"] /\ pc[t] = "push"
          /\ mutex' = [mutex EXCEPT ![target[t]] = Free]
          /\ mmutex' = mmutex /\ target' = target
      BY <2>2 DEF SetInQueuePush
    <3>2. ASSUME NEW s \in Threads, NEW k \in Loops
          PROVE  InQueue(s, k)' <=> (mutex[k] = s)'
      BY <3>1
    <3>3. ASSUME NEW s \in Threads PROVE InHandler(s)' <=> (mmutex = s)'
      BY <3>1
    <3>4. QED  BY <3>2, <3>3
  <2>3. CASE WakeIO(t)          BY <2>3 DEF WakeIO
  <2>4. CASE Release(t)         BY <2>4 DEF Release
  <2>5. QED  BY <1>6, <2>1, <2>2, <2>3, <2>4 DEF ProducerStep
<1>7. CASE HandleNewConnection  BY <1>7 DEF HandleNewConnection
<1>8. CASE EpollTimeout         BY <1>8 DEF EpollTimeout, vars
<1>9. QED  BY <1>1, <1>2, <1>3, <1>4, <1>5, <1>6, <1>7, <1>8 DEF Next

THEOREM Invariance == Spec => []IInv
<1>1. Init => IInv  BY TypedInit, OwnersInit DEF IInv
<1>2. IInv /\ [Next]_vars => IInv'  BY TypedStep, OwnersStep DEF IInv
<1>3. QED  BY <1>1, <1>2, PTL DEF Spec

\* EventLoop's variables keep their types: in particular every task is posted
\* to a subordinate loop, and an eventfd counter never goes below zero.
THEOREM TypeCorrectness == Spec => []TypeOK
<1>1. IInv => TypeOK  BY DEF IInv, Typed
<1>2. QED  BY <1>1, Invariance, PTL

-----------------------------------------------------------------------------
(* A thread that holds a loop's mutex_ waits for nothing; one that holds   *)
(* mmutex_ waits at most for a loop's mutex_.  Hence two steps along the   *)
(* waits-for relation always reach a thread that runs.                     *)

LEMMA QueueOwnerRuns ==
    ASSUME IInv, NEW t \in Threads, NEW u \in Threads, NEW v \in Threads,
           pc[t] \in {"woken", "post"}, BlockedOn(t, u)
    PROVE  ~BlockedOn(u, v)
  <1>1. pc[u] \in {"drain", "push"}
    BY ThreadAssumption
    DEF BlockedOn, IInv, Typed, TypeOK, MainOnlyPosts, OwnersOK, InQueue, Threads
  <1>2. QED  BY <1>1 DEF BlockedOn

LEMMA HandlerOwnerPostsAtMost ==
    ASSUME IInv, NEW t \in Threads, NEW u \in Threads, NEW v \in Threads,
           pc[t] = "handle", BlockedOn(t, u), BlockedOn(u, v)
    PROVE  pc[u] = "post"
  <1>1. pc[u] \in {"leave", "post", "push", "pushed"}
    BY DEF BlockedOn, IInv, OwnersOK, InHandler
  <1>2. QED  BY <1>1 DEF BlockedOn

LEMMA NoCircle == IInv => NoCircularWait
<1> SUFFICES ASSUME IInv, NEW S \in (SUBSET Threads) \ {{}},
                    \A t \in S : \E u \in S : BlockedOn(t, u)
             PROVE  FALSE
  BY DEF NoCircularWait
<1>1. PICK t \in S : TRUE  OBVIOUS
<1>2. PICK u \in S : BlockedOn(t, u)  OBVIOUS
<1>3. PICK v \in S : BlockedOn(u, v)  OBVIOUS
<1>4. PICK w \in S : BlockedOn(v, w)  OBVIOUS
<1>5. CASE pc[t] \in {"woken", "post"}  BY <1>2, <1>3, <1>5, QueueOwnerRuns
<1>6. CASE pc[t] = "handle"
  <2>1. pc[u] = "post"  BY <1>2, <1>3, <1>6, HandlerOwnerPostsAtMost
  <2>2. QED  BY <1>3, <1>4, <2>1, QueueOwnerRuns
<1>7. QED  BY <1>2, <1>5, <1>6 DEF BlockedOn

\* CloudServer::resend posts under mmutex_ and handlewakeIO runs tasks under
\* mutex_, yet no set of threads can be stuck waiting for each other.
THEOREM DeadlockFreedom == Spec => []NoCircularWait
  BY Invariance, NoCircle, PTL

-----------------------------------------------------------------------------
(* The wake-up.                                                            *)

LEMMA WakeupStep == ASSUME Typed, NoLostWakeup, [Next]_vars PROVE NoLostWakeup'
<1> USE ThreadAssumption
    DEF Typed, TypeOK, MainOnlyPosts, NoLostWakeup, Goto, Threads
<1>1. CASE UNCHANGED vars  BY <1>1 DEF vars
<1>2. ASSUME NEW l \in Loops, ConsumerStep(l) PROVE NoLostWakeup'
  <2>1. CASE HandleWakeRead(l)    BY <2>1 DEF HandleWakeRead
  <2>2. CASE HandleWakeLock(l)    BY <2>2 DEF HandleWakeLock
  <2>3. CASE RunTask(l)           BY <2>3 DEF RunTask
  <2>4. CASE HandleWakeUnlock(l)  BY <2>4 DEF HandleWakeUnlock
  <2>5. QED  BY <1>2, <2>1, <2>2, <2>3, <2>4 DEF ConsumerStep
<1>3. ASSUME NEW l \in Loops, HandleMessage(l) PROVE NoLostWakeup'
  BY <1>3 DEF HandleMessage
<1>4. ASSUME NEW l \in Loops, NEW k \in Loops, Resend(l, k) PROVE NoLostWakeup'
  BY <1>4 DEF Resend
<1>5. ASSUME NEW k \in Loops, Accept(k) PROVE NoLostWakeup'
  BY <1>5 DEF Accept
<1>6. ASSUME NEW t \in Threads, ProducerStep(t) PROVE NoLostWakeup'
  <2>1. CASE SetInQueueLock(t)  BY <2>1 DEF SetInQueueLock
  <2>2. CASE SetInQueuePush(t)  BY <2>2 DEF SetInQueuePush
  <2>3. CASE WakeIO(t)
    <3>1. /\ target[t] \in Loops /\ taskqueue' = taskqueue /\ target' = target
          /\ pc[t] = "pushed"
          /\ \A s \in Threads \ {t} : pc'[s] = pc[s]
          /\ wakefd'[target[t]] > 0
          /\ \A k \in Loops \ {target[t]} : wakefd'[k] = wakefd[k]
      BY <2>3 DEF WakeIO
    <3>2. ASSUME NEW k \in Loops, taskqueue'[k] # << >>, k # target[t]
          PROVE  \/ wakefd'[k] > 0
                 \/ pc'[k] \in {"woken", "drain"}
                 \/ \E s \in Threads : pc'[s] = "pushed" /\ target'[s] = k
      <4>1. CASE wakefd[k] > 0  BY <3>1, <3>2, <4>1
      <4>2. CASE pc[k] \in {"woken", "drain"}  BY <3>1, <4>2
      <4>3. CASE \E s \in Threads : pc[s] = "pushed" /\ target[s] = k
        BY <3>1, <3>2, <4>3
      <4>4. QED  BY <3>1, <3>2, <4>1, <4>2, <4>3
    <3>3. QED  BY <3>1, <3>2
  <2>4. CASE Release(t)         BY <2>4 DEF Release
  <2>5. QED  BY <1>6, <2>1, <2>2, <2>3, <2>4 DEF ProducerStep
<1>7. CASE HandleNewConnection  BY <1>7 DEF HandleNewConnection
<1>8. CASE EpollTimeout         BY <1>8 DEF EpollTimeout, vars
<1>9. QED  BY <1>1, <1>2, <1>3, <1>4, <1>5, <1>6, <1>7, <1>8 DEF Next

\* A non-empty task queue always has a wake-up on its way to its loop.
THEOREM WakeupSafety == Spec => []NoLostWakeup
<1>1. Init => NoLostWakeup  BY DEF Init, NoLostWakeup
<1>2. IInv => Typed  BY DEF IInv
<1>3. Typed /\ NoLostWakeup /\ [Next]_vars => NoLostWakeup'  BY WakeupStep
<1>4. QED  BY <1>1, <1>2, <1>3, Invariance, PTL DEF Spec

-----------------------------------------------------------------------------
(* Refinement: every step posts to one box, delivers from one, or changes  *)
(* none.                                                                   *)

LEMMA MailboxStep == ASSUME Typed, [Next]_vars PROVE [MB!Next]_taskqueue
<1> USE DEF MB!Next, MB!Post, MB!Deliver
<1>1. CASE UNCHANGED vars  BY <1>1 DEF vars
<1>2. ASSUME NEW l \in Loops, ConsumerStep(l) PROVE [MB!Next]_taskqueue
  BY <1>2 DEF ConsumerStep, HandleWakeRead, HandleWakeLock, RunTask, HandleWakeUnlock
<1>3. ASSUME NEW l \in Loops, HandleMessage(l) PROVE [MB!Next]_taskqueue
  BY <1>3 DEF HandleMessage
<1>4. ASSUME NEW l \in Loops, NEW k \in Loops, Resend(l, k) PROVE [MB!Next]_taskqueue
  BY <1>4 DEF Resend
<1>5. ASSUME NEW k \in Loops, Accept(k) PROVE [MB!Next]_taskqueue
  BY <1>5 DEF Accept
<1>6. ASSUME NEW t \in Threads, ProducerStep(t) PROVE [MB!Next]_taskqueue
  <2>1. CASE SetInQueuePush(t)
    <3>1. target[t] \in Loops /\ <<t, events[t]>> \in Tasks
      BY <2>1, ThreadAssumption
      DEF SetInQueuePush, Goto, Tasks, Typed, TypeOK, EventTaken
    <3>2. QED  BY <2>1, <3>1 DEF SetInQueuePush
  <2>2. CASE SetInQueueLock(t) \/ WakeIO(t) \/ Release(t)
    BY <2>2 DEF SetInQueueLock, WakeIO, Release
  <2>3. QED  BY <1>6, <2>1, <2>2 DEF ProducerStep
<1>7. CASE HandleNewConnection  BY <1>7 DEF HandleNewConnection
<1>8. CASE EpollTimeout         BY <1>8 DEF EpollTimeout, vars
<1>9. QED  BY <1>1, <1>2, <1>3, <1>4, <1>5, <1>6, <1>7, <1>8 DEF Next

\* The locked queue with its eventfd implements the mailbox's safety part:
\* tasks are run in the order of posting, none twice and none dropped.
THEOREM MailboxRefinement == Spec => IsMailbox
<1>1. Init => MB!Init  BY DEF Init, MB!Init
<1>2. IInv => Typed  BY DEF IInv
<1>3. Typed /\ [Next]_vars => [MB!Next]_taskqueue  BY MailboxStep
<1>4. QED  BY <1>1, <1>2, <1>3, Invariance, PTL DEF Spec, IsMailbox, MB!Spec
=============================================================================
