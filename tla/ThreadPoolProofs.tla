-------------------------- MODULE ThreadPoolProofs --------------------------
(***************************************************************************)
(* Theorems about ThreadPool for any number of workers and of loops.       *)
(***************************************************************************)
EXTENDS ThreadPool, SequenceTheorems, FiniteSetTheorems, TLAPS

\* A worker in the critical section holds the mutex, and only such a one does.
MutexOwned == \A w \in Workers :
    pc[w] \in {"test", "sleep", "take"} <=> mutex = w

\* The constructor of TcpServer has added loop k.
Added(k) == \/ owner \notin {"add", "notify"}
            \/ k < next
            \/ owner = "notify" /\ k = next

\* A loop is queued or run only once it was added ...
NothingAhead ==
    /\ \A i \in 1 .. Len(taskqueue) : Added(taskqueue[i])
    /\ \A w \in Workers : task[w] # 0 => Added(task[w])

\* ... and stands in one place only: once in the queue, or with one worker.
QueueDistinct == \A i, j \in 1 .. Len(taskqueue) :
    taskqueue[i] = taskqueue[j] => i = j

TakenOnce == \A w \in Workers : task[w] # 0 =>
    /\ \A v \in Workers : task[v] = task[w] => v = w
    /\ \A i \in 1 .. Len(taskqueue) : taskqueue[i] # task[w]

\* Whoever is about to sleep has found the queue empty, and it still is.
SleepsOnNothing == \A w \in Workers : pc[w] = "sleep" => taskqueue = << >>

IInv == /\ TypeOK /\ MutexOwned /\ NeverTakesFromEmpty
        /\ NothingAhead /\ QueueDistinct /\ TakenOnce
        /\ SleepsOnNothing /\ NoWakeupLost

-----------------------------------------------------------------------------
(* The types.                                                              *)

LEMMA PushTyped ==
    ASSUME taskqueue \in Seq(LoopIds), next \in LoopIds
    PROVE  /\ Append(taskqueue, next) \in Seq(LoopIds)
           /\ Append(taskqueue, next) # << >>
  BY AppendProperties

LEMMA PopTyped ==
    ASSUME taskqueue \in Seq(LoopIds), taskqueue # << >>
    PROVE  Head(taskqueue) \in LoopIds /\ Tail(taskqueue) \in Seq(LoopIds)
  BY HeadTailProperties

LEMMA TypedInit == Init => TypeOK
<1>1. << >> \in Seq(LoopIds) /\ 1 \in LoopIds /\ 0 \in 0 .. LoopNum
  BY PoolAssumption, EmptySeq DEF LoopIds
<1>2. QED  BY <1>1 DEF Init, TypeOK, WorkerPC, OwnerPC

LEMMA NextTyped ==
    ASSUME next \in LoopIds
    PROVE  (IF next < LoopNum THEN next + 1 ELSE 1) \in LoopIds
  BY PoolAssumption DEF LoopIds

LEMMA TypedStep == ASSUME TypeOK, [Next]_vars PROVE TypeOK'
<1> USE PoolAssumption DEF TypeOK, WorkerPC, OwnerPC, Goto, OwnerGoto
<1>1. CASE UNCHANGED vars  BY <1>1 DEF vars
<1>2. ASSUME NEW w \in Workers, WorkerStep(w) PROVE TypeOK'
  <2>1. CASE Check(w)       BY <2>1 DEF Check
  <2>2. CASE Lock(w)        BY <2>2 DEF Lock
  <2>3. CASE Test(w)        BY <2>3 DEF Test
  <2>4. CASE Sleep(w)       BY <2>4 DEF Sleep
  <2>5. CASE Take(w)
    <3>1. Head(taskqueue) \in 0 .. LoopNum /\ Tail(taskqueue) \in Seq(LoopIds)
      BY <2>5, PopTyped DEF Take, LoopIds
    <3>2. QED  BY <2>5, <3>1 DEF Take
  <2>6. CASE ExitEmpty(w)   BY <2>6 DEF ExitEmpty
  <2>7. CASE RunReturns(w)  BY <2>7 DEF RunReturns
  <2>8. QED  BY <1>2, <2>1, <2>2, <2>3, <2>4, <2>5, <2>6, <2>7 DEF WorkerStep
<1>3. ASSUME NEW w \in Workers, SpuriousWakeup(w) PROVE TypeOK'
  BY <1>3 DEF SpuriousWakeup
<1>4. CASE AddTask    BY <1>4, PushTyped DEF AddTask
<1>5. CASE NotifyOne
  <2>1. next' \in LoopIds  BY <1>5, NextTyped DEF NotifyOne
  <2>2. pc' \in [Workers -> WorkerPC]  BY <1>5 DEF NotifyOne
  <2>3. QED  BY <1>5, <2>1, <2>2 DEF NotifyOne
<1>6. CASE StopServer  BY <1>6 DEF StopServer
<1>7. CASE StopLoop
  <2>1. next' \in LoopIds  BY <1>7, NextTyped DEF StopLoop
  <2>2. QED  BY <1>7, <2>1 DEF StopLoop
<1>8. CASE SetStop    BY <1>8 DEF SetStop
<1>9. CASE NotifyAll  BY <1>9 DEF NotifyAll
<1>10. CASE Join      BY <1>10 DEF Join
<1>11. QED
  BY <1>1, <1>2, <1>3, <1>4, <1>5, <1>6, <1>7, <1>8, <1>9, <1>10
  DEF Next, Starting, Stopping

\* The pool's variables keep their types.
THEOREM TypeCorrectness == Spec => []TypeOK
  <1>1. QED  BY TypedInit, TypedStep, PTL DEF Spec

-----------------------------------------------------------------------------
(* The mutex, and what a worker finds that is past the wait.               *)

Waits == MutexOwned /\ NeverTakesFromEmpty

LEMMA WaitsInit == Init => Waits
  BY PoolAssumption DEF Init, Waits, MutexOwned, NeverTakesFromEmpty

LEMMA WaitsStep == ASSUME TypeOK, Waits, [Next]_vars PROVE Waits'
<1>0. pc \in [Workers -> WorkerPC] /\ taskqueue \in Seq(LoopIds) /\ next \in LoopIds
  BY DEF TypeOK
<1> USE <1>0, PoolAssumption DEF Waits, MutexOwned, NeverTakesFromEmpty, Goto, OwnerGoto
<1>1. CASE UNCHANGED vars  BY <1>1 DEF vars
<1>2. ASSUME NEW w \in Workers, WorkerStep(w) PROVE Waits'
  <2>1. CASE Check(w)       BY <2>1 DEF Check
  <2>2. CASE Lock(w)        BY <2>2 DEF Lock
  <2>3. CASE Test(w)        BY <2>3 DEF Test
  <2>4. CASE Sleep(w)       BY <2>4 DEF Sleep
  <2>5. CASE Take(w)        BY <2>5 DEF Take
  <2>6. CASE ExitEmpty(w)   BY <2>6 DEF ExitEmpty
  <2>7. CASE RunReturns(w)  BY <2>7 DEF RunReturns
  <2>8. QED  BY <1>2, <2>1, <2>2, <2>3, <2>4, <2>5, <2>6, <2>7 DEF WorkerStep
<1>3. ASSUME NEW w \in Workers, SpuriousWakeup(w) PROVE Waits'
  BY <1>3 DEF SpuriousWakeup
<1>4. CASE AddTask     BY <1>4, PushTyped DEF AddTask
<1>5. CASE NotifyOne   BY <1>5 DEF NotifyOne
<1>6. CASE StopServer  BY <1>6 DEF StopServer
<1>7. CASE StopLoop    BY <1>7 DEF StopLoop
<1>8. CASE SetStop     BY <1>8 DEF SetStop
<1>9. CASE NotifyAll   BY <1>9 DEF NotifyAll
<1>10. CASE Join       BY <1>10 DEF Join
<1>11. QED
  BY <1>1, <1>2, <1>3, <1>4, <1>5, <1>6, <1>7, <1>8, <1>9, <1>10
  DEF Next, Starting, Stopping

-----------------------------------------------------------------------------
(* Where the loops are.                                                    *)

Places == NothingAhead /\ QueueDistinct /\ TakenOnce

LEMMA PlacesInit == Init => Places
  BY EmptySeq DEF Init, Places, NothingAhead, QueueDistinct, TakenOnce

\* A step that neither queues nor takes, and forgets no loop that was added.
LEMMA PlacesFrame ==
    ASSUME TypeOK, Places, UNCHANGED <<taskqueue, task>>,
           \A k \in LoopIds : Added(k) => Added(k)'
    PROVE  Places'
<1>1. \A i \in 1 .. Len(taskqueue) : taskqueue[i] \in LoopIds
  BY ElementOfSeq DEF TypeOK
<1>2. \A w \in Workers : task[w] # 0 => task[w] \in LoopIds
  BY PoolAssumption DEF TypeOK, LoopIds
<1>3. NothingAhead'  BY <1>1, <1>2 DEF Places, NothingAhead
<1>4. QueueDistinct' /\ TakenOnce'  BY DEF Places, QueueDistinct, TakenOnce
<1>5. QED  BY <1>3, <1>4 DEF Places

LEMMA PlacesAddTask == ASSUME TypeOK, Places, AddTask PROVE Places'
<1> DEFINE q == taskqueue'
<1>1. /\ owner = "add" /\ owner' = "notify" /\ UNCHANGED <<task, next>>
      /\ next \in LoopIds /\ taskqueue \in Seq(LoopIds) /\ Len(taskqueue) \in Nat
  BY LenProperties DEF AddTask, OwnerGoto, TypeOK
<1>2. /\ Len(q) = Len(taskqueue) + 1
      /\ \A i \in 1 .. Len(taskqueue) : q[i] = taskqueue[i]
      /\ q[Len(taskqueue) + 1] = next
  BY <1>1, AppendProperties DEF AddTask
<1> HIDE DEF q
<1>3. \A i \in 1 .. Len(q) : (i \in 1 .. Len(taskqueue) /\ q[i] = taskqueue[i])
                              \/ (i = Len(q) /\ q[i] = next)
  BY <1>1, <1>2
<1>4. ~Added(next) /\ Added(next)' /\ \A k \in LoopIds : Added(k) => Added(k)'
  BY <1>1 DEF Added, LoopIds
<1>5. \A i \in 1 .. Len(taskqueue) : taskqueue[i] \in LoopIds /\ taskqueue[i] # next
  BY <1>1, <1>4, ElementOfSeq DEF Places, NothingAhead
<1>6. \A w \in Workers : task[w] # 0 => task[w] \in LoopIds /\ task[w] # next
  BY <1>4, PoolAssumption DEF TypeOK, LoopIds, Places, NothingAhead
<1>7. NothingAhead'
  <2>1. ASSUME NEW i \in 1 .. Len(q) PROVE Added(taskqueue[i])'
    BY <1>1, <1>3, <1>5 DEF Places, NothingAhead, Added, LoopIds, q
  <2>2. ASSUME NEW w \in Workers, task[w] # 0 PROVE Added(task[w])'
    BY <1>1, <1>6, <2>2 DEF Places, NothingAhead, Added, LoopIds
  <2>3. QED  BY <1>1, <2>1, <2>2 DEF NothingAhead, q
<1>8. QueueDistinct'
  <2>1. ASSUME NEW i \in 1 .. Len(q), NEW j \in 1 .. Len(q), q[i] = q[j] PROVE i = j
    BY <1>3, <1>5, <2>1 DEF Places, QueueDistinct
  <2>2. QED  BY <2>1 DEF QueueDistinct, q
<1>9. TakenOnce'
  <2>1. \A w \in Workers : task[w] # 0 => \A i \in 1 .. Len(q) : q[i] # task[w]
    BY <1>3, <1>6 DEF Places, TakenOnce
  <2>2. QED  BY <1>1, <2>1 DEF Places, TakenOnce, q
<1>10. QED  BY <1>7, <1>8, <1>9 DEF Places

LEMMA PlacesTake == ASSUME TypeOK, Places, NEW w \in Workers, Take(w) PROVE Places'
<1> DEFINE q == taskqueue'  k == Head(taskqueue)
<1>1. /\ taskqueue # << >> /\ taskqueue \in Seq(LoopIds)
      /\ UNCHANGED <<owner, next>>
      /\ task' = [task EXCEPT ![w] = k] /\ task \in [Workers -> 0 .. LoopNum]
  BY DEF Take, TypeOK
<1>0. Len(taskqueue) \in Nat \ {0}  BY <1>1, EmptySeq
<1>2. /\ k \in LoopIds /\ k # 0 /\ k = taskqueue[1]
      /\ Len(q) = Len(taskqueue) - 1
      /\ \A i \in 1 .. Len(q) : q[i] = taskqueue[i + 1] /\ i + 1 \in 1 .. Len(taskqueue)
  <2>1. k \in LoopIds /\ k # 0
    <3>1. k \in LoopIds  BY <1>1, PopTyped
    <3>2. QED  BY <3>1 DEF LoopIds
  <2>2. k = taskqueue[1]  BY <1>1
  <2>3. q = Tail(taskqueue)  BY DEF Take
  <2>4. /\ Len(q) = Len(taskqueue) - 1
        /\ \A i \in 1 .. Len(q) : q[i] = taskqueue[i + 1]
    BY <1>1, <2>3, HeadTailProperties
  <2>5. \A i \in 1 .. Len(q) : i + 1 \in 1 .. Len(taskqueue)  BY <1>0, <2>4
  <2>6. QED  BY <2>1, <2>2, <2>4, <2>5
<1>3. 1 \in 1 .. Len(taskqueue)  BY <1>0
<1> HIDE DEF q, k
<1>4. \A i \in 1 .. Len(q) : q[i] # k
  BY <1>1, <1>2, <1>3 DEF Places, QueueDistinct
<1>5. task'[w] = k /\ \A v \in Workers \ {w} : task'[v] = task[v] /\ task[v] # k
  BY <1>1, <1>2, <1>3 DEF Places, TakenOnce
<1>6. NothingAhead'
  <2>1. ASSUME NEW i \in 1 .. Len(q) PROVE Added(taskqueue[i])'
    BY <1>1, <1>2 DEF Places, NothingAhead, Added, q
  <2>2. ASSUME NEW v \in Workers, task'[v] # 0 PROVE Added(task[v])'
    BY <1>1, <1>2, <1>3, <1>5, <2>2 DEF Places, NothingAhead, Added
  <2>3. QED  BY <2>1, <2>2 DEF NothingAhead, q
<1>7. QueueDistinct'
  <2>1. ASSUME NEW i \in 1 .. Len(q), NEW j \in 1 .. Len(q), q[i] = q[j] PROVE i = j
    <3>1. i + 1 = j + 1  BY <1>2, <2>1 DEF Places, QueueDistinct
    <3>2. QED  BY <3>1
  <2>2. QED  BY <2>1 DEF QueueDistinct, q
<1>8. TakenOnce'
  <2>1. ASSUME NEW v \in Workers, task'[v] # 0
        PROVE  /\ \A x \in Workers : task'[x] = task'[v] => x = v
               /\ \A i \in 1 .. Len(q) : q[i] # task'[v]
    <3>1. CASE v = w  BY <1>4, <1>5, <3>1
    <3>2. CASE v # w  BY <1>2, <1>5, <2>1, <3>2 DEF Places, TakenOnce
    <3>3. QED  BY <3>1, <3>2
  <2>2. QED  BY <2>1 DEF TakenOnce, q
<1>9. QED  BY <1>6, <1>7, <1>8 DEF Places

LEMMA PlacesStep == ASSUME TypeOK, Places, [Next]_vars PROVE Places'
<1> USE DEF OwnerGoto
<1>0. ASSUME UNCHANGED <<owner, next>> PROVE \A k \in LoopIds : Added(k) => Added(k)'
  BY <1>0 DEF Added
<1>1. CASE UNCHANGED vars  BY <1>0, <1>1, PlacesFrame DEF vars
<1>2. ASSUME NEW w \in Workers, WorkerStep(w) \/ SpuriousWakeup(w) PROVE Places'
  <2>1. CASE Take(w)  BY <2>1, PlacesTake
  <2>2. CASE ~Take(w)
    <3>1. UNCHANGED <<taskqueue, task, owner, next>>
      BY <1>2, <2>2
      DEF WorkerStep, Check, Lock, Test, Sleep, ExitEmpty, RunReturns, SpuriousWakeup
    <3>2. QED  BY <1>0, <3>1, PlacesFrame
  <2>3. QED  BY <2>1, <2>2
<1>3. CASE AddTask  BY <1>3, PlacesAddTask
<1>4. CASE NotifyOne
  <2>1. \A k \in LoopIds : Added(k) => Added(k)'
    BY <1>4, PoolAssumption DEF NotifyOne, Added, TypeOK, LoopIds
  <2>2. QED  BY <1>4, <2>1, PlacesFrame DEF NotifyOne
<1>5. CASE StopServer \/ Stopping
  <2>1. owner' \notin {"add", "notify"} /\ UNCHANGED <<taskqueue, task>>
    BY <1>5 DEF StopServer, Stopping, StopLoop, SetStop, NotifyAll, Join
  <2>2. QED  BY <2>1, PlacesFrame DEF Added
<1>6. QED  BY <1>1, <1>2, <1>3, <1>4, <1>5 DEF Next, Starting

-----------------------------------------------------------------------------
(* Wake-ups.  Whoever has decided to sleep has seen an empty queue, and has  *)
(* held the mutex since, without which nothing is added.                   *)

Wakes == SleepsOnNothing /\ NoWakeupLost

LEMMA WakesInit == Init => Wakes
  BY DEF Init, Wakes, SleepsOnNothing, NoWakeupLost

\* Counting the workers on their way: one comes, one goes, or neither.
LEMMA ComingCounted ==
    ASSUME TypeOK, NEW w \in Workers, NEW t \in WorkerPC,
           pc' = [pc EXCEPT ![w] = t]
    PROVE  /\ Cardinality(Coming) \in Nat /\ Cardinality(Coming') \in Nat
           /\ w \notin Coming /\ w \in Coming' => Cardinality(Coming') = Cardinality(Coming) + 1
           /\ w \in Coming /\ w \notin Coming' => Cardinality(Coming') = Cardinality(Coming) - 1
           /\ (w \in Coming <=> w \in Coming') => Cardinality(Coming') = Cardinality(Coming)
<1>1. \A x \in Workers : x # w => (x \in Coming <=> x \in Coming')
  BY DEF TypeOK, Coming
<1>2. Coming \subseteq Workers /\ Coming' \subseteq Workers  BY DEF Coming
<1>3. IsFiniteSet(Coming) /\ IsFiniteSet(Coming')
  BY <1>2, FS_Subset, PoolAssumption
<1>4. Cardinality(Coming) \in Nat /\ Cardinality(Coming') \in Nat
  BY <1>3, FS_CardinalityType
<1>5. CASE w \notin Coming /\ w \in Coming'
  <2>1. Coming' = Coming \cup {w}  BY <1>1, <1>2, <1>5
  <2>2. QED  BY <1>3, <1>4, <1>5, <2>1, FS_AddElement
<1>6. CASE w \in Coming /\ w \notin Coming'
  <2>1. Coming' = Coming \ {w}  BY <1>1, <1>2, <1>6
  <2>2. QED  BY <1>3, <1>4, <1>6, <2>1, FS_RemoveElement
<1>7. CASE w \in Coming <=> w \in Coming'
  <2>1. Coming' = Coming  BY <1>1, <1>2, <1>7
  <2>2. QED  BY <1>4, <1>7, <2>1
<1>8. QED  BY <1>5, <1>6, <1>7

\* A worker's step that leaves the queue alone: it comes, or stays where it is,
\* or the queue is empty, or the pool stops.
LEMMA WakesFrame ==
    ASSUME TypeOK, Wakes, NEW w \in Workers, NEW t \in WorkerPC,
           pc' = [pc EXCEPT ![w] = t], UNCHANGED <<taskqueue, stop, owner>>,
           w \in Coming /\ w \notin Coming' => stop \/ taskqueue = << >>,
           pc'[w] = "sleep" => taskqueue = << >>,
           pc'[w] = "waiting" => pc[w] = "sleep"
    PROVE  Wakes'
<1>1. SleepsOnNothing'  BY DEF Wakes, SleepsOnNothing, TypeOK
<1>2. CASE stop \/ taskqueue = << >>
  <2>1. Cardinality(Coming') \in Nat  BY ComingCounted
  <2>2. NoWakeupLost'  BY <1>2, <2>1 DEF NoWakeupLost, ToBeWoken
  <2>3. QED  BY <1>1, <2>2 DEF Wakes
<1>3. CASE ~stop /\ taskqueue # << >>
  <2>0. \/ w \notin Coming /\ w \in Coming'
        \/ w \in Coming <=> w \in Coming'
    BY <1>3
  <2>1. /\ Cardinality(Coming) \in Nat /\ Cardinality(Coming') \in Nat
        /\ Cardinality(Coming') >= Cardinality(Coming)
    <3>1. /\ Cardinality(Coming) \in Nat /\ Cardinality(Coming') \in Nat
          /\ \/ Cardinality(Coming') = Cardinality(Coming) + 1
             \/ Cardinality(Coming') = Cardinality(Coming)
      BY <2>0, ComingCounted
    <3>2. QED  BY <3>1
  <2>2. \A x \in Workers : pc'[x] \in {"sleep", "waiting"} => pc[x] \in {"sleep", "waiting"}
    BY <1>3 DEF TypeOK
  <2>3. ToBeWoken' = ToBeWoken /\ ToBeWoken \in Nat  BY DEF ToBeWoken
  <2>4. Len(taskqueue) \in Nat  BY LenProperties DEF TypeOK
  <2>5. NoWakeupLost'  BY <2>1, <2>2, <2>3, <2>4 DEF Wakes, NoWakeupLost
  <2>6. QED  BY <1>1, <2>5 DEF Wakes
<1>4. QED  BY <1>2, <1>3

\* Who takes a task is one less on the way, to one task less.
LEMMA WakesTake ==
    ASSUME TypeOK, MutexOwned, Wakes, NEW w \in Workers, Take(w) PROVE Wakes'
<1>1. /\ pc[w] = "take" /\ pc' = [pc EXCEPT ![w] = "run"] /\ "run" \in WorkerPC
      /\ taskqueue # << >> /\ taskqueue' = Tail(taskqueue)
      /\ UNCHANGED <<stop, owner>>
  BY DEF Take, Goto, WorkerPC
<1>2. w \in Coming /\ w \notin Coming'  BY <1>1 DEF Coming, TypeOK
<1>3. /\ Cardinality(Coming) \in Nat /\ Cardinality(Coming') \in Nat
      /\ Cardinality(Coming') = Cardinality(Coming) - 1
  BY <1>1, <1>2, ComingCounted
<1>4. Len(taskqueue) \in Nat /\ Len(taskqueue') = Len(taskqueue) - 1
  BY <1>1, HeadTailProperties, LenProperties DEF TypeOK
<1>5. \A x \in Workers : pc'[x] \in {"sleep", "waiting"} => pc'[x] = pc[x]
  BY <1>1 DEF TypeOK
<1>6. ToBeWoken' = ToBeWoken /\ ToBeWoken \in Nat  BY <1>1 DEF ToBeWoken
<1>7. SleepsOnNothing'
  <2>1. \A x \in Workers : pc[x] # "sleep"
    BY <1>1 DEF MutexOwned
  <2>2. QED  BY <1>5, <2>1 DEF SleepsOnNothing
<1>8. NoWakeupLost'
  BY <1>1, <1>3, <1>4, <1>5, <1>6 DEF Wakes, NoWakeupLost
<1>9. QED  BY <1>7, <1>8 DEF Wakes

\* A task more, and a worker more that is to be woken.
LEMMA WakesAddTask == ASSUME TypeOK, MutexOwned, Wakes, AddTask PROVE Wakes'
<1>1. /\ mutex = Free /\ owner = "add" /\ owner' = "notify" /\ UNCHANGED <<pc, stop>>
      /\ taskqueue' = Append(taskqueue, next)
  BY DEF AddTask, OwnerGoto
<1>2. \A w \in Workers : pc[w] # "sleep"  BY <1>1, PoolAssumption DEF MutexOwned
<1>3. Len(taskqueue) \in Nat /\ Len(taskqueue') = Len(taskqueue) + 1
  BY <1>1, AppendProperties, LenProperties DEF TypeOK
<1>4. Coming' = Coming /\ ToBeWoken = 0 /\ ToBeWoken' = 1
  BY <1>1 DEF Coming, ToBeWoken
<1>5. Cardinality(Coming) \in Nat
  BY FS_Subset, FS_CardinalityType, PoolAssumption DEF Coming
<1>6. NoWakeupLost'
  BY <1>1, <1>3, <1>4, <1>5 DEF Wakes, NoWakeupLost
<1>7. QED  BY <1>1, <1>2, <1>6 DEF Wakes, SleepsOnNothing

\* The worker that was to be woken is on its way; where none waits, whoever
\* is about to sleep has seen the empty queue.
LEMMA WakesNotifyOne == ASSUME TypeOK, Wakes, NotifyOne PROVE Wakes'
<1>1. owner = "notify" /\ owner' # "notify" /\ UNCHANGED <<taskqueue, stop>>
  BY DEF NotifyOne, OwnerGoto
<1>2. ToBeWoken = 1 /\ ToBeWoken' = 0  BY <1>1 DEF ToBeWoken
<1>3. Len(taskqueue) \in Nat  BY LenProperties DEF TypeOK
<1>4. CASE \E w \in Workers : Goto(w, "waiting", "lock")
  <2>1. PICK w \in Workers : pc[w] = "waiting" /\ pc' = [pc EXCEPT ![w] = "lock"]
    BY <1>4 DEF Goto
  <2>2. w \notin Coming /\ w \in Coming'  BY <2>1 DEF Coming, TypeOK
  <2>3. /\ Cardinality(Coming) \in Nat /\ Cardinality(Coming') \in Nat
        /\ Cardinality(Coming') = Cardinality(Coming) + 1
    BY <2>1, <2>2, ComingCounted DEF WorkerPC
  <2>4. NoWakeupLost'
    BY <1>1, <1>2, <1>3, <2>1, <2>3 DEF Wakes, NoWakeupLost, TypeOK
  <2>5. SleepsOnNothing'  BY <1>1, <2>1 DEF Wakes, SleepsOnNothing, TypeOK
  <2>6. QED  BY <2>4, <2>5 DEF Wakes
<1>5. CASE (\A w \in Workers : pc[w] # "waiting") /\ UNCHANGED pc
  <2>1. Cardinality(Coming') \in Nat
    BY FS_Subset, FS_CardinalityType, PoolAssumption DEF Coming
  <2>2. SleepsOnNothing'  BY <1>1, <1>5 DEF Wakes, SleepsOnNothing
  <2>3. (\E w \in Workers : pc'[w] \in {"sleep", "waiting"}) => Len(taskqueue') = 0
    BY <1>1, <1>5 DEF Wakes, SleepsOnNothing
  <2>4. NoWakeupLost'  BY <1>2, <2>1, <2>3 DEF NoWakeupLost
  <2>5. QED  BY <2>2, <2>4 DEF Wakes
<1>6. QED  BY <1>4, <1>5 DEF NotifyOne

LEMMA WakesStep ==
    ASSUME TypeOK, MutexOwned, Wakes, [Next]_vars PROVE Wakes'
<1>1. ASSUME UNCHANGED <<taskqueue, stop, pc>>, owner # "notify", owner' # "notify"
      PROVE  Wakes'
  BY <1>1 DEF Wakes, SleepsOnNothing, NoWakeupLost, Coming, ToBeWoken
<1>2. CASE UNCHANGED vars
  BY <1>2 DEF vars, Wakes, SleepsOnNothing, NoWakeupLost, Coming, ToBeWoken
<1>3. ASSUME NEW w \in Workers, WorkerStep(w) \/ SpuriousWakeup(w) PROVE Wakes'
  <2>1. CASE Take(w)  BY <2>1, WakesTake
  <2>2. CASE ~Take(w)
    <3>1. PICK t \in WorkerPC : pc' = [pc EXCEPT ![w] = t]
      BY <1>3, <2>2 DEF WorkerStep, Check, Lock, Test, Sleep, ExitEmpty, RunReturns,
                        SpuriousWakeup, Goto, WorkerPC
    <3>2. UNCHANGED <<taskqueue, stop, owner>>
      BY <1>3, <2>2 DEF WorkerStep, Check, Lock, Test, Sleep, ExitEmpty, RunReturns,
                        SpuriousWakeup
    <3>3. /\ w \in Coming /\ w \notin Coming' => stop \/ taskqueue = << >>
          /\ pc'[w] = "sleep" => taskqueue = << >>
          /\ pc'[w] = "waiting" => pc[w] = "sleep"
      BY <1>3, <2>2 DEF WorkerStep, Check, Lock, Test, Sleep, ExitEmpty, RunReturns,
                        SpuriousWakeup, Goto, TypeOK, Coming
    <3>4. QED  BY <3>1, <3>2, <3>3, WakesFrame
  <2>3. QED  BY <2>1, <2>2
<1>4. CASE AddTask    BY <1>4, WakesAddTask
<1>5. CASE NotifyOne  BY <1>5, WakesNotifyOne
<1>6. CASE StopServer \/ StopLoop \/ Join
  BY <1>1, <1>6 DEF StopServer, StopLoop, Join, OwnerGoto
<1>7. CASE SetStop \/ NotifyAll
  <2>1. stop' \/ \A w \in Workers : pc'[w] # "waiting"
    BY <1>7 DEF SetStop, NotifyAll
  <2>2. taskqueue' = taskqueue /\ \A w \in Workers : pc'[w] = "sleep" => pc[w] = "sleep"
    BY <1>7 DEF SetStop, NotifyAll
  <2>3. SleepsOnNothing'  BY <2>2 DEF Wakes, SleepsOnNothing
  <2>4. Cardinality(Coming') \in Nat
    BY FS_Subset, FS_CardinalityType, PoolAssumption DEF Coming
  <2>5. ToBeWoken' \in Nat  BY DEF ToBeWoken
  <2>6. ASSUME ~stop', NEW w \in Workers, pc'[w] \in {"sleep", "waiting"}
        PROVE  Len(taskqueue') = 0
    BY <2>1, <2>3, <2>6 DEF SleepsOnNothing
  <2>7. NoWakeupLost'  BY <2>4, <2>5, <2>6 DEF NoWakeupLost
  <2>8. QED  BY <2>3, <2>7 DEF Wakes
<1>8. QED  BY <1>2, <1>3, <1>4, <1>5, <1>6, <1>7 DEF Next, Starting, Stopping

-----------------------------------------------------------------------------
\* The strengthening: who holds the mutex, in which one place, the queue or a
\* worker, each loop is that the constructor has added, and who sleeps.
THEOREM Invariance == Spec => []IInv
  <1>1. Init => TypeOK /\ Waits /\ Places /\ Wakes
    BY TypedInit, WaitsInit, PlacesInit, WakesInit
  <1>2. TypeOK /\ Waits /\ Places /\ Wakes /\ [Next]_vars
           => (TypeOK /\ Waits /\ Places /\ Wakes)'
    BY TypedStep, WaitsStep, PlacesStep, WakesStep DEF Waits
  <1>3. TypeOK /\ Waits /\ Places /\ Wakes => IInv  BY DEF IInv, Waits, Places, Wakes
  <1>4. QED  BY <1>1, <1>2, <1>3, PTL DEF Spec

\* taskqueue_.front() is never called on an empty queue (ThreadPool.cpp).
THEOREM TakesSafely == Spec => []NeverTakesFromEmpty
  <1>1. IInv => NeverTakesFromEmpty  BY DEF IInv
  <1>2. QED  BY <1>1, Invariance, PTL

\* No wake-up of addtask is lost, for any number of workers and of tasks: the
\* safety half of EveryLoopRuns (ThreadPool.cpp).
THEOREM WakeupsSuffice == Spec => []NoWakeupLost
  <1>1. IInv => NoWakeupLost  BY DEF IInv
  <1>2. QED  BY <1>1, Invariance, PTL

\* No event loop is run by two threads, nor queued again (TcpServer.cpp).
THEOREM LoopIsOwned == Spec => []OneThreadPerLoop
  <1>1. IInv => OneThreadPerLoop
    <2>1. SUFFICES ASSUME IInv, NEW k \in LoopIds
                   PROVE  /\ \A v, w \in Workers : task[v] = k /\ task[w] = k => v = w
                          /\ \A w \in Workers : task[w] = k => ~Contains(taskqueue, k)
      BY DEF OneThreadPerLoop
    <2>2. k # 0  BY DEF LoopIds
    <2>3. QED  BY <2>1, <2>2 DEF IInv, TakenOnce, Contains
  <1>2. QED  BY <1>1, Invariance, PTL
=============================================================================
