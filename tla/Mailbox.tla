------------------------------ MODULE Mailbox ------------------------------
(***************************************************************************)
(* What EventLoop::setinqueue promises to its callers: every loop owns a   *)
(* box; a task posted to a box by any thread is run by the loop that owns  *)
(* it, exactly once, in the order of posting, and it is run eventually.    *)
(* Nothing is said here of locks, of eventfds or of epoll.                 *)
(***************************************************************************)
EXTENDS Sequences

CONSTANTS Owners,   \* the event loops
          Tasks     \* what may be posted

VARIABLE box        \* box[k]: the tasks posted to loop k and not yet run

Init == box = [k \in Owners |-> << >>]

Post(k, task) == box' = [box EXCEPT ![k] = Append(@, task)]

Deliver(k) == /\ box[k] # << >>
              /\ box' = [box EXCEPT ![k] = Tail(@)]

Next == \E k \in Owners : Deliver(k) \/ \E task \in Tasks : Post(k, task)

Spec == Init /\ [][Next]_box

FairSpec == Spec /\ \A k \in Owners : WF_box(Deliver(k))
=============================================================================
