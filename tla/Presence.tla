------------------------------ MODULE Presence ------------------------------
(***************************************************************************)
(* What the login service promises: an account is held by at most one      *)
(* connection at a time.  Whoever logs in takes the account if nobody      *)
(* holds it; it is given back when the holder's connection closes, and all *)
(* accounts are given back when the server goes down.                      *)
(***************************************************************************)
CONSTANTS Users, Fds,
          Nobody       \* the holder of an account that is offline

VARIABLE holder        \* holder[u]: the connection that is logged in as u

Init == holder = [u \in Users |-> Nobody]

TakeAccount(u, f) == /\ holder[u] = Nobody
                     /\ holder' = [holder EXCEPT ![u] = f]

GiveBack(u) == holder' = [holder EXCEPT ![u] = Nobody]

Shutdown == holder' = [u \in Users |-> Nobody]

Next == \/ \E u \in Users : GiveBack(u) \/ \E f \in Fds : TakeAccount(u, f)
        \/ Shutdown

Spec == Init /\ [][Next]_holder
=============================================================================
