----------------------------- MODULE Friendship -----------------------------
(***************************************************************************)
(* What the friends service promises: two users become friends when one    *)
(* has asked and the other agrees ("confirmed by both"), and stop being    *)
(* friends only when one of the two wants to.  Questions and wishes may    *)
(* get lost on their way.                                                  *)
(***************************************************************************)
CONSTANT Users

VARIABLES friends,   \* pairs {u, v}
          asked,     \* <<u, v>>: u has asked v, who has not refused
          parting    \* <<u, v>>: u wants v no more

Init == friends \subseteq {{u, v} : u, v \in Users} /\ asked = {} /\ parting = {}

Ask(u, v) == asked' = asked \cup {<<u, v>>} /\ UNCHANGED <<friends, parting>>

\* v agrees to u's question, which may have been put more than once.
Befriend(u, v) == /\ <<u, v>> \in asked
                  /\ friends' = friends \cup {{u, v}}
                  /\ asked' \in {asked, asked \ {<<u, v>>}}
                  /\ UNCHANGED parting

Wish(u, v) == parting' = parting \cup {<<u, v>>} /\ UNCHANGED <<friends, asked>>

Part(u, v) == /\ <<u, v>> \in parting
              /\ friends' = friends \ {{u, v}}
              /\ parting' \in {parting, parting \ {<<u, v>>}}
              /\ UNCHANGED asked

Lose == /\ asked' \subseteq asked
        /\ parting' \subseteq parting
        /\ UNCHANGED friends

Next == \/ Lose
        \/ \E u, v \in Users : Ask(u, v) \/ Befriend(u, v) \/ Wish(u, v) \/ Part(u, v)

Spec == Init /\ [][Next]_<<friends, asked, parting>>
=============================================================================
