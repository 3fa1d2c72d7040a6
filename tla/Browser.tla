------------------------------ MODULE Browser ------------------------------
(***************************************************************************)
(* What a file window promises: its user stands in a directory that        *)
(* exists, goes down to a directory that is there or up to the one above,  *)
(* and whatever becomes of the tree leaves the ground under his feet.      *)
(***************************************************************************)
EXTENDS Sequences, SequencesExt

CONSTANT Home

VARIABLES dirs, at

Init == at = Home /\ Home \in dirs

Down == \E d \in dirs : Len(d) > 1 /\ Front(d) = at /\ at' = d /\ UNCHANGED dirs

Up == at # Home /\ at' = Front(at) /\ at' \in dirs /\ UNCHANGED dirs

Change == at \in dirs' /\ UNCHANGED at

Spec == Init /\ [][Down \/ Up \/ Change]_<<dirs, at>>
=============================================================================
