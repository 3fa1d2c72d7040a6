----------------------------- MODULE MCSharing -----------------------------
(* Model-checking instance of Sharing: one user has a directory with two   *)
(* files and a file, the other a file with the name of the first one's.    *)
EXTENDS Sharing, TLC

CONSTANTS u1, u2, a, b

MCLink == (<<u1, a>> :> 1) @@ (<<1, a>> :> 2) @@ (<<1, b>> :> 3) @@ (<<u1, b>> :> 4) @@ (<<u2, b>> :> 5)
MCDirs == {u1, u2, 1}
\* Each user's own, from before the first request.
MCData == << << >>, <<<<u1, 0>>, <<u1, 0>>>>, <<<<u1, 0>>>>, <<<<u1, 0>>>>, <<<<u2, 0>>>> >>
=============================================================================
