--------------------------- MODULE MCNavigation ----------------------------
(* Model-checking instance of Navigation: a file and a directory with one  *)
(* in it, or two directories; shared files and directories use the same    *)
(* names.                                                                   *)
EXTENDS Navigation

CONSTANTS a, b, f1, f2, f3

MCTrees == {(Home :> Dir) @@ (<<Login, a>> :> Dir) @@ (<<Login, a, b>> :> f1) @@ (<<Login, b>> :> f2),
            (Home :> Dir) @@ (<<Login, a>> :> Dir) @@ (<<Login, b>> :> Dir) @@ (<<Login, a, a>> :> f1)}
MCGifts == {(<< >> :> f3), (<< >> :> Dir) @@ (<<b>> :> f3)}

\* The second word of b is not read.
MCFirstWord == (a :> <<a>>) @@ (b :> <<a>>) @@ (Login :> << >>)
MCTypable == {<<0, <<b>>>>, <<0, <<a, b>>>>, <<1, <<b>>>>}

\* The more patient, the more requests.
MCMaxClicks == [all |-> 4, clicks |-> 3, none |-> 3]
\* The user who waits for the answer to every click, and no longer.
MCHasty == [clicks |-> 4]
=============================================================================
