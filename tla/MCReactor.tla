---------------------------- MODULE MCReactor ----------------------------
(* Model-checking instance of Reactor: connections and descriptors are    *)
(* interchangeable.  Used for safety properties only.                     *)
EXTENDS Reactor, TLC

Symmetry == Permutations(Conns) \cup Permutations(Fds)
==========================================================================
