----------------------------- MODULE FileTree ------------------------------
(***************************************************************************)
(* The functions of fileutil.cpp on a tree that nobody else changes        *)
(* meanwhile, as the effects and results of the system calls they make.    *)
(*                                                                         *)
(* A path is the sequence of its names, join is Append.  A tree maps the   *)
(* paths that exist to Dir or to a file.  What several threads make of     *)
(* these functions is the subject of module Sharing.                       *)
(***************************************************************************)
EXTENDS Sequences, SequencesExt, Functions

CONSTANT Dir

Exists(t, p) == p \in DOMAIN t
IsDir(t, p) == p \in DOMAIN t /\ t[p] = Dir
IsFile(t, p) == p \in DOMAIN t /\ t[p] # Dir

\* p and what is in it.
Under(t, p) == {q \in DOMAIN t : IsPrefix(p, q)}
Below(p, q) == SubSeq(q, Len(p) + 1, Len(q))

\* What r is called once p is called q.
Moved(p, q, r) == q \o Below(p, r)

\* All that exists is in directories, from the root down.
WellFormed(t, root) ==
    \A p \in DOMAIN t :
        /\ IsPrefix(root, p)
        /\ \A k \in Len(root) .. Len(p) - 1 : IsDir(t, SubSeq(p, 1, k))

\* FileInfo of every entry; of what is no directory, nothing.
ListDir(t, p) ==
    IF IsDir(t, p)
    THEN {[name |-> Last(q), isdir |-> t[q] = Dir] : q \in {r \in Under(t, p) : Len(r) = Len(p) + 1}}
    ELSE {}

CanCreate(t, p) == ~Exists(t, p) /\ IsDir(t, Front(p))
CreateDir(t, p) ==
    IF CanCreate(t, p) THEN [q \in DOMAIN t \cup {p} |-> IF q = p THEN Dir ELSE t[q]] ELSE t

DeleteDirRecursive(t, p) == Restrict(t, DOMAIN t \ Under(t, p))
DeleteFile(t, p) == Restrict(t, DOMAIN t \ {p})

\* rename(2): a directory does not go into itself, and replaces nothing but
\* an empty directory; a file replaces nothing but a file.
CanRename(t, p, q) ==
    /\ Exists(t, p) /\ IsDir(t, Front(q))
    /\ \/ p = q
       \/ IsDir(t, p) /\ ~IsPrefix(p, q) /\ ~IsFile(t, q) /\ Under(t, q) \subseteq {q}
       \/ IsFile(t, p) /\ ~IsDir(t, q)
RenameFile(t, p, q) ==
    IF ~CanRename(t, p, q) \/ p = q THEN t
    ELSE LET moved == {Moved(p, q, r) : r \in Under(t, p)}
         IN  [r \in (DOMAIN t \ Under(t, p)) \cup moved |->
                 IF r \in moved THEN t[Moved(q, p, r)] ELSE t[r]]

\* copyDirRecursive or copyFile of the tree g to q.  A part of g is passed
\* over where a directory would have to replace a file or a file a directory.
CopyInto(t, g, q) ==
    LET to(r) == Moved(<< >>, q, r)
        fits(r) == \A s \in DOMAIN g : IsPrefix(s, r) =>
                      IF g[s] = Dir THEN ~IsFile(t, to(s)) ELSE ~IsDir(t, to(s))
        copied == {to(r) : r \in {s \in DOMAIN g : fits(s)}}
    IN  [r \in DOMAIN t \cup copied |-> IF r \in copied THEN g[Moved(q, << >>, r)] ELSE t[r]]
=============================================================================
