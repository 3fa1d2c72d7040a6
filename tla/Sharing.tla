------------------------------ MODULE Sharing ------------------------------
(***************************************************************************)
(* The users' directories, with the threads that change them at the same   *)
(* time: the file handlers of CloudServer and the functions of fileutil    *)
(* at the granularity of system calls.                                     *)
(*                                                                         *)
(* A handler runs on the thread of its user's connection.  A share that    *)
(* its receiver accepts is copied by the receiver's thread out of the      *)
(* sharer's directory, while the sharer goes on renaming, deleting and     *)
(* uploading there.  No lock is taken.  What is read of a file that is     *)
(* open, and of a directory that is, does not depend on where they are by  *)
(* then; every other step starts from a path.                              *)
(*                                                                         *)
(* The name of a new directory, and that of a rename, is what the user has *)
(* typed, and nobody looks for "/" and ".." in it: it may lead to any path *)
(* below another user's directory, or out of all of them.                  *)
(***************************************************************************)
EXTENDS Naturals, Sequences, FiniteSets, SequencesExt

CONSTANTS Users,       \* also the nodes of the users' directories
          Names,
          NoNode,
          InitLink, InitDirs, InitData,   \* what is stored at first
          Blocks,      \* bound: the blocks of 4096 bytes of an upload
          MaxDepth,    \* bound: how deep a request's path goes
          MaxChanges,  \* bound: requests of all users that change files
          MaxShares    \* bound: files and directories that they share

\* The system begins with a tree below each user's directory, made of nodes of
\* his own with blocks of his own; files and directories are numbered.
ASSUME SharingAssumption ==
    /\ NoNode \notin Users \cup Nat /\ Users \cap Nat = {}
    /\ InitData \in Seq(Seq(Users \X Nat))
    /\ Users \subseteq InitDirs /\ InitDirs \subseteq Users \cup 1 .. Len(InitData)
    /\ InitLink \in [DOMAIN InitLink -> 1 .. Len(InitData)]
    /\ DOMAIN InitLink \subseteq InitDirs \X Names
    /\ \A e, f \in DOMAIN InitLink : InitLink[e] = InitLink[f] => e = f
    /\ \A d \in InitDirs \ Users : InitData[d] = << >>
    /\ \E own \in [Users \cup 1 .. Len(InitData) -> Users] :
        /\ \A u \in Users : own[u] = u
        /\ \A e \in DOMAIN InitLink : own[InitLink[e]] = own[e[1]]
        /\ \A x \in 1 .. Len(InitData) : \A b \in ToSet(InitData[x]) : b[1] = own[x]
    /\ Blocks \in Nat \ {0} /\ MaxDepth \in Nat /\ MaxChanges \in Nat /\ MaxShares \in Nat

VARIABLES link,     \* directory entries: <<directory, name>> to node
          dirs,     \* the nodes that are directories
          data,     \* of the others: who uploaded the blocks, and when
          notes,    \* what a user has been offered and not yet answered
          work,     \* what the thread of a user's connection is about
          changes, shares,
          touched,  \* entries that came or went since a user's copy began
          offers,   \* history: paths offered to a user
          exposed,  \* history: nodes that were ever in one of these
          given,    \* history: what was ever in these nodes
          brought   \* history: what others' renames have put in his directory

files == <<link, dirs, data>>
history == <<touched, offers, exposed, given, brought>>
bounds == <<changes, shares>>
vars == <<files, notes, work, bounds, history>>

-----------------------------------------------------------------------------
(* Paths.  The first name is the user's.                                   *)

Entry(lk, d, n) == IF <<d, n>> \in DOMAIN lk THEN lk[<<d, n>>] ELSE NoNode
Lookup(lk, p) ==
    LET at[i \in 1 .. Len(p)] == IF i = 1 THEN p[1] ELSE Entry(lk, at[i - 1], p[i])
    IN  at[Len(p)]
Node(p) == Lookup(link, p)
Parent(p) == Node(Front(p))

Relative == BoundedSeq(Names, MaxDepth)
PathsOf(u) == {<<u>> \o s : s \in Relative \ {<< >>}}
Present(u) == {p \in PathsOf(u) : Node(p) # NoNode}
Vacant(p) == Node(p) = NoNode /\ Parent(p) \in dirs
Children(d) == {e \in DOMAIN link : e[1] = d}

\* With the entry e of the node x; without it.
Linked(e, x) == [d \in DOMAIN link \cup {e} |-> IF d = e THEN x ELSE link[d]]
Unlinked(e) == [d \in DOMAIN link \ {e} |-> link[d]]

\* The nodes at and below a path: the smallest set that has the one there and
\* with a directory all that is in it.
NodesAt(lk, p) ==
    LET nodes == {lk[e] : e \in DOMAIN lk}
        complete == {S \in SUBSET nodes :
                       /\ Lookup(lk, p) \in S
                       /\ \A e \in DOMAIN lk : e[1] \in S => lk[e] \in S}
    IN  IF Lookup(lk, p) = NoNode THEN {} ELSE {x \in nodes : \A S \in complete : x \in S}

\* What a user finds at a node, and in his directory.
Found(x) == IF x = NoNode THEN {} ELSE IF x \in dirs THEN {"dir"} ELSE {data[x]}
View(u) == [p \in PathsOf(u) |-> Found(Node(p))]

-----------------------------------------------------------------------------
(* What a thread may be about.                                             *)

Idle == [op |-> "idle"]
Upload(x) == [op |-> "upload", node |-> x, left |-> Blocks, no |-> changes + 1]
Delete(p) == [op |-> "delete", path |-> p]
\* pc: the call that comes next; src and dst its arguments; frames: the
\* copyDirRecursive that are under way, innermost first; in, out: the open
\* files; clean: nobody has written to in since it was open (history).
Copy(pc, s, d, fs) == [op |-> "copy", pc |-> pc, src |-> s, dst |-> d, frames |-> fs,
                       in |-> NoNode, out |-> NoNode, off |-> 0, clean |-> TRUE]
\* dir: the open directory; seen: the names that readdir has returned.
Frame(s, d, x) == [src |-> s, dst |-> d, dir |-> x, seen |-> {}]

Init ==
    /\ link = InitLink /\ dirs = InitDirs /\ data = InitData
    /\ notes = [u \in Users |-> << >>]
    /\ work = [u \in Users |-> Idle]
    /\ changes = 0 /\ shares = 0
    /\ touched = [u \in Users |-> {}]
    /\ offers = [u \in Users |-> {}]
    /\ exposed = [u \in Users |-> {}]
    /\ given = [u \in Users |-> {}]
    /\ brought = [u \in Users |-> {}]

\* u's thread goes on with w.  Where it has written to the node x, those who
\* are copying x no longer copy what they have opened.
GoesOn(u, w, x) ==
    work' = [v \in Users |->
        IF v = u THEN (IF w.op = "copy" /\ w.in # NoNode /\ w.in = x THEN [w EXCEPT !.clean = FALSE] ELSE w)
        ELSE IF work[v].op = "copy" /\ work[v].in # NoNode /\ work[v].in = x
             THEN [work[v] EXCEPT !.clean = FALSE] ELSE work[v]]

NewNode == Len(data) + 1
SameFiles == UNCHANGED files

-----------------------------------------------------------------------------
(* Requests about files.  The path p of u's request lies in his directory  *)
(* unless he has typed its last name, in a request for a new directory or  *)
(* as the new name q of a rename.                                          *)

Asks(u) ==
    /\ work[u] = Idle
    /\ changes < MaxChanges
    /\ changes' = changes + 1
    /\ UNCHANGED <<shares, notes, offers>>

HandleCreateDir(u, p) ==
    /\ Asks(u)
    /\ Vacant(p)
    /\ link' = Linked(<<Parent(p), Last(p)>>, NewNode)
    /\ dirs' = dirs \cup {NewNode}
    /\ data' = Append(data, << >>)
    /\ UNCHANGED work

HandleDelFile(u, p) ==
    /\ Asks(u)
    /\ Node(p) \notin dirs \cup {NoNode}
    /\ link' = Unlinked(<<Parent(p), Last(p)>>)
    /\ UNCHANGED <<dirs, data, work>>

\* rename(2), as in FileTree!CanRename.
CanRename(p, q) ==
    /\ p # q
    /\ \/ /\ Node(p) \in dirs /\ ~IsPrefix(p, q)
          /\ Node(q) # NoNode => Node(q) \in dirs /\ Children(Node(q)) = {}
       \/ Node(p) \notin dirs /\ Node(q) \notin dirs

\* handleRenameFile, and handleMoveFile for a path in another directory.
HandleRenameFile(u, p, q) ==
    /\ Asks(u)
    /\ Node(p) # NoNode /\ Parent(q) \in dirs
    /\ CanRename(p, q)
    /\ LET from == <<Parent(p), Last(p)>>
           to == <<Parent(q), Last(q)>>
       IN  link' = [e \in (DOMAIN link \ {from}) \cup {to} |-> IF e = to THEN link[from] ELSE link[e]]
    /\ UNCHANGED <<dirs, data, work>>

\* The new name leads out of all users' directories.
RenameAway(u, p) ==
    /\ Asks(u)
    /\ Node(p) # NoNode
    /\ link' = Unlinked(<<Parent(p), Last(p)>>)
    /\ UNCHANGED <<dirs, data, work>>

HandleDelDir(u, p) ==
    /\ Asks(u)
    /\ Node(p) \in dirs
    /\ GoesOn(u, Delete(p), NoNode)
    /\ SameFiles

\* One unlink or rmdir of deleteDirRecursive, which empties directories
\* before it removes them.
DeleteNext(u) ==
    /\ work[u].op = "delete"
    /\ \E p \in Present(u) :
        /\ IsPrefix(work[u].path, p)
        /\ Children(Node(p)) = {}
        /\ link' = Unlinked(<<Parent(p), Last(p)>>)
        /\ GoesOn(u, IF p = work[u].path THEN Idle ELSE work[u], NoNode)
    /\ UNCHANGED <<dirs, data, notes, bounds, offers>>

\* fopen with "wb": a file of this name is emptied and stays the same node.
HandleUpdateFile(u, p) ==
    /\ Asks(u)
    /\ Parent(p) \in dirs /\ Node(p) \notin dirs
    /\ IF Node(p) = NoNode
       THEN /\ link' = Linked(<<Parent(p), Last(p)>>, NewNode)
            /\ data' = Append(data, << >>)
            /\ GoesOn(u, Upload(NewNode), NoNode)
       ELSE /\ data' = [data EXCEPT ![Node(p)] = << >>]
            /\ GoesOn(u, Upload(Node(p)), Node(p))
            /\ UNCHANGED link
    /\ UNCHANGED dirs

WriteUploadData(u) ==
    /\ work[u].op = "upload"
    /\ LET w == work[u] IN
        /\ data' = [data EXCEPT ![w.node] = Append(@, <<u, w.no>>)]
        /\ GoesOn(u, IF w.left = 1 THEN Idle ELSE [w EXCEPT !.left = @ - 1], w.node)
    /\ UNCHANGED <<link, dirs, notes, bounds, offers>>

\* The client is gone in the middle of its upload; what has arrived stays.
Abandon(u) ==
    /\ work[u].op = "upload"
    /\ GoesOn(u, Idle, NoNode)
    /\ UNCHANGED <<files, notes, bounds, offers>>

-----------------------------------------------------------------------------
(* Sharing.                                                                *)

\* The name was selected when the window was opened, the directory is the one
\* that is current now: the path may lead elsewhere than the user thinks, or
\* nowhere.
SelectOk(u) == PathsOf(u)

\* Mutant: the names of the receivers are read from the wrong place.
HandleShareFileAstray(u, v, p) ==
    /\ work[u] = Idle
    /\ shares < MaxShares
    /\ shares' = shares + 1
    /\ p \in SelectOk(u)
    /\ \E w \in Users \ {v} : notes' = [notes EXCEPT ![w] = Append(@, p)]
    /\ offers' = [offers EXCEPT ![v] = @ \cup {p}]
    /\ UNCHANGED <<files, work, changes>>

\* Mutant: the sharer's thread puts a file in the receiver's directory.
HandleShareFileAtOnce(u, v, p) ==
    /\ work[u] = Idle
    /\ shares < MaxShares
    /\ shares' = shares + 1
    /\ p \in Present(u) /\ Vacant(<<v, Last(p)>>)
    /\ link' = Linked(<<v, Last(p)>>, NewNode)
    /\ data' = Append(data, << >>)
    /\ notes' = [notes EXCEPT ![v] = Append(@, p)]
    /\ offers' = [offers EXCEPT ![v] = @ \cup {p}]
    /\ UNCHANGED <<dirs, work, changes>>

\* Nothing changes but that the receiver hears of it, if he is online.
HandleShareFile(u, v, p) ==
    /\ work[u] = Idle
    /\ shares < MaxShares
    /\ shares' = shares + 1
    /\ p \in SelectOk(u)
    /\ notes' = [notes EXCEPT ![v] = Append(@, p)]
    /\ offers' = [offers EXCEPT ![v] = @ \cup {p}]
    /\ UNCHANGED <<files, work, changes>>

Refuse(u) ==
    /\ notes[u] # << >>
    /\ notes' = [notes EXCEPT ![u] = Tail(@)]
    /\ UNCHANGED <<files, work, bounds, offers>>

\* The directory of the receiver exists since the registration.
HandleShareNoteResponse(u) ==
    /\ work[u] = Idle
    /\ notes[u] # << >>
    /\ notes' = [notes EXCEPT ![u] = Tail(@)]
    /\ LET p == Head(notes[u]) IN GoesOn(u, Copy("isDir", p, <<u, Last(p)>>, << >>), NoNode)
    /\ UNCHANGED <<files, bounds, offers>>

At(u, pc) == work[u].op = "copy" /\ work[u].pc = pc
Calls(u, pc) == GoesOn(u, [work[u] EXCEPT !.pc = pc], NoNode)
\* Back in the innermost copyDirRecursive, or in the handler, which ends.
Returns(u, fs) == GoesOn(u, IF fs = << >> THEN Idle
                            ELSE Copy("readdir", Head(fs).src, Head(fs).dst, fs), NoNode)
CopyKeeps == UNCHANGED <<notes, bounds, offers>>

IsDir(u) ==
    /\ At(u, "isDir")
    /\ Calls(u, IF Node(work[u].src) \in dirs THEN "createDir" ELSE "exists")
    /\ SameFiles /\ CopyKeeps

FileExists(u) ==
    /\ At(u, "exists")
    /\ IF Node(work[u].src) # NoNode THEN Calls(u, "openIn") ELSE Returns(u, << >>)
    /\ SameFiles /\ CopyKeeps

CreateDir(u) ==
    /\ At(u, "createDir")
    /\ LET d == work[u].dst IN
        IF Node(d) # NoNode
        THEN /\ IF Node(d) \in dirs THEN Calls(u, "opendir") ELSE Returns(u, work[u].frames)
             /\ SameFiles
        ELSE /\ link' = Linked(<<Parent(d), Last(d)>>, NewNode)
             /\ dirs' = dirs \cup {NewNode}
             /\ data' = Append(data, << >>)
             /\ Calls(u, "opendir")
    /\ CopyKeeps

Opendir(u) ==
    /\ At(u, "opendir")
    /\ LET w == work[u] IN
        Returns(u, (IF Node(w.src) \in dirs THEN <<Frame(w.src, w.dst, Node(w.src))>> ELSE << >>)
                   \o w.frames)
    /\ SameFiles /\ CopyKeeps

\* Any entry that was not returned before; one that comes or goes after
\* opendir may be returned or not.
Readdir(u) ==
    /\ At(u, "readdir")
    /\ LET fs == work[u].frames
           f == Head(fs)
       IN \/ \E e \in Children(f.dir) :
               /\ e[2] \notin f.seen
               /\ GoesOn(u, Copy("stat", Append(f.src, e[2]), Append(f.dst, e[2]),
                                 <<[f EXCEPT !.seen = @ \cup {e[2]}]>> \o Tail(fs)), NoNode)
          \/ /\ \A e \in Children(f.dir) \ touched[u] : e[2] \in f.seen
             /\ Returns(u, Tail(fs))
    /\ SameFiles /\ CopyKeeps

\* Mutant: an entry that is gone ends the loop.
StatOrBreak(u) ==
    /\ At(u, "stat")
    /\ LET w == work[u]
           x == Node(w.src)
       IN  IF x = NoNode THEN Returns(u, Tail(w.frames))
           ELSE Calls(u, IF x \in dirs THEN "createDir" ELSE "openIn")
    /\ SameFiles /\ CopyKeeps

Stat(u) ==
    /\ At(u, "stat")
    /\ LET w == work[u]
           x == Node(w.src)
       IN  IF x = NoNode THEN Returns(u, w.frames)
           ELSE Calls(u, IF x \in dirs THEN "createDir" ELSE "openIn")
    /\ SameFiles /\ CopyKeeps

OpenIn(u) ==
    /\ At(u, "openIn")
    /\ LET w == work[u]
           x == Node(w.src)
       IN  IF x = NoNode THEN Returns(u, w.frames)
           ELSE GoesOn(u, [w EXCEPT !.pc = "openOut", !.in = x, !.clean = TRUE], NoNode)
    /\ SameFiles /\ CopyKeeps

\* O_CREAT and O_TRUNC.
OpenOut(u) ==
    /\ At(u, "openOut")
    /\ LET w == work[u]
           x == Node(w.dst)
       IN  IF x \in dirs THEN Returns(u, w.frames) /\ SameFiles
           ELSE IF x = NoNode
           THEN /\ link' = Linked(<<Parent(w.dst), Last(w.dst)>>, NewNode)
                /\ data' = Append(data, << >>)
                /\ GoesOn(u, [w EXCEPT !.pc = "read", !.out = NewNode], NoNode)
                /\ UNCHANGED dirs
           ELSE /\ data' = [data EXCEPT ![x] = << >>]
                /\ GoesOn(u, [w EXCEPT !.pc = "read", !.out = x], x)
                /\ UNCHANGED <<link, dirs>>
    /\ CopyKeeps

\* Mutant: the source is looked up anew for each block.
CopyBlockByPath(u) ==
    /\ At(u, "read")
    /\ LET w == work[u]
           x == Node(w.src)
       IN  IF x # NoNode /\ x \notin dirs /\ w.off < Len(data[x])
           THEN /\ data' = [data EXCEPT ![w.out] = Append(@, data[x][w.off + 1])]
                /\ GoesOn(u, [w EXCEPT !.off = @ + 1], w.out)
           ELSE Returns(u, w.frames) /\ UNCHANGED data
    /\ UNCHANGED <<link, dirs>> /\ CopyKeeps

\* One read and the write of it; or the end of the file, or the error that
\* read returns if a directory was opened.
CopyBlock(u) ==
    /\ At(u, "read")
    /\ LET w == work[u] IN
        IF w.in \notin dirs /\ w.off < Len(data[w.in])
        THEN /\ data' = [data EXCEPT ![w.out] = Append(@, data[w.in][w.off + 1])]
             /\ GoesOn(u, [w EXCEPT !.off = @ + 1], w.out)
        ELSE Returns(u, w.frames) /\ UNCHANGED data
    /\ UNCHANGED <<link, dirs>> /\ CopyKeeps

-----------------------------------------------------------------------------
Requests(u) ==
    \/ \E p \in PathsOf(u) :
        \/ HandleCreateDir(u, p) \/ HandleDelFile(u, p) \/ HandleDelDir(u, p) \/ HandleUpdateFile(u, p)
        \/ RenameAway(u, p) \/ \E q \in PathsOf(u) : HandleRenameFile(u, p, q)
        \/ \E v \in Users : HandleShareFile(u, v, p)
    \/ Refuse(u) \/ HandleShareNoteResponse(u) \/ WriteUploadData(u) \/ Abandon(u)

Works(u) == \/ DeleteNext(u) \/ IsDir(u) \/ FileExists(u) \/ CreateDir(u) \/ Opendir(u)
            \/ Readdir(u) \/ Stat(u) \/ OpenIn(u) \/ OpenOut(u) \/ CopyBlock(u)

\* A name that u has typed leads to v's directory.
Strays(u, v) == \E q \in PathsOf(v) :
    \/ HandleCreateDir(u, q) /\ UNCHANGED brought
    \/ \E p \in PathsOf(u) :
        /\ HandleRenameFile(u, p, q)
        /\ brought' = [brought EXCEPT ![v] = @ \cup UNION {ToSet(data[x]) : x \in NodesAt(link, p)}]

\* What the histories make of a step.
Remembers ==
    /\ touched' = [u \in Users |->
           IF work'[u].op # "copy" THEN {}
           ELSE touched[u] \cup {e \in DOMAIN link \cup DOMAIN link' :
                                    Entry(link, e[1], e[2]) # Entry(link', e[1], e[2])}]
    /\ exposed' = [u \in Users |-> exposed[u] \cup UNION {NodesAt(link', p) : p \in offers'[u]}]
    /\ given' = [u \in Users |->
                    given[u] \cup UNION {ToSet(data'[x]) : x \in exposed'[u] \ dirs'}]

Thread(u) ==
    \/ (Works(u) \/ Requests(u)) /\ UNCHANGED brought
    \/ \E v \in Users \ {u} : Strays(u, v)
Next == (\E u \in Users : Thread(u)) /\ Remembers
Spec == Init /\ [][Next]_vars

-----------------------------------------------------------------------------
\* A copy ends with all of the file that it has opened, wherever that has been
\* renamed to or whether it was deleted, unless somebody has written to it
\* meanwhile (copyFile).
CopyIsWhole ==
    [][\A u \in Users :
        At(u, "read") /\ ~At(u, "read")' /\ work[u].clean
            => data[work[u].out] = data[work[u].in]]_vars

\* What was in a shared directory from the start to the end of the copy, under
\* the same path, is in the receiver's directory then, whatever the sharer has
\* done to its neighbours (copyDirRecursive).
Untouched(u, p) ==
    /\ Node(p) # NoNode
    /\ \A i \in 1 .. Len(p) - 1 : <<Node(SubSeq(p, 1, i)), p[i + 1]>> \notin touched[u]
EntriesAreCopied ==
    [][\A u \in Users :
        work[u].op = "copy" /\ work[u].frames # << >> =>
            LET f == Head(work[u].frames) IN
            work'[u].op = "idle" \/ Len(work'[u].frames) < Len(work[u].frames) =>
                \A n \in Names : Untouched(u, Append(f.src, n)) => Node(Append(f.dst, n)) # NoNode]_vars

\* What a user has of others was in a file that lay, at some time since the
\* offer, where he was offered something: a receiver cannot be given what
\* its owner has moved away before (handleShareNoteResponse).  Except what
\* was in a file at the time when another user's rename has put it there.
OnlyOfferedArrives ==
    \A u \in Users : \A p \in Present(u) : Node(p) \notin dirs =>
        \A b \in ToSet(data[Node(p)]) : b[1] = u \/ b \in given[u] \cup brought[u]

\* A user's directory changes by his own thread's steps, and when the name of
\* a directory or of a rename leads another user's request there; nobody's
\* copy, deletion, upload or share writes to it (fileutil).  The requests of
\* one user find and leave his directory as if they were alone but for these
\* strays (module Navigation).
OnlyOwnerWrites ==
    [][\A u \in Users : View(u)' # View(u) =>
            Thread(u) \/ \E v \in Users \ {u} : Strays(v, u)]_vars
=============================================================================
