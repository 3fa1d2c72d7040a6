---------------------------- MODULE Navigation -----------------------------
(***************************************************************************)
(* One user's file window (web/book.cpp, tcpclient.cpp) and the handlers   *)
(* of CloudServer that it talks to (cloudserver.cpp), over a socket that   *)
(* keeps the order in both directions.                                     *)
(*                                                                         *)
(* A listing that the server sends does not say which directory it is of,  *)
(* nor to which request it is the answer.  The client appends the name     *)
(* that was double-clicked to its current path when the next listing       *)
(* arrives.                                                                *)
(*                                                                         *)
(* A name that is typed may be a path, with ".." in it: nobody looks at it *)
(* but rename and mkdir.  The handlers are atomic here, because only this  *)
(* connection's thread writes to the user's tree, but for what such names  *)
(* of others bring at any time (Strays, module Sharing).                   *)
(***************************************************************************)
EXTENDS FileTree, Naturals, FiniteSets

CONSTANTS Login,       \* the user's name, and that of the home directory
          Names,       \* names of files and directories
          NoName,      \* the empty string
          FirstWord,   \* of every name, what %s reads of it: one name or none
          Typable,     \* what may be typed for a name: so many .. and then names
          Trees,       \* what the user's tree may be at first
          Gifts,       \* what others may share, or rename: a file or a directory
          MaxClicks,   \* bound: requests the user makes, by patience (MayClick)
          MaxGifts     \* bound: shares offered to the user, and what strays here

Home == <<Login>>

ASSUME NavigationAssumption ==
    /\ Dir # Login /\ NoName \notin Names
    /\ DOMAIN MaxClicks \subseteq {"all", "clicks", "none"}
    /\ MaxClicks \in [DOMAIN MaxClicks -> Nat] /\ MaxGifts \in Nat
    /\ \A n \in Names \cup {Login} : FirstWord[n] \in Seq(Names \cup {Login}) /\ Len(FirstWord[n]) < 2
    /\ \A a \in Typable : a \in Nat \X Seq(Names \cup {Login})
    /\ \A t \in Trees : WellFormed(t, Home) /\ IsDir(t, Home) /\ DOMAIN t \subseteq Seq(Names \cup {Login})
    /\ \A g \in Gifts : WellFormed(g, << >>) /\ DOMAIN g \subseteq Seq(Names)

VARIABLES patience, \* what this user waits for
          tree,     \* the user's directory on the server
          path,     \* TcpClient::strCurPath_
          entry,    \* Book::strEntryName_
          shown,    \* Book::pBookListW_
          shownOf,  \* history: the directory of which shown is the listing
          moveSrc,  \* Book::moveSrcFilePath_ while pSelectMoveDir_ is enabled
          dialog,   \* the message box that is open, for which PDU
          toServer, toClient,
          clicks, gifts

client == <<path, entry, shown, shownOf, moveSrc, dialog>>
bounds == <<patience, clicks, gifts>>
vars == <<tree, client, toServer, toClient, bounds>>

\* auto: the client asks by itself.
Request(t, p, n, arg, auto) == [type |-> t, path |-> p, name |-> n, arg |-> arg, auto |-> auto]
\* of: the directory a listing is of, or that was created (history).
Answer(r, t, ok, of, list) == [type |-> t, ok |-> ok, of |-> of, list |-> list, auto |-> r.auto]
NoPdu == "none"

Init ==
    /\ patience \in DOMAIN MaxClicks
    /\ tree \in Trees
    /\ path = Home
    /\ entry = NoName
    /\ shown = {}
    /\ shownOf = Home
    /\ moveSrc = << >>
    /\ dialog = NoPdu
    /\ toServer = << >> /\ toClient = << >>
    /\ clicks = 0 /\ gifts = 0

-----------------------------------------------------------------------------
(* The user.                                                               *)

\* Requests on their way and answers on theirs.  Shares have no answer.
Offers == {"SHARE_FILE_NOTE", "SHARE_FILE_NOTE_RESPONSE"}
InFlight == {m \in ToSet(toServer) \cup ToSet(toClient) : m.type \notin Offers}

\* Some wait until the window is up to date, some for what they have asked
\* for themselves, some for nothing; all for the message box.
MayClick ==
    /\ dialog = NoPdu
    /\ clicks < MaxClicks[patience]
    /\ patience = "all" => InFlight = {}
    /\ patience = "clicks" => \A m \in InFlight : m.auto

Ask(t, n, arg) ==
    /\ MayClick
    /\ clicks' = clicks + 1
    /\ toServer' = Append(toServer, Request(t, path, n, arg, FALSE))
    /\ UNCHANGED <<patience, tree, shown, shownOf, dialog, toClient, gifts>>

Click(t, n, arg) == Ask(t, n, arg) /\ UNCHANGED <<path, entry, moveSrc>>

Selected == {i.name : i \in shown}

FlushDir     == Click("FLUSH_DIR", NoName, << >>)
CreateDirHere(a) == Click("CREATE_DIR", NoName, a)
DelDir(n)    == n \in Selected /\ Click("DEL_DIR", n, << >>)
DelRegFile(n) == n \in Selected /\ Click("DEL_FILE", n, << >>)
ReName(n, a) == n \in Selected /\ Click("RENAME_FILE", n, a)

EntryDir(n) ==
    /\ n \in Selected
    /\ Ask("ENTRY_DIR", n, << >>)
    /\ entry' = n
    /\ UNCHANGED <<path, moveSrc>>

\* In the home directory there is a warning only.
ReturnPre ==
    /\ path # Home
    /\ path' = Front(path)
    /\ entry' = NoName
    /\ MayClick
    /\ clicks' = clicks + 1
    /\ toServer' = Append(toServer, Request("FLUSH_DIR", path', NoName, << >>, FALSE))
    /\ UNCHANGED <<patience, tree, shown, shownOf, moveSrc, dialog, toClient, gifts>>

\* What is to be moved is remembered; where to, is selected later.
MoveFile(n) ==
    /\ n \in Selected
    /\ MayClick
    /\ moveSrc' = Append(path, n)
    /\ UNCHANGED <<tree, path, entry, shown, shownOf, dialog, toServer, toClient, bounds>>

SelectMoveDir(n) ==
    /\ n \in Selected
    /\ moveSrc # << >>
    /\ MayClick
    /\ clicks' = clicks + 1
    /\ toServer' = Append(toServer,
           Request("MOVE_FILE", moveSrc, Last(moveSrc), Append(path, n), FALSE))
    /\ moveSrc' = << >>
    /\ UNCHANGED <<patience, tree, path, entry, shown, shownOf, dialog, toClient, gifts>>

-----------------------------------------------------------------------------
(* recvMsg, one PDU.                                                       *)

Receives(t) ==
    /\ dialog = NoPdu
    /\ toClient # << >>
    /\ Head(toClient).type = t
    /\ toClient' = Tail(toClient)
    /\ UNCHANGED <<tree, toServer, moveSrc, bounds>>

\* Mutant: the name is not cleared.
RecvFlushDirKeepsEntry ==
    /\ Receives("FLUSH_DIR_RESPONSE")
    /\ path' = IF entry # NoName THEN Append(path, entry) ELSE path
    /\ shown' = Head(toClient).list
    /\ shownOf' = Head(toClient).of
    /\ UNCHANGED <<entry, dialog>>

RecvFlushDir ==
    /\ Receives("FLUSH_DIR_RESPONSE")
    /\ path' = IF entry # NoName THEN Append(path, entry) ELSE path
    /\ entry' = NoName
    /\ shown' = Head(toClient).list
    /\ shownOf' = Head(toClient).of
    /\ UNCHANGED dialog

\* Mutant: the message box only.
RecvEntryDirKeepsEntry ==
    /\ Receives("ENTRY_DIR_RESPONSE")
    /\ dialog' = "ENTRY_DIR_RESPONSE"
    /\ UNCHANGED <<path, entry, shown, shownOf>>

RecvEntryDir ==
    /\ Receives("ENTRY_DIR_RESPONSE")
    /\ entry' = NoName
    /\ dialog' = "ENTRY_DIR_RESPONSE"
    /\ UNCHANGED <<path, shown, shownOf>>

\* The other answers, and the question whether to accept a share.
Boxes == {"CREATE_DIR_RESPONSE", "RENAME_FILE_RESPONSE", "MOVE_FILE_RESPONSE",
          "DEL_DIR_RESPONSE", "DEL_FILE_RESPONSE", "SHARE_FILE_NOTE"}
RecvWithBox ==
    /\ \E t \in Boxes : Receives(t) /\ dialog' = t
    /\ UNCHANGED <<path, entry, shown, shownOf>>

\* After a deletion the client asks for a listing by itself.
BoxClosed ==
    /\ dialog \notin {NoPdu, "SHARE_FILE_NOTE"}
    /\ dialog' = NoPdu
    /\ toServer' = IF dialog \in {"DEL_DIR_RESPONSE", "DEL_FILE_RESPONSE"}
                   THEN Append(toServer, Request("FLUSH_DIR", path, NoName, << >>, TRUE))
                   ELSE toServer
    /\ UNCHANGED <<tree, path, entry, shown, shownOf, moveSrc, toClient, bounds>>

\* No is not answered.  What was offered has some name.
NoteClosed ==
    /\ dialog = "SHARE_FILE_NOTE"
    /\ dialog' = NoPdu
    /\ \/ UNCHANGED toServer
       \/ \E n \in Names :
            toServer' = Append(toServer, Request("SHARE_FILE_NOTE_RESPONSE", Home, n, << >>, TRUE))
    /\ UNCHANGED <<tree, path, entry, shown, shownOf, moveSrc, toClient, bounds>>

-----------------------------------------------------------------------------
(* The server: the handler of the next PDU, to its reply.                  *)

Takes(t) ==
    /\ toServer # << >>
    /\ Head(toServer).type = t
    /\ toServer' = Tail(toServer)
    /\ UNCHANGED <<client, bounds>>

Reply(t, ok, of, list) == toClient' = Append(toClient, Answer(Head(toServer), t, ok, of, list))

\* The path a request is about: join(pathOf(pdu), strName).
Target(r) == Append(r.path, r.name)

\* Where a typed name leads from there: join, and what the kernel makes of "..".
LeadsTo(r) == SubSeq(r.path, 1, Len(r.path) - r.arg[1]) \o r.arg[2]
Stays(r) == r.arg[1] <= Len(r.path) /\ IsPrefix(Home, LeadsTo(r))

HandleFlushDir ==
    /\ Takes("FLUSH_DIR")
    /\ LET p == Head(toServer).path IN Reply("FLUSH_DIR_RESPONSE", TRUE, p, ListDir(tree, p))
    /\ UNCHANGED tree

\* Mutant: a file is good enough.
HandleEntryDirIfExists ==
    /\ Takes("ENTRY_DIR")
    /\ LET p == Target(Head(toServer)) IN
        IF Exists(tree, p) THEN Reply("FLUSH_DIR_RESPONSE", TRUE, p, ListDir(tree, p))
                           ELSE Reply("ENTRY_DIR_RESPONSE", FALSE, p, {})
    /\ UNCHANGED tree

\* A success is a listing, sent as if a refresh had been asked for.
HandleEntryDir ==
    /\ Takes("ENTRY_DIR")
    /\ LET p == Target(Head(toServer)) IN
        IF IsDir(tree, p) THEN Reply("FLUSH_DIR_RESPONSE", TRUE, p, ListDir(tree, p))
                          ELSE Reply("ENTRY_DIR_RESPONSE", FALSE, p, {})
    /\ UNCHANGED tree

\* The reply says ok before mkdir has been tried.  Elsewhere there may be
\* something of that name.
HandleCreateDir ==
    /\ Takes("CREATE_DIR")
    /\ LET r == Head(toServer) IN
        \E ok \in BOOLEAN :
            /\ ok => Exists(tree, r.path)
            /\ Stays(r) => ok = (Exists(tree, r.path) /\ ~(IsDir(tree, r.path) /\ Exists(tree, LeadsTo(r))))
            /\ Reply("CREATE_DIR_RESPONSE", ok, LeadsTo(r), {})
            /\ tree' = IF ok /\ Stays(r) /\ IsDir(tree, r.path) THEN CreateDir(tree, LeadsTo(r)) ELSE tree

HandleDelDir ==
    /\ Takes("DEL_DIR")
    /\ LET p == Target(Head(toServer)) IN
        /\ Reply("DEL_DIR_RESPONSE", IsDir(tree, p), p, {})
        /\ tree' = IF IsDir(tree, p) THEN DeleteDirRecursive(tree, p) ELSE tree

HandleDelFile ==
    /\ Takes("DEL_FILE")
    /\ LET p == Target(Head(toServer)) IN
        /\ Reply("DEL_FILE_RESPONSE", IsFile(tree, p), p, {})
        /\ tree' = IF IsFile(tree, p) THEN DeleteFile(tree, p) ELSE tree

\* A new name elsewhere: rename may or may not get there.
RenamesAway(r) ==
    \E ok \in BOOLEAN :
        /\ ok => Exists(tree, Target(r))
        /\ Reply("RENAME_FILE_RESPONSE", ok, LeadsTo(r), {})
        /\ tree' = IF ok THEN DeleteDirRecursive(tree, Target(r)) ELSE tree

\* Mutant: room is made for the new name.
HandleRenameFileOver ==
    /\ Takes("RENAME_FILE")
    /\ LET r == Head(toServer)
           q == LeadsTo(r)
           t == IF Target(r) = q THEN tree ELSE DeleteDirRecursive(tree, q)
       IN  IF Stays(r)
           THEN /\ Reply("RENAME_FILE_RESPONSE", CanRename(t, Target(r), q), q, {})
                /\ tree' = RenameFile(t, Target(r), q)
           ELSE RenamesAway(r)

\* Whether the new name is taken, or leads away, is not asked: rename decides.
HandleRenameFile ==
    /\ Takes("RENAME_FILE")
    /\ LET r == Head(toServer)
           q == LeadsTo(r)
       IN  IF Stays(r)
           THEN /\ Reply("RENAME_FILE_RESPONSE", CanRename(tree, Target(r), q), q, {})
                /\ tree' = RenameFile(tree, Target(r), q)
           ELSE RenamesAway(r)

\* Mutant: an answer only if the destination is a directory.
HandleMoveFileSilently ==
    /\ Takes("MOVE_FILE")
    /\ LET r == Head(toServer)
           q == r.arg \o FirstWord[r.name]
           ok == IsDir(tree, r.arg) /\ CanRename(tree, r.path, q)
       IN  /\ IF IsDir(tree, r.arg) THEN Reply("MOVE_FILE_RESPONSE", ok, q, {})
                                     ELSE UNCHANGED toClient
           /\ tree' = IF ok THEN RenameFile(tree, r.path, q) ELSE tree

\* What is moved may be gone, and the answer then blames the system.  Its name
\* ends at a space (%s), and may be that of a file, which nobody asks about.
HandleMoveFile ==
    /\ Takes("MOVE_FILE")
    /\ LET r == Head(toServer)
           q == r.arg \o FirstWord[r.name]
           ok == IsDir(tree, r.arg) /\ CanRename(tree, r.path, q)
       IN  /\ Reply("MOVE_FILE_RESPONSE", ok, q, {})
           /\ tree' = IF ok THEN RenameFile(tree, r.path, q) ELSE tree

\* The copy of what somebody else has shared, whatever it is by now.
HandleShareNoteResponse ==
    /\ Takes("SHARE_FILE_NOTE_RESPONSE")
    /\ \E g \in Gifts : tree' = CopyInto(tree, g, Target(Head(toServer)))
    /\ UNCHANGED toClient

\* handleShareFile of another user's connection.
Note ==
    /\ gifts < MaxGifts
    /\ gifts' = gifts + 1
    /\ toClient' = Append(toClient, [type |-> "SHARE_FILE_NOTE", ok |-> TRUE, of |-> Home,
                                     list |-> {}, auto |-> TRUE])
    /\ UNCHANGED <<tree, client, toServer, patience, clicks>>

\* Somebody else's typed name leads here, and rename or mkdir can do it.
Strays(g, q) ==
    /\ gifts < MaxGifts
    /\ gifts' = gifts + 1
    /\ IF g[<< >>] = Dir THEN ~IsFile(tree, q) /\ Under(tree, q) \subseteq {q} ELSE ~IsDir(tree, q)
    /\ tree' = CopyInto(tree, g, q)
    /\ UNCHANGED <<client, toServer, toClient, patience, clicks>>

Stray ==
    \E g \in Gifts :
        \/ Strays(g, Home)
        \/ \E p \in DOMAIN tree, n \in Names : IsDir(tree, p) /\ Strays(g, Append(p, n))

Handle == \/ HandleFlushDir \/ HandleEntryDir \/ HandleCreateDir \/ HandleDelDir
          \/ HandleDelFile \/ HandleRenameFile \/ HandleMoveFile \/ HandleShareNoteResponse

Next == \/ FlushDir \/ ReturnPre
        \/ \E n \in Names :
            \/ DelDir(n) \/ DelRegFile(n) \/ EntryDir(n) \/ MoveFile(n) \/ SelectMoveDir(n)
            \/ \E a \in Typable : ReName(n, a)
        \/ \E a \in Typable : CreateDirHere(a)
        \/ RecvFlushDir \/ RecvEntryDir \/ RecvWithBox \/ BoxClosed \/ NoteClosed
        \/ Handle \/ Note \/ Stray

Spec == Init /\ [][Next]_vars

\* The connection's thread goes on.  The user owes nothing.
FairSpec == Spec /\ WF_vars(Handle)

-----------------------------------------------------------------------------
\* A name waits to be appended only while the answer to its double click is
\* still to come, however impatient the user is: no later listing is taken
\* for that answer (recvMsg, ClearEntryName).
EntryIsPending ==
    entry # NoName =>
        \E m \in InFlight : \/ m.type = "ENTRY_DIR" /\ m.name = entry
                           \/ m.type \in {"FLUSH_DIR_RESPONSE", "ENTRY_DIR_RESPONSE"}

\* When no answer is to come, the list shown is that of the current path: a
\* deletion deletes what the user sees (Book::delDir sends strCurPath_ and
\* the name in the list).
ListIsOfPath == InFlight = {} => shownOf = path

\* The same for users who wait until the window is up to date.
PatientSeesPath == patience = "all" => ListIsOfPath

\* For these users the window implements Browser: rename does not move the
\* directory they are in into itself, and all else that a list offers is below
\* it, so that the current path always leads to a directory.
BR == INSTANCE Browser WITH
        dirs <- {p \in DOMAIN tree : tree[p] = Dir},
        at <- IF patience = "all" THEN path ELSE Home
IsBrowser == BR!Spec

\* A file disappears only if it is deleted, or in a directory that is, or if
\* it is given a name that leads out of the user's directory, or such a
\* directory is, or if a file renamed, moved or shared takes its name (rename,
\* copyFile).
Gone(p) == IsFile(tree, p) /\ \A q \in DOMAIN tree' : tree'[q] # tree[p]
Deletes(r, p) == \/ r.type = "DEL_FILE" /\ Target(r) = p
                 \/ r.type = "DEL_DIR" /\ IsPrefix(Target(r), p)
                 \/ r.type = "RENAME_FILE" /\ ~Stays(r) /\ IsPrefix(Target(r), p)
NothingLost ==
    [][\A p \in DOMAIN tree : Gone(p) => IsFile(tree', p) \/ Deletes(Head(toServer), p)]_vars

\* Every click is answered (the handlers reply in all their branches), so
\* that nobody waits in vain for a message box or a listing.
AnswerTo(t) == IF t \in {"FLUSH_DIR", "ENTRY_DIR"} THEN {"FLUSH_DIR_RESPONSE", "ENTRY_DIR_RESPONSE"}
               ELSE {t \o "_RESPONSE"}
ClicksAreAnswered ==
    \A t \in {"FLUSH_DIR", "ENTRY_DIR", "CREATE_DIR", "DEL_DIR", "DEL_FILE", "RENAME_FILE", "MOVE_FILE"} :
        (\E m \in InFlight : m.type = t) ~> (\E m \in InFlight : m.type \in AnswerTo(t))
=============================================================================
