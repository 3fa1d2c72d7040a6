------------------------- MODULE NavigationProofs --------------------------
(***************************************************************************)
(* Theorems about Navigation for any trees, typed names, shares and        *)
(* numbers of requests.                                                    *)
(*                                                                         *)
(* First what is on its way between the window and the server, and what it *)
(* tells about the window; then paths and what fileutil.cpp does to trees; *)
(* then what the requests ask for; and last the window as a Browser.       *)
(***************************************************************************)
EXTENDS Navigation, Integers, SequenceTheorems, TLAPS

\* The PDUs in a queue that belong to a click or a refresh.
Waiting(s) == {m \in ToSet(s) : m.type \notin Offers}

\* A queue holds at most one of them.
Alone(s) == \A i, j \in 1 .. Len(s) :
    s[i].type \notin Offers /\ s[j].type \notin Offers => i = j

Queue(s) == s \in Seq(ToSet(s))

Queues == Queue(toServer) /\ Queue(toClient)

\* What is true while the request r of a user who waits is on its way ...
RequestFits(r) ==
    /\ IF r.type = "ENTRY_DIR" THEN entry = r.name /\ r.name # NoName /\ r.path = path
                               ELSE entry = NoName
    /\ IF r.type = "FLUSH_DIR" THEN r.path = path ELSE shownOf = path

\* ... and while the answer m is.
AnswerFits(m) ==
    /\ IF m.type = "FLUSH_DIR_RESPONSE"
       THEN m.of = IF entry # NoName THEN Append(path, entry) ELSE path
       ELSE shownOf = path
    /\ m.type \notin {"FLUSH_DIR_RESPONSE", "ENTRY_DIR_RESPONSE"} => entry = NoName

\* For who waits, at most one request or answer is on its way, ...
OneAtATime ==
    /\ Alone(toServer) /\ Alone(toClient)
    /\ Waiting(toServer) = {} \/ Waiting(toClient) = {}
    /\ dialog \notin {NoPdu, "SHARE_FILE_NOTE"} => Waiting(toServer) = {} /\ Waiting(toClient) = {}

\* ... it is about the window as it is, and without it the window is true.
InStep ==
    /\ \A r \in Waiting(toServer) : RequestFits(r)
    /\ \A m \in Waiting(toClient) : AnswerFits(m)
    /\ Waiting(toServer) = {} /\ Waiting(toClient) = {} => entry = NoName /\ shownOf = path

IInv == Queues /\ (patience = "all" => OneAtATime /\ InStep)

-----------------------------------------------------------------------------
(* Queues.                                                                 *)

LEMMA Appended ==
    ASSUME NEW s, Queue(s), NEW e
    PROVE  LET t == Append(s, e) IN
           /\ Queue(t)
           /\ ToSet(t) = ToSet(s) \cup {e}
           /\ Len(t) = Len(s) + 1 /\ Len(s) \in Nat
           /\ \A i \in 1 .. Len(s) : t[i] = s[i]
           /\ t[Len(t)] = e
<1> DEFINE t == Append(s, e)
           T == ToSet(s) \cup {e}
<1>1. s \in Seq(T)  BY SeqMonotonic DEF Queue
<1>2. /\ t \in Seq(T)
      /\ Len(t) = Len(s) + 1 /\ Len(s) \in Nat
      /\ \A i \in 1 .. Len(s) : t[i] = s[i]
      /\ t[Len(t)] = e
  BY <1>1, AppendProperties, LenProperties
<1>3. DOMAIN s = 1 .. Len(s) /\ DOMAIN t = 1 .. Len(t)
  BY <1>1, <1>2, LenProperties
<1>4. ToSet(t) = T  BY <1>2, <1>3 DEF ToSet
<1>5. QED  BY <1>2, <1>4 DEF Queue

LEMMA Taken ==
    ASSUME NEW s, Queue(s), s # << >>
    PROVE  LET t == Tail(s) IN
           /\ Queue(t)
           /\ ToSet(s) = {Head(s)} \cup ToSet(t)
           /\ Len(s) = Len(t) + 1 /\ Len(t) \in Nat
           /\ \A i \in 1 .. Len(t) : t[i] = s[i + 1]
           /\ s[1] = Head(s)
<1> DEFINE t == Tail(s)
<1>1. /\ t \in Seq(ToSet(s))
      /\ Len(s) = Len(t) + 1 /\ Len(t) \in Nat
      /\ \A i \in 1 .. Len(t) : t[i] = s[i + 1]
      /\ s[1] = Head(s)
  BY HeadTailProperties, LenProperties, EmptySeq DEF Queue
<1>2. DOMAIN s = 1 .. Len(s) /\ DOMAIN t = 1 .. Len(t)
  BY <1>1, LenProperties DEF Queue
<1>3. ToSet(s) = {Head(s)} \cup ToSet(t)
  <2>1. \A i \in 1 .. Len(s) : i = 1 \/ (i - 1 \in 1 .. Len(t) /\ s[i] = t[i - 1])
    BY <1>1
  <2>2. \A i \in 1 .. Len(t) : i + 1 \in 1 .. Len(s) /\ t[i] = s[i + 1]
    BY <1>1
  <2>3. 1 \in 1 .. Len(s)  BY <1>1
  <2>4. ASSUME NEW i \in 1 .. Len(s) PROVE s[i] \in {Head(s)} \cup ToSet(t)
    <3>1. CASE i = 1  BY <1>1, <3>1
    <3>2. CASE i - 1 \in 1 .. Len(t) /\ s[i] = t[i - 1]  BY <1>2, <3>2 DEF ToSet
    <3>3. QED  BY <2>1, <3>1, <3>2
  <2>5. Head(s) \in ToSet(s)  BY <1>1, <1>2, <2>3 DEF ToSet
  <2>6. ToSet(t) \subseteq ToSet(s)  BY <1>2, <2>2 DEF ToSet
  <2>7. ToSet(s) = {s[i] : i \in 1 .. Len(s)}  BY <1>2 DEF ToSet
  <2>8. QED  BY <2>4, <2>5, <2>6, <2>7
<1>4. Range(t) = ToSet(t)  BY DEF Range, ToSet
<1>5. Queue(t)  BY <1>1, <1>4, SeqOfRange DEF Queue
<1>6. QED  BY <1>1, <1>3, <1>5

LEMMA OfferAppended ==
    ASSUME NEW s, Queue(s), NEW e, e.type \in Offers
    PROVE  /\ Queue(Append(s, e))
           /\ Waiting(Append(s, e)) = Waiting(s)
           /\ Alone(s) => Alone(Append(s, e))
<1> DEFINE t == Append(s, e)
<1>1. Waiting(t) = Waiting(s)  BY Appended DEF Waiting
<1>2. ASSUME Alone(s) PROVE Alone(t)
  <2>1. ASSUME NEW i \in 1 .. Len(t), t[i].type \notin Offers
        PROVE  i \in 1 .. Len(s) /\ t[i] = s[i]
    BY <2>1, Appended
  <2>2. QED  BY <1>2, <2>1 DEF Alone
<1>3. QED  BY <1>1, <1>2, Appended

LEMMA FirstAppended ==
    ASSUME NEW s, Queue(s), Waiting(s) = {}, NEW e, e.type \notin Offers
    PROVE  /\ Queue(Append(s, e))
           /\ Waiting(Append(s, e)) = {e}
           /\ Alone(Append(s, e))
<1> DEFINE t == Append(s, e)
<1>1. Waiting(t) = {e}  BY Appended DEF Waiting
<1>2. ASSUME NEW i \in 1 .. Len(t), t[i].type \notin Offers PROVE i = Len(t)
  <2>1. CASE i \in 1 .. Len(s)
    <3>1. s[i] = t[i] /\ s[i] \in ToSet(s)
      BY <2>1, Appended, LenProperties DEF ToSet, Queue
    <3>2. QED  BY <1>2, <3>1 DEF Waiting
  <2>2. QED  BY <2>1, Appended
<1>3. QED  BY <1>1, <1>2, Appended DEF Alone

LEMMA OfferTaken ==
    ASSUME NEW s, Queue(s), s # << >>, Head(s).type \in Offers
    PROVE  /\ Queue(Tail(s))
           /\ Waiting(Tail(s)) = Waiting(s)
           /\ Alone(s) => Alone(Tail(s))
<1>1. Waiting(Tail(s)) = Waiting(s)  BY Taken DEF Waiting
<1>2. ASSUME Alone(s), NEW i \in 1 .. Len(Tail(s)), NEW j \in 1 .. Len(Tail(s)),
             Tail(s)[i].type \notin Offers, Tail(s)[j].type \notin Offers
      PROVE  i = j
  <2>1. /\ i + 1 \in 1 .. Len(s) /\ j + 1 \in 1 .. Len(s)
        /\ Tail(s)[i] = s[i + 1] /\ Tail(s)[j] = s[j + 1]
    BY Taken
  <2>2. i + 1 = j + 1  BY <1>2, <2>1 DEF Alone
  <2>3. QED  BY <2>2
<1>3. QED  BY <1>1, <1>2, Taken DEF Alone

LEMMA OnlyOneTaken ==
    ASSUME NEW s, Queue(s), s # << >>, Alone(s), Head(s).type \notin Offers
    PROVE  /\ Queue(Tail(s))
           /\ Waiting(s) = {Head(s)}
           /\ Waiting(Tail(s)) = {}
           /\ Alone(Tail(s))
<1> DEFINE t == Tail(s)
<1>1. ASSUME NEW i \in 1 .. Len(t) PROVE t[i].type \in Offers
  <2>1. 1 \in 1 .. Len(s) /\ i + 1 \in 1 .. Len(s) /\ i + 1 # 1
    BY Taken
  <2>2. s[1] = Head(s) /\ t[i] = s[i + 1]  BY Taken
  <2>3. QED  BY <2>1, <2>2 DEF Alone
<1>2. DOMAIN t = 1 .. Len(t)  BY Taken, LenProperties DEF Queue
<1>3. \A m \in ToSet(t) : m.type \in Offers  BY <1>1, <1>2 DEF ToSet
<1>4. Waiting(t) = {} /\ Waiting(s) = {Head(s)}  BY <1>3, Taken DEF Waiting
<1>5. QED  BY <1>1, <1>4, Taken DEF Alone

-----------------------------------------------------------------------------
(* What a step does to the two queues.                                     *)

Creates == \E a \in Typable : CreateDirHere(a)

Sends == (\E e : toServer' = Append(toServer, e)) /\ UNCHANGED toClient
Gets == toClient # << >> /\ toClient' = Tail(toClient) /\ UNCHANGED toServer
Serves == /\ toServer # << >> /\ toServer' = Tail(toServer)
          /\ (\E m : toClient' = Append(toClient, m)) \/ UNCHANGED toClient
Hears == (\E m : toClient' = Append(toClient, m)) /\ UNCHANGED toServer

LEMMA QueueSteps ==
    ASSUME [Next]_vars
    PROVE  Sends \/ Gets \/ Serves \/ Hears \/ UNCHANGED <<toServer, toClient>>
<1>1. CASE UNCHANGED vars  BY <1>1 DEF vars
<1>2. CASE FlushDir \/ Creates
  BY <1>2 DEF FlushDir, Creates, CreateDirHere, Click, Ask, Sends
<1>3. CASE ReturnPre  BY <1>3 DEF ReturnPre, Sends
<1>4. ASSUME NEW n \in Names PROVE
        /\ DelDir(n) => Sends
        /\ DelRegFile(n) => Sends
        /\ EntryDir(n) => Sends
        /\ SelectMoveDir(n) => Sends
        /\ (\E a \in Typable : ReName(n, a)) => Sends
        /\ MoveFile(n) => UNCHANGED <<toServer, toClient>>
  BY DEF DelDir, DelRegFile, EntryDir, SelectMoveDir, ReName, MoveFile, Click, Ask, Sends
<1>5. CASE RecvFlushDir \/ RecvEntryDir \/ RecvWithBox
  BY <1>5 DEF RecvFlushDir, RecvEntryDir, RecvWithBox, Receives, Gets
<1>6. CASE BoxClosed \/ NoteClosed  BY <1>6 DEF BoxClosed, NoteClosed, Sends
<1>7. CASE Handle
  BY <1>7 DEF Handle, HandleFlushDir, HandleEntryDir, HandleCreateDir, HandleDelDir, HandleDelFile,
              HandleRenameFile, RenamesAway, HandleMoveFile, HandleShareNoteResponse, Takes, Reply,
              Serves
<1>8. CASE Note  BY <1>8 DEF Note, Hears
<1>9. CASE Stray  BY <1>9 DEF Stray, Strays
<1>10. QED  BY <1>1, <1>2, <1>3, <1>4, <1>5, <1>6, <1>7, <1>8, <1>9 DEF Next, Creates

LEMMA QueuesInit == Init => Queues
  BY EmptySeq DEF Init, Queues, Queue

LEMMA QueuesStep == ASSUME Queues, [Next]_vars PROVE Queues'
<1>1. CASE Sends  BY <1>1, Appended DEF Sends, Queues, Queue
<1>2. CASE Gets  BY <1>2, Taken DEF Gets, Queues, Queue
<1>3. CASE Serves
  <2>1. toServer' \in Seq(ToSet(toServer'))
    BY <1>3, Taken DEF Serves, Queues, Queue
  <2>2. toClient' \in Seq(ToSet(toClient'))
    <3>1. CASE UNCHANGED toClient  BY <3>1 DEF Queues, Queue
    <3>2. CASE \E m : toClient' = Append(toClient, m)
      BY <3>2, Appended DEF Queues, Queue
    <3>3. QED  BY <1>3, <3>1, <3>2 DEF Serves
  <2>3. QED  BY <2>1, <2>2 DEF Queues, Queue
<1>4. CASE Hears  BY <1>4, Appended DEF Hears, Queues, Queue
<1>5. CASE UNCHANGED <<toServer, toClient>>  BY <1>5 DEF Queues, Queue
<1>6. QED  BY <1>1, <1>2, <1>3, <1>4, <1>5, QueueSteps

-----------------------------------------------------------------------------
(* The name that waits to be appended.                                     *)

\* What keeps it waiting.
Expects(m, n) == \/ m.type = "ENTRY_DIR" /\ m.name = n
                 \/ m.type \in {"FLUSH_DIR_RESPONSE", "ENTRY_DIR_RESPONSE"}

LEMMA ExpectedInFlight ==
    EntryIsPending <=> (entry # NoName =>
        \E m \in ToSet(toServer) \cup ToSet(toClient) : Expects(m, entry))
  BY DEF EntryIsPending, InFlight, Offers, Expects

LEMMA StillPending ==
    ASSUME Queues, EntryIsPending, entry' = entry,
           \/ Sends \/ Hears \/ UNCHANGED <<toServer, toClient>>
           \/ Gets /\ ~Expects(Head(toClient), entry)
           \/ Serves /\ ~Expects(Head(toServer), entry)
    PROVE  EntryIsPending'
<1> DEFINE all == ToSet(toServer) \cup ToSet(toClient)
<1>1. \A m \in all : Expects(m, entry) => m \in ToSet(toServer') \cup ToSet(toClient')
  <2>1. CASE Sends  BY <2>1, Appended DEF Sends, Queues
  <2>2. CASE Hears  BY <2>2, Appended DEF Hears, Queues
  <2>3. CASE UNCHANGED <<toServer, toClient>>  BY <2>3
  <2>4. CASE Gets /\ ~Expects(Head(toClient), entry)
    BY <2>4, Taken DEF Gets, Queues
  <2>5. CASE Serves /\ ~Expects(Head(toServer), entry)
    <3>1. \A m \in ToSet(toServer) : m = Head(toServer) \/ m \in ToSet(toServer')
      BY <2>5, Taken DEF Serves, Queues
    <3>2. ToSet(toClient) \subseteq ToSet(toClient')
      <4>1. CASE UNCHANGED toClient  BY <4>1
      <4>2. CASE \E m : toClient' = Append(toClient, m)
        BY <4>2, Appended DEF Queues
      <4>3. QED  BY <2>5, <4>1, <4>2 DEF Serves
    <3>3. QED  BY <2>5, <3>1, <3>2
  <2>6. QED  BY <2>1, <2>2, <2>3, <2>4, <2>5
<1>2. CASE entry = NoName  BY <1>2 DEF EntryIsPending
<1>3. CASE entry # NoName
  <2>1. PICK m \in all : Expects(m, entry)  BY <1>3, ExpectedInFlight
  <2>2. \/ m.type = "ENTRY_DIR" /\ m.name = entry'
        \/ m.type \in {"FLUSH_DIR_RESPONSE", "ENTRY_DIR_RESPONSE"}
    BY <2>1 DEF Expects
  <2>3. m \in InFlight'  BY <1>1, <2>1, <2>2 DEF InFlight, Offers
  <2>4. QED  BY <2>2, <2>3 DEF EntryIsPending
<1>4. QED  BY <1>2, <1>3

LEMMA PendingInit == Init => EntryIsPending
  BY DEF Init, EntryIsPending

LEMMA PendingStep == ASSUME Queues, EntryIsPending, [Next]_vars PROVE EntryIsPending'
<1>1. CASE UNCHANGED vars  BY <1>1, StillPending DEF vars, client
<1>2. CASE FlushDir \/ Creates
  BY <1>2, StillPending DEF FlushDir, Creates, CreateDirHere, Click, Ask, Sends
<1>3. CASE ReturnPre
  <2>1. entry' = NoName  BY <1>3 DEF ReturnPre
  <2>2. QED  BY <2>1 DEF EntryIsPending
<1>4. ASSUME NEW n \in Names PROVE
        /\ DelDir(n) => EntryIsPending'
        /\ DelRegFile(n) => EntryIsPending'
        /\ SelectMoveDir(n) => EntryIsPending'
        /\ (\E a \in Typable : ReName(n, a)) => EntryIsPending'
        /\ MoveFile(n) => EntryIsPending'
  BY StillPending DEF DelDir, DelRegFile, SelectMoveDir, ReName, MoveFile, Click, Ask, Sends
<1>5. ASSUME NEW n \in Names, EntryDir(n) PROVE EntryIsPending'
  <2>1. PICK r : toServer' = Append(toServer, r) /\ r.type = "ENTRY_DIR" /\ r.name = n
    BY <1>5 DEF EntryDir, Ask, Request
  <2>2. entry' = n  BY <1>5 DEF EntryDir
  <2>3. r \in ToSet(toServer')  BY <2>1, Appended DEF Queues
  <2>4. r \in InFlight'  BY <2>1, <2>3 DEF InFlight, Offers
  <2>5. QED  BY <2>1, <2>2, <2>4 DEF EntryIsPending
<1>6. CASE RecvFlushDir \/ RecvEntryDir
  <2>1. entry' = NoName  BY <1>6 DEF RecvFlushDir, RecvEntryDir
  <2>2. QED  BY <2>1 DEF EntryIsPending
<1>7. CASE RecvWithBox
  <2>1. Gets /\ entry' = entry  BY <1>7 DEF RecvWithBox, Receives, Gets
  <2>2. ~Expects(Head(toClient), entry)  BY <1>7 DEF RecvWithBox, Receives, Boxes, Expects
  <2>3. QED  BY <2>1, <2>2, StillPending
<1>8. CASE BoxClosed \/ NoteClosed
  BY <1>8, StillPending DEF BoxClosed, NoteClosed, Sends
<1>9. CASE HandleEntryDir
  <2>1. PICK m : /\ toClient' = Append(toClient, m)
                 /\ m.type \in {"FLUSH_DIR_RESPONSE", "ENTRY_DIR_RESPONSE"}
    BY <1>9 DEF HandleEntryDir, Reply, Answer
  <2>2. m \in ToSet(toClient')  BY <2>1, Appended DEF Queues
  <2>3. m \in InFlight'  BY <2>1, <2>2 DEF InFlight, Offers
  <2>4. QED  BY <2>1, <2>3 DEF EntryIsPending
<1>10. ASSUME NEW t, Takes(t), t \notin {"ENTRY_DIR", "FLUSH_DIR_RESPONSE", "ENTRY_DIR_RESPONSE"},
              (\E m : toClient' = Append(toClient, m)) \/ UNCHANGED toClient
       PROVE  EntryIsPending'
  <2>1. Serves /\ entry' = entry  BY <1>10 DEF Takes, Serves, client
  <2>2. ~Expects(Head(toServer), entry)  BY <1>10 DEF Takes, Expects
  <2>3. QED  BY <2>1, <2>2, StillPending
<1>11. CASE HandleFlushDir  BY <1>10, <1>11 DEF HandleFlushDir, Reply
<1>12. CASE HandleCreateDir  BY <1>10, <1>12 DEF HandleCreateDir, Reply
<1>13. CASE HandleDelDir  BY <1>10, <1>13 DEF HandleDelDir, Reply
<1>14. CASE HandleDelFile  BY <1>10, <1>14 DEF HandleDelFile, Reply
<1>15. CASE HandleRenameFile  BY <1>10, <1>15 DEF HandleRenameFile, RenamesAway, Reply
<1>16. CASE HandleMoveFile  BY <1>10, <1>16 DEF HandleMoveFile, Reply
<1>17. CASE HandleShareNoteResponse
  BY <1>10, <1>17 DEF HandleShareNoteResponse
<1>18. CASE Note  BY <1>18, StillPending DEF Note, Hears, client
<1>19. CASE Stray  BY <1>19, StillPending DEF Stray, Strays, client
<1>20. QED
  BY <1>1, <1>2, <1>3, <1>4, <1>5, <1>6, <1>7, <1>8, <1>9, <1>11, <1>12, <1>13, <1>14, <1>15,
     <1>16, <1>17, <1>18, <1>19 DEF Next, Handle, Creates

\* A name waits to be appended only while the answer to its double click is
\* still to come, whoever the user is and however he clicks.
THEOREM EntryPending == Spec => []EntryIsPending
<1>1. Init => Queues /\ EntryIsPending  BY QueuesInit, PendingInit
<1>2. Queues /\ EntryIsPending /\ [Next]_vars => Queues' /\ EntryIsPending'
  BY QueuesStep, PendingStep
<1>3. QED  BY <1>1, <1>2, PTL DEF Spec

-----------------------------------------------------------------------------
(* Who waits, sees the directory he is in.                                 *)

InHand == OneAtATime /\ InStep

LEMMA WaitingInFlight == InFlight = Waiting(toServer) \cup Waiting(toClient)
  BY DEF InFlight, Waiting

LEMMA PatientInit == Init => InHand
<1>1. Waiting(<< >>) = {} /\ Alone(<< >>)  BY DEF Waiting, ToSet, Alone
<1>2. QED  BY <1>1 DEF Init, InHand, OneAtATime, InStep

\* A click of who waits finds nothing on its way and the window true.
LEMMA Clicked ==
    ASSUME Queues, InHand, patience = "all", MayClick, NEW r, r.type \notin Offers,
           toServer' = Append(toServer, r), UNCHANGED <<toClient, dialog>>, RequestFits(r)'
    PROVE  InHand'
<1>1. Waiting(toServer) = {} /\ Waiting(toClient) = {} /\ dialog = NoPdu
  BY WaitingInFlight DEF MayClick
<1>2. /\ Waiting(toServer') = {r} /\ Alone(toServer')
      /\ Waiting(toClient') = {} /\ Alone(toClient')
  BY <1>1, FirstAppended DEF Queues, InHand, OneAtATime
<1>3. OneAtATime'  BY <1>1, <1>2 DEF OneAtATime
<1>4. InStep'  BY <1>2 DEF InStep
<1>5. QED  BY <1>3, <1>4 DEF InHand

LEMMA ClickedHere ==
    ASSUME Queues, InHand, patience = "all", NEW t, NEW n, NEW arg, Click(t, n, arg),
           t \notin Offers \cup {"ENTRY_DIR"}
    PROVE  InHand'
<1>1. MayClick /\ UNCHANGED <<toClient, dialog, path, entry, shownOf>>
  BY DEF Click, Ask
<1>2. PICK r : toServer' = Append(toServer, r) /\ r.type = t /\ r.path = path
  BY DEF Click, Ask, Request
<1>3. entry = NoName /\ shownOf = path
  BY <1>1, WaitingInFlight DEF MayClick, InHand, InStep
<1>4. RequestFits(r)'  BY <1>1, <1>2, <1>3 DEF RequestFits
<1>5. QED  BY <1>1, <1>2, <1>4, Clicked

\* What the thread of the connection takes is the only thing on its way, and
\* its reply then is.
LEMMA Served ==
    ASSUME Queues, InHand, NEW t, Takes(t), t \notin Offers,
           NEW m, toClient' = Append(toClient, m), m.type \notin Offers,
           AnswerFits(m)
    PROVE  InHand'
<1>1. /\ toServer # << >> /\ Head(toServer).type = t /\ toServer' = Tail(toServer)
      /\ UNCHANGED <<dialog, path, entry, shownOf>>
  BY DEF Takes, client
<1>2. /\ Waiting(toServer) = {Head(toServer)}
      /\ Waiting(toServer') = {} /\ Alone(toServer')
  BY <1>1, OnlyOneTaken DEF Queues, InHand, OneAtATime
<1>3. Waiting(toClient) = {} /\ dialog \in {NoPdu, "SHARE_FILE_NOTE"}
  BY <1>2 DEF InHand, OneAtATime
<1>4. Waiting(toClient') = {m} /\ Alone(toClient')
  BY <1>3, FirstAppended DEF Queues
<1>5. OneAtATime'  BY <1>1, <1>2, <1>3, <1>4 DEF OneAtATime
<1>6. InStep'  BY <1>1, <1>2, <1>4 DEF InStep, AnswerFits
<1>7. QED  BY <1>5, <1>6 DEF InHand

LEMMA ServedFits ==
    ASSUME Queues, InHand, NEW t, Takes(t), t \notin Offers
    PROVE  Head(toServer).type = t /\ RequestFits(Head(toServer))
<1>1. toServer # << >> /\ Head(toServer).type = t  BY DEF Takes
<1>2. Head(toServer) \in Waiting(toServer)
  BY <1>1, OnlyOneTaken DEF Queues, InHand, OneAtATime
<1>3. QED  BY <1>1, <1>2 DEF InHand, InStep

\* All handlers but those of FLUSH_DIR and ENTRY_DIR send no listing.
LEMMA ServedOtherwise ==
    ASSUME Queues, InHand, NEW t, Takes(t), t \notin Offers \cup {"FLUSH_DIR", "ENTRY_DIR"},
           NEW m, toClient' = Append(toClient, m),
           m.type \notin Offers \cup {"FLUSH_DIR_RESPONSE", "ENTRY_DIR_RESPONSE"}
    PROVE  InHand'
<1>1. entry = NoName /\ shownOf = path  BY ServedFits DEF RequestFits
<1>2. AnswerFits(m)  BY <1>1 DEF AnswerFits
<1>3. QED  BY <1>2, Served

\* With what the client takes nothing is on its way any more.
LEMMA Received ==
    ASSUME Queues, InHand, NEW t, Receives(t), t \notin Offers
    PROVE  /\ Head(toClient).type = t /\ AnswerFits(Head(toClient))
           /\ Waiting(toServer') = {} /\ Alone(toServer')
           /\ Waiting(toClient') = {} /\ Alone(toClient')
<1>1. /\ toClient # << >> /\ Head(toClient).type = t
      /\ toClient' = Tail(toClient) /\ toServer' = toServer
  BY DEF Receives
<1>2. /\ Waiting(toClient) = {Head(toClient)}
      /\ Waiting(toClient') = {} /\ Alone(toClient')
  BY <1>1, OnlyOneTaken DEF Queues, InHand, OneAtATime
<1>3. Waiting(toServer) = {} /\ Alone(toServer)  BY <1>2 DEF InHand, OneAtATime
<1>4. AnswerFits(Head(toClient))  BY <1>2 DEF InHand, InStep
<1>5. QED  BY <1>1, <1>2, <1>3, <1>4

LEMMA NowTrue ==
    ASSUME Waiting(toServer)' = {}, Alone(toServer)', Waiting(toClient)' = {}, Alone(toClient)',
           entry' = NoName, shownOf' = path'
    PROVE  InHand'
  BY DEF InHand, OneAtATime, InStep

\* Offers come and go in between.
LEMMA NothingNew ==
    ASSUME InHand, UNCHANGED <<path, entry, shownOf>>,
           Waiting(toServer') = Waiting(toServer), Alone(toServer'),
           Waiting(toClient') = Waiting(toClient), Alone(toClient'),
           dialog' \in {dialog, NoPdu, "SHARE_FILE_NOTE"}
    PROVE  InHand'
<1>1. OneAtATime'  BY DEF InHand, OneAtATime
<1>2. InStep'  BY DEF InHand, InStep, RequestFits, AnswerFits
<1>3. QED  BY <1>1, <1>2 DEF InHand

\* The user's steps.
LEMMA RefreshInHand ==
    ASSUME Queues, InHand, patience = "all"
    PROVE  (FlushDir => InHand') /\ (Creates => InHand') /\ (ReturnPre => InHand')
<1>1. FlushDir => InHand'  BY ClickedHere DEF FlushDir, Offers
<1>2. ASSUME ReturnPre PROVE InHand'
  <2>1. MayClick /\ UNCHANGED <<toClient, dialog>> /\ entry' = NoName
    BY <1>2 DEF ReturnPre
  <2>2. PICK r : toServer' = Append(toServer, r) /\ r.type = "FLUSH_DIR" /\ r.path = path'
    BY <1>2 DEF ReturnPre, Request
  <2>3. RequestFits(r)' /\ r.type \notin Offers  BY <2>1, <2>2 DEF RequestFits, Offers
  <2>4. QED  BY <2>1, <2>2, <2>3, Clicked
<1>3. Creates => InHand'  BY ClickedHere DEF Creates, CreateDirHere, Offers
<1>4. QED  BY <1>1, <1>2, <1>3

LEMMA UserInHand ==
    ASSUME Queues, InHand, patience = "all", NEW n \in Names
    PROVE  /\ DelDir(n) => InHand'
           /\ DelRegFile(n) => InHand'
           /\ (\E a \in Typable : ReName(n, a)) => InHand'
           /\ EntryDir(n) => InHand'
           /\ MoveFile(n) => InHand'
           /\ SelectMoveDir(n) => InHand'
<1>2. DelDir(n) => InHand'  BY ClickedHere DEF DelDir, Offers
<1>3. DelRegFile(n) => InHand'  BY ClickedHere DEF DelRegFile, Offers
<1>4. (\E a \in Typable : ReName(n, a)) => InHand'  BY ClickedHere DEF ReName, Offers
<1>5. ASSUME EntryDir(n) PROVE InHand'
  <2>1. MayClick /\ UNCHANGED <<toClient, dialog, path, shownOf>> /\ entry' = n /\ n # NoName
    BY <1>5, NavigationAssumption DEF EntryDir, Ask
  <2>2. PICK r : /\ toServer' = Append(toServer, r)
                 /\ r.type = "ENTRY_DIR" /\ r.path = path /\ r.name = n
    BY <1>5 DEF EntryDir, Ask, Request
  <2>3. shownOf = path  BY <2>1, WaitingInFlight DEF MayClick, InHand, InStep
  <2>4. RequestFits(r)' /\ r.type \notin Offers
    BY <2>1, <2>2, <2>3 DEF RequestFits, Offers
  <2>5. QED  BY <2>1, <2>2, <2>4, Clicked
<1>6. ASSUME MoveFile(n) PROVE InHand'
  <2>1. UNCHANGED <<path, entry, shownOf, dialog, toServer, toClient>>  BY <1>6 DEF MoveFile
  <2>2. QED  BY <2>1 DEF InHand, OneAtATime, InStep, RequestFits, AnswerFits
<1>7. ASSUME SelectMoveDir(n) PROVE InHand'
  <2>1. MayClick /\ UNCHANGED <<toClient, dialog, path, entry, shownOf>>
    BY <1>7 DEF SelectMoveDir
  <2>2. PICK r : toServer' = Append(toServer, r) /\ r.type = "MOVE_FILE"
    BY <1>7 DEF SelectMoveDir, Request
  <2>3. entry = NoName /\ shownOf = path
    BY <2>1, WaitingInFlight DEF MayClick, InHand, InStep
  <2>4. RequestFits(r)' /\ r.type \notin Offers
    BY <2>1, <2>2, <2>3 DEF RequestFits, Offers
  <2>5. QED  BY <2>1, <2>2, <2>4, Clicked
<1>8. QED  BY <1>2, <1>3, <1>4, <1>5, <1>6, <1>7

\* The client's.
LEMMA ClientInHand ==
    ASSUME Queues, InHand
    PROVE  /\ RecvFlushDir => InHand'
           /\ RecvEntryDir => InHand'
           /\ RecvWithBox => InHand'
           /\ BoxClosed => InHand'
           /\ NoteClosed => InHand'
<1>1. ASSUME RecvFlushDir PROVE InHand'
  <2>1. /\ AnswerFits(Head(toClient)) /\ Head(toClient).type = "FLUSH_DIR_RESPONSE"
        /\ Waiting(toServer') = {} /\ Alone(toServer')
        /\ Waiting(toClient') = {} /\ Alone(toClient')
    BY <1>1, Received DEF RecvFlushDir, Offers
  <2>2. entry' = NoName /\ shownOf' = path'
    BY <1>1, <2>1 DEF RecvFlushDir, AnswerFits
  <2>3. QED  BY <2>1, <2>2, NowTrue
<1>2. ASSUME RecvEntryDir PROVE InHand'
  <2>1. /\ AnswerFits(Head(toClient)) /\ Head(toClient).type = "ENTRY_DIR_RESPONSE"
        /\ Waiting(toServer') = {} /\ Alone(toServer')
        /\ Waiting(toClient') = {} /\ Alone(toClient')
    BY <1>2, Received DEF RecvEntryDir, Offers
  <2>2. entry' = NoName /\ shownOf' = path'
    BY <1>2, <2>1 DEF RecvEntryDir, AnswerFits
  <2>3. QED  BY <2>1, <2>2, NowTrue
<1>3. ASSUME NEW t \in Boxes, Receives(t), dialog' = t, UNCHANGED <<path, entry, shown, shownOf>>
      PROVE  InHand'
  <2>1. CASE t = "SHARE_FILE_NOTE"
    <3>1. toClient # << >> /\ Head(toClient).type \in Offers
          /\ toClient' = Tail(toClient) /\ toServer' = toServer
      BY <1>3, <2>1 DEF Receives, Offers
    <3>2. Waiting(toClient') = Waiting(toClient) /\ Alone(toClient')
      BY <3>1, OfferTaken DEF Queues, InHand, OneAtATime
    <3>3. QED  BY <1>3, <2>1, <3>1, <3>2, NothingNew DEF InHand, OneAtATime
  <2>2. CASE t # "SHARE_FILE_NOTE"
    <3>1. t \notin Offers \cup {"FLUSH_DIR_RESPONSE", "ENTRY_DIR_RESPONSE"}
      BY <2>2 DEF Boxes, Offers
    <3>2. /\ AnswerFits(Head(toClient)) /\ Head(toClient).type = t
          /\ Waiting(toServer') = {} /\ Alone(toServer')
          /\ Waiting(toClient') = {} /\ Alone(toClient')
      BY <1>3, <3>1, Received
    <3>3. entry' = NoName /\ shownOf' = path'  BY <1>3, <3>1, <3>2 DEF AnswerFits
    <3>4. QED  BY <3>2, <3>3, NowTrue
  <2>3. QED  BY <2>1, <2>2
<1>4. RecvWithBox => InHand'  BY <1>3 DEF RecvWithBox
<1>5. ASSUME BoxClosed PROVE InHand'
  <2>1. /\ Waiting(toServer) = {} /\ Waiting(toClient) = {}
        /\ dialog' = NoPdu /\ UNCHANGED <<path, entry, shownOf, toClient>>
        /\ entry = NoName /\ shownOf = path
    BY <1>5 DEF BoxClosed, InHand, OneAtATime, InStep
  <2>2. CASE toServer' = toServer  BY <2>1, <2>2, NothingNew DEF InHand, OneAtATime
  <2>3. CASE toServer' # toServer
    <3>1. PICK r : toServer' = Append(toServer, r) /\ r.type = "FLUSH_DIR" /\ r.path = path
      BY <1>5, <2>3 DEF BoxClosed, Request
    <3>2. Waiting(toServer') = {r} /\ Alone(toServer')
      BY <2>1, <3>1, FirstAppended DEF Queues, Offers
    <3>3. RequestFits(r)'  BY <2>1, <3>1 DEF RequestFits
    <3>4. QED  BY <2>1, <3>2, <3>3 DEF InHand, OneAtATime, InStep
  <2>4. QED  BY <2>2, <2>3
<1>6. ASSUME NoteClosed PROVE InHand'
  <2>1. dialog' = NoPdu /\ UNCHANGED <<path, entry, shownOf, toClient>>
    BY <1>6 DEF NoteClosed
  <2>2. Waiting(toServer') = Waiting(toServer) /\ Alone(toServer')
    <3>1. CASE toServer' = toServer  BY <3>1 DEF InHand, OneAtATime
    <3>2. CASE toServer' # toServer
      <4>1. PICK n \in Names :
              toServer' = Append(toServer, Request("SHARE_FILE_NOTE_RESPONSE", Home, n, << >>, TRUE))
        BY <1>6, <3>2 DEF NoteClosed
      <4>2. PICK r : toServer' = Append(toServer, r) /\ r.type \in Offers
        BY <4>1 DEF Request, Offers
      <4>3. QED  BY <4>2, OfferAppended DEF Queues, InHand, OneAtATime
    <3>3. QED  BY <3>1, <3>2
  <2>3. QED  BY <2>1, <2>2, NothingNew DEF InHand, OneAtATime
<1>7. QED  BY <1>1, <1>2, <1>4, <1>5, <1>6

\* The handlers', and what others offer or bring.
LEMMA ServerInHand == ASSUME Queues, InHand, Handle \/ Note \/ Stray PROVE InHand'
<1>1. CASE HandleFlushDir
  <2>1. Takes("FLUSH_DIR") /\ "FLUSH_DIR" \notin Offers  BY <1>1 DEF HandleFlushDir, Offers
  <2>2. Head(toServer).type = "FLUSH_DIR" /\ RequestFits(Head(toServer))
    BY <2>1, ServedFits
  <2>3. PICK m : /\ toClient' = Append(toClient, m)
                 /\ m.type = "FLUSH_DIR_RESPONSE" /\ m.of = Head(toServer).path
    BY <1>1 DEF HandleFlushDir, Reply, Answer
  <2>4. AnswerFits(m) /\ m.type \notin Offers
    BY <2>2, <2>3 DEF RequestFits, AnswerFits, Offers
  <2>5. QED  BY <2>1, <2>3, <2>4, Served
<1>2. CASE HandleEntryDir
  <2>1. Takes("ENTRY_DIR") /\ "ENTRY_DIR" \notin Offers  BY <1>2 DEF HandleEntryDir, Offers
  <2>2. Head(toServer).type = "ENTRY_DIR" /\ RequestFits(Head(toServer))
    BY <2>1, ServedFits
  <2>3. PICK m : /\ toClient' = Append(toClient, m)
                 /\ \/ m.type = "FLUSH_DIR_RESPONSE" /\ m.of = Target(Head(toServer))
                    \/ m.type = "ENTRY_DIR_RESPONSE"
    BY <1>2 DEF HandleEntryDir, Reply, Answer
  <2>4. AnswerFits(m) /\ m.type \notin Offers
    BY <2>2, <2>3 DEF RequestFits, AnswerFits, Offers, Target
  <2>5. QED  BY <2>1, <2>3, <2>4, Served
<1> DEFINE Reports(t, a) ==
             /\ Takes(t)
             /\ \E m : toClient' = Append(toClient, m) /\ m.type = a
<1>3. ASSUME NEW t, t \notin Offers \cup {"FLUSH_DIR", "ENTRY_DIR"}, Takes(t),
             NEW a, a \notin Offers \cup {"FLUSH_DIR_RESPONSE", "ENTRY_DIR_RESPONSE"},
             \E m : toClient' = Append(toClient, m) /\ m.type = a
      PROVE  InHand'
  BY <1>3, ServedOtherwise
<1>4. CASE HandleCreateDir
  <2>1. Reports("CREATE_DIR", "CREATE_DIR_RESPONSE")
    BY <1>4 DEF HandleCreateDir, Reply, Answer
  <2>2. QED  BY <1>3, <2>1 DEF Offers
<1>5. CASE HandleDelDir
  <2>1. Reports("DEL_DIR", "DEL_DIR_RESPONSE")  BY <1>5 DEF HandleDelDir, Reply, Answer
  <2>2. QED  BY <1>3, <2>1 DEF Offers
<1>6. CASE HandleDelFile
  <2>1. Reports("DEL_FILE", "DEL_FILE_RESPONSE")  BY <1>6 DEF HandleDelFile, Reply, Answer
  <2>2. QED  BY <1>3, <2>1 DEF Offers
<1>7. CASE HandleRenameFile
  <2>1. PICK ok, q : Reply("RENAME_FILE_RESPONSE", ok, q, {})
    BY <1>7 DEF HandleRenameFile, RenamesAway
  <2>2. Takes("RENAME_FILE")  BY <1>7 DEF HandleRenameFile
  <2>3. \E m : toClient' = Append(toClient, m) /\ m.type = "RENAME_FILE_RESPONSE"
    BY <2>1 DEF Reply, Answer
  <2>4. QED  BY <1>3, <2>2, <2>3 DEF Offers
<1>8. CASE HandleMoveFile
  <2>1. PICK ok, q : Reply("MOVE_FILE_RESPONSE", ok, q, {})  BY <1>8 DEF HandleMoveFile
  <2>2. Takes("MOVE_FILE")  BY <1>8 DEF HandleMoveFile
  <2>3. \E m : toClient' = Append(toClient, m) /\ m.type = "MOVE_FILE_RESPONSE"
    BY <2>1 DEF Reply, Answer
  <2>4. QED  BY <1>3, <2>2, <2>3 DEF Offers
<1>9. CASE HandleShareNoteResponse
  <2>1. /\ toServer # << >> /\ Head(toServer).type \in Offers /\ toServer' = Tail(toServer)
        /\ UNCHANGED <<toClient, dialog, path, entry, shownOf>>
    BY <1>9 DEF HandleShareNoteResponse, Takes, client, Offers
  <2>2. Waiting(toServer') = Waiting(toServer) /\ Alone(toServer')
    BY <2>1, OfferTaken DEF Queues, InHand, OneAtATime
  <2>3. QED  BY <2>1, <2>2, NothingNew DEF InHand, OneAtATime
<1>10. CASE Note
  <2>1. PICK m : toClient' = Append(toClient, m) /\ m.type = "SHARE_FILE_NOTE"
    BY <1>10 DEF Note
  <2>2. UNCHANGED <<toServer, dialog, path, entry, shownOf>>  BY <1>10 DEF Note, client
  <2>3. Waiting(toClient') = Waiting(toClient) /\ Alone(toClient')
    BY <2>1, OfferAppended DEF Queues, InHand, OneAtATime, Offers
  <2>4. QED  BY <2>2, <2>3, NothingNew DEF InHand, OneAtATime
<1>11. CASE Stray
  <2>1. UNCHANGED <<toServer, toClient, dialog, path, entry, shownOf>>
    BY <1>11 DEF Stray, Strays, client
  <2>2. QED  BY <2>1, NothingNew DEF InHand, OneAtATime
<1>12. QED
  BY <1>1, <1>2, <1>4, <1>5, <1>6, <1>7, <1>8, <1>9, <1>10, <1>11 DEF Handle

LEMMA PatienceKept == ASSUME [Next]_vars PROVE patience' = patience
  BY DEF Next, vars, bounds, FlushDir, ReturnPre, CreateDirHere, DelDir, DelRegFile, EntryDir,
         MoveFile, SelectMoveDir, ReName, Click, Ask, RecvFlushDir, RecvEntryDir, RecvWithBox,
         Receives, BoxClosed, NoteClosed, Handle, HandleFlushDir, HandleEntryDir,
         HandleCreateDir, HandleDelDir, HandleDelFile, HandleRenameFile, HandleMoveFile,
         HandleShareNoteResponse, Takes, Note, Stray, Strays

LEMMA InHandStep ==
    ASSUME Queues, patience = "all", InHand, [Next]_vars
    PROVE  InHand'
<1>1. CASE UNCHANGED vars
  BY <1>1 DEF vars, client, InHand, OneAtATime, InStep, RequestFits, AnswerFits
<1>2. CASE FlushDir \/ Creates \/ ReturnPre \/ \E n \in Names :
            \/ DelDir(n) \/ DelRegFile(n) \/ EntryDir(n) \/ MoveFile(n) \/ SelectMoveDir(n)
            \/ \E a \in Typable : ReName(n, a)
  BY <1>2, RefreshInHand, UserInHand
<1>3. CASE RecvFlushDir \/ RecvEntryDir \/ RecvWithBox \/ BoxClosed \/ NoteClosed
  BY <1>3, ClientInHand
<1>4. CASE Handle \/ Note \/ Stray  BY <1>4, ServerInHand
<1>5. QED  BY <1>1, <1>2, <1>3, <1>4 DEF Next, Creates

\* Who waits until nothing is on its way acts on the directory he sees: the
\* list shown is that of the current path, which the client sends.
THEOREM PathIsShown == Spec => []PatientSeesPath
<1>1. Init => IInv  BY QueuesInit, PatientInit DEF IInv, InHand
<1>2. IInv /\ [Next]_vars => IInv'
  BY QueuesStep, InHandStep, PatienceKept DEF IInv, InHand
<1>3. IInv => PatientSeesPath
  BY WaitingInFlight DEF IInv, InStep, PatientSeesPath, ListIsOfPath
<1>4. QED  BY <1>1, <1>2, <1>3, PTL DEF Spec

-----------------------------------------------------------------------------
(* Paths.                                                                  *)

LEMMA PrefixByNames ==
    ASSUME NEW V, NEW p \in Seq(V), NEW q \in Seq(V)
    PROVE  IsPrefix(p, q) <=> Len(p) <= Len(q) /\ \A i \in 1 .. Len(p) : p[i] = q[i]
<1>1. Len(p) \in Nat /\ Len(q) \in Nat  BY LenProperties
<1>2. SubSeq(p, 1, Len(p)) = p  BY SubSeqFull
<1>3. ASSUME Len(p) <= Len(q)
      PROVE  /\ SubSeq(q, 1, Len(p)) \in Seq(V) /\ Len(SubSeq(q, 1, Len(p))) = Len(p)
             /\ \A i \in 1 .. Len(p) : SubSeq(q, 1, Len(p))[i] = q[i]
  <2>1. \A i \in 1 .. Len(p) : q[i] \in V  BY <1>1, <1>3, ElementOfSeq
  <2>2. QED  BY <1>1, <2>1, SubSeqProperties
<1>4. ASSUME Len(p) <= Len(q)
      PROVE  SubSeq(q, 1, Len(p)) = p <=> \A i \in 1 .. Len(p) : p[i] = q[i]
  <2>1. ASSUME \A i \in 1 .. Len(p) : p[i] = q[i] PROVE SubSeq(q, 1, Len(p)) = p
    BY <1>3, <1>4, <2>1, SeqEqual
  <2>2. QED  BY <1>3, <1>4, <2>1
<1>5. QED  BY <1>2, <1>4 DEF IsPrefix

\* The first k names of a path.
LEMMA Starts ==
    ASSUME NEW V, NEW p \in Seq(V), NEW k \in 0 .. Len(p)
    PROVE  LET s == SubSeq(p, 1, k) IN
           /\ s \in Seq(V) /\ Len(s) = k
           /\ \A i \in 1 .. k : s[i] = p[i]
           /\ \A j \in 0 .. k : SubSeq(s, 1, j) = SubSeq(p, 1, j)
           /\ IsPrefix(s, p)
<1> DEFINE s == SubSeq(p, 1, k)
<1>1. Len(p) \in Nat /\ \A i \in 1 .. Len(p) : p[i] \in V  BY LenProperties, ElementOfSeq
<1>2. \A j \in 0 .. Len(p) : /\ SubSeq(p, 1, j) \in Seq(V) /\ Len(SubSeq(p, 1, j)) = j
                            /\ \A i \in 1 .. j : SubSeq(p, 1, j)[i] = p[i]
  <2> SUFFICES ASSUME NEW j \in 0 .. Len(p)
               PROVE  /\ SubSeq(p, 1, j) \in Seq(V) /\ Len(SubSeq(p, 1, j)) = j
                      /\ \A i \in 1 .. j : SubSeq(p, 1, j)[i] = p[i]
    OBVIOUS
  <2>1. j \in Int /\ \A i \in 1 .. j : p[i] \in V  BY <1>1
  <2>2. QED  BY <1>1, <2>1, SubSeqProperties
<1>3. ASSUME NEW j \in 0 .. k PROVE SubSeq(s, 1, j) = SubSeq(p, 1, j)
  <2>1. j \in Int /\ j \in 0 .. Len(p) /\ \A i \in 1 .. j : s[i] \in V  BY <1>1, <1>2
  <2>2. /\ SubSeq(s, 1, j) \in Seq(V) /\ Len(SubSeq(s, 1, j)) = j
        /\ \A i \in 1 .. j : SubSeq(s, 1, j)[i] = s[i]
    BY <2>1, SubSeqProperties
  <2>3. \A i \in 1 .. j : SubSeq(s, 1, j)[i] = SubSeq(p, 1, j)[i]
    BY <1>1, <1>2, <2>1, <2>2
  <2>4. QED  BY <1>2, <2>1, <2>2, <2>3, SeqEqual
<1>4. IsPrefix(s, p)
  <2>1. s \in Seq(V) /\ Len(s) = k /\ \A i \in 1 .. k : s[i] = p[i]  BY <1>2
  <2>2. Len(s) <= Len(p) /\ \A i \in 1 .. Len(s) : s[i] = p[i]  BY <1>1, <2>1
  <2> HIDE DEF s
  <2>3. QED  BY <2>1, <2>2, PrefixByNames
<1>5. QED  BY <1>2, <1>3, <1>4

\* A prefix is the first names.
LEMMA PrefixIsStart ==
    ASSUME NEW V, NEW p \in Seq(V), NEW q \in Seq(V), IsPrefix(p, q)
    PROVE  Len(p) \in 0 .. Len(q) /\ SubSeq(q, 1, Len(p)) = p
<1>1. SubSeq(p, 1, Len(p)) = p  BY SubSeqFull
<1>2. Len(p) \in Nat /\ Len(q) \in Nat  BY LenProperties
<1>3. QED  BY <1>1, <1>2 DEF IsPrefix

LEMMA PrefixOrder ==
    ASSUME NEW V, NEW p \in Seq(V), NEW q \in Seq(V)
    PROVE  /\ IsPrefix(p, p)
           /\ IsPrefix(p, q) /\ Len(p) = Len(q) => p = q
           /\ \A r \in Seq(V) : IsPrefix(p, q) /\ IsPrefix(q, r) => IsPrefix(p, r)
           /\ \A r \in Seq(V) : IsPrefix(p, r) /\ IsPrefix(q, r) /\ Len(p) <= Len(q)
                                  => IsPrefix(p, q)
<1>1. Len(p) \in Nat /\ Len(q) \in Nat /\ \A r \in Seq(V) : Len(r) \in Nat  BY LenProperties
<1>2. IsPrefix(p, p)  BY <1>1, PrefixByNames
<1>3. IsPrefix(p, q) /\ Len(p) = Len(q) => p = q  BY <1>1, PrefixByNames, SeqEqual
<1>4. ASSUME NEW r \in Seq(V), IsPrefix(p, q), IsPrefix(q, r) PROVE IsPrefix(p, r)
  BY <1>1, <1>4, PrefixByNames
<1>5. ASSUME NEW r \in Seq(V), IsPrefix(p, r), IsPrefix(q, r), Len(p) <= Len(q) PROVE IsPrefix(p, q)
  <2>1. \A i \in 1 .. Len(p) : p[i] = r[i]  BY <1>5, PrefixByNames
  <2>2. \A i \in 1 .. Len(q) : q[i] = r[i]  BY <1>5, PrefixByNames
  <2>3. \A i \in 1 .. Len(p) : p[i] = q[i]  BY <1>1, <1>5, <2>1, <2>2
  <2>4. QED  BY <1>5, <2>3, PrefixByNames
<1>6. QED  BY <1>2, <1>3, <1>4, <1>5

\* What Moved is, name by name.
LEMMA MovedByNames ==
    ASSUME NEW V, NEW p \in Seq(V), NEW q \in Seq(V), NEW r \in Seq(V), Len(p) <= Len(r)
    PROVE  LET m == Moved(p, q, r) IN
           /\ m \in Seq(V) /\ Len(m) = Len(q) + (Len(r) - Len(p))
           /\ \A i \in 1 .. Len(q) : m[i] = q[i]
           /\ \A i \in Len(q) + 1 .. Len(m) : m[i] = r[Len(p) + (i - Len(q))]
<1> DEFINE b == SubSeq(r, Len(p) + 1, Len(r))
<1>1. Len(p) \in Nat /\ Len(q) \in Nat /\ Len(r) \in Nat  BY LenProperties
<1>2. \A i \in Len(p) + 1 .. Len(r) : r[i] \in V  BY <1>1, ElementOfSeq
<1>3. /\ b \in Seq(V) /\ Len(b) = Len(r) - Len(p)
      /\ \A i \in 1 .. Len(b) : b[i] = r[Len(p) + i]
  <2>1. Len(p) + 1 \in Int /\ Len(r) \in Int  BY <1>1
  <2>2. /\ b \in Seq(V) /\ Len(b) = IF Len(p) + 1 <= Len(r) THEN Len(r) - (Len(p) + 1) + 1 ELSE 0
        /\ \A i \in 1 .. Len(r) - (Len(p) + 1) + 1 : b[i] = r[(Len(p) + 1) + i - 1]
    BY <1>2, <2>1, SubSeqProperties
  <2>3. Len(b) = Len(r) - Len(p)  BY <1>1, <2>2
  <2>4. \A i \in 1 .. Len(b) : b[i] = r[Len(p) + i]
    <3> TAKE i \in 1 .. Len(b)
    <3>1. i \in 1 .. Len(r) - (Len(p) + 1) + 1 /\ (Len(p) + 1) + i - 1 = Len(p) + i
      BY <1>1, <2>3
    <3>2. b[i] = r[(Len(p) + 1) + i - 1]  BY <2>2, <3>1
    <3>3. QED  BY <3>1, <3>2
  <2>5. QED  BY <2>2, <2>3, <2>4
<1> HIDE DEF b
<1>4. /\ q \o b \in Seq(V) /\ Len(q \o b) = Len(q) + Len(b)
      /\ \A i \in 1 .. Len(q) + Len(b) : (q \o b)[i] = IF i <= Len(q) THEN q[i] ELSE b[i - Len(q)]
  BY <1>3, ConcatProperties
<1>5. Moved(p, q, r) = q \o b  BY DEF Moved, Below, b
<1> DEFINE m == Moved(p, q, r)
<1>6. /\ m \in Seq(V) /\ Len(m) = Len(q) + Len(b)
      /\ \A i \in 1 .. Len(m) : m[i] = IF i <= Len(q) THEN q[i] ELSE b[i - Len(q)]
  BY <1>4, <1>5
<1> HIDE DEF m
<1>7. ASSUME NEW i \in 1 .. Len(q) PROVE m[i] = q[i]
  <2>1. i \in 1 .. Len(m) /\ i <= Len(q)  BY <1>1, <1>3, <1>6
  <2>2. QED  BY <1>6, <2>1
<1>8. ASSUME NEW i \in Len(q) + 1 .. Len(m) PROVE m[i] = r[Len(p) + (i - Len(q))]
  <2>1. i \in 1 .. Len(m) /\ ~(i <= Len(q)) /\ i - Len(q) \in 1 .. Len(b)
    BY <1>1, <1>3, <1>6, SMTT(30)
  <2>2. m[i] = b[i - Len(q)]  BY <1>6, <2>1
  <2>3. QED  BY <1>3, <2>1, <2>2
<1>9. QED  BY <1>3, <1>6, <1>7, <1>8 DEF m

\* What is below p keeps its place when p becomes q, ...
LEMMA MovedUnder ==
    ASSUME NEW V, NEW p \in Seq(V), NEW q \in Seq(V), NEW r \in Seq(V), IsPrefix(p, r)
    PROVE  LET m == Moved(p, q, r) IN
           /\ m \in Seq(V) /\ Len(m) = Len(q) + (Len(r) - Len(p))
           /\ IsPrefix(q, m)
           /\ Moved(q, p, m) = r
<1> DEFINE m == Moved(p, q, r)
<1>1. Len(p) \in Nat /\ Len(q) \in Nat /\ Len(r) \in Nat /\ Len(p) <= Len(r)
  BY LenProperties DEF IsPrefix
<1>2. /\ m \in Seq(V) /\ Len(m) = Len(q) + (Len(r) - Len(p))
      /\ \A i \in 1 .. Len(q) : m[i] = q[i]
      /\ \A i \in Len(q) + 1 .. Len(m) : m[i] = r[Len(p) + (i - Len(q))]
  BY <1>1, MovedByNames
<1> HIDE DEF m
<1>3. Len(q) <= Len(m)  BY <1>1, <1>2
<1>4. IsPrefix(q, m)  BY <1>2, <1>3, PrefixByNames
<1> DEFINE n == Moved(q, p, m)
<1>5. /\ n \in Seq(V) /\ Len(n) = Len(p) + (Len(m) - Len(q))
      /\ \A i \in 1 .. Len(p) : n[i] = p[i]
      /\ \A i \in Len(p) + 1 .. Len(n) : n[i] = m[Len(q) + (i - Len(p))]
  BY <1>2, <1>3, MovedByNames
<1> HIDE DEF n
<1>6. Len(n) = Len(r)  BY <1>1, <1>2, <1>5
<1>7. ASSUME NEW i \in 1 .. Len(r) PROVE n[i] = r[i]
  <2>1. CASE i <= Len(p)
    <3>1. n[i] = p[i]  BY <1>1, <1>5, <2>1
    <3>2. p[i] = r[i]  BY <1>1, <2>1, PrefixByNames
    <3>3. QED  BY <3>1, <3>2
  <2>2. CASE i > Len(p)
    <3> DEFINE j == Len(q) + (i - Len(p))
    <3>1. i \in Len(p) + 1 .. Len(n) /\ j \in Len(q) + 1 .. Len(m) /\ Len(p) + (j - Len(q)) = i
      BY <1>1, <1>2, <1>6, <2>2
    <3>2. n[i] = m[j]  BY <1>5, <3>1
    <3>3. m[j] = r[Len(p) + (j - Len(q))]  BY <1>2, <3>1
    <3>4. QED  BY <3>1, <3>2, <3>3
  <2>3. QED  BY <1>1, <2>1, <2>2
<1>8. n = r  BY <1>5, <1>6, <1>7, SeqEqual
<1>9. QED  BY <1>2, <1>4, <1>8 DEF m, n

\* ... and so does what it is below.
LEMMA MovedStarts ==
    ASSUME NEW V, NEW p \in Seq(V), NEW q \in Seq(V), NEW r \in Seq(V), IsPrefix(p, r),
           NEW k \in 0 .. Len(Moved(p, q, r))
    PROVE  \/ k < Len(q) /\ SubSeq(Moved(p, q, r), 1, k) = SubSeq(q, 1, k)
           \/ \E j \in Len(p) .. Len(r) :
                /\ k = Len(q) + (j - Len(p))
                /\ IsPrefix(p, SubSeq(r, 1, j))
                /\ SubSeq(Moved(p, q, r), 1, k) = Moved(p, q, SubSeq(r, 1, j))
<1> DEFINE m == Moved(p, q, r)
           s == SubSeq(m, 1, k)
           j == Len(p) + (k - Len(q))
<1>1. Len(p) \in Nat /\ Len(q) \in Nat /\ Len(r) \in Nat /\ Len(p) <= Len(r)
  BY LenProperties DEF IsPrefix
<1>2. /\ m \in Seq(V) /\ Len(m) = Len(q) + (Len(r) - Len(p))
      /\ \A i \in 1 .. Len(q) : m[i] = q[i]
      /\ \A i \in Len(q) + 1 .. Len(m) : m[i] = r[Len(p) + (i - Len(q))]
  BY <1>1, MovedByNames
<1>3. s \in Seq(V) /\ Len(s) = k /\ \A i \in 1 .. k : s[i] = m[i]  BY <1>2, Starts
<1>4. k \in 0 .. Len(m)  OBVIOUS
<1> HIDE DEF m, s
<1>5. CASE k < Len(q)
  <2>1. k \in 0 .. Len(q)  BY <1>1, <1>4, <1>5
  <2>2. /\ SubSeq(q, 1, k) \in Seq(V) /\ Len(SubSeq(q, 1, k)) = k
        /\ \A i \in 1 .. k : SubSeq(q, 1, k)[i] = q[i]
    BY <2>1, Starts
  <2>3. ASSUME NEW i \in 1 .. k PROVE s[i] = SubSeq(q, 1, k)[i]
    <3>1. i \in 1 .. Len(q)  BY <1>1, <2>1
    <3>2. QED  BY <1>2, <1>3, <2>2, <3>1
  <2>4. s = SubSeq(q, 1, k)  BY <1>3, <2>2, <2>3, SeqEqual
  <2>5. QED  BY <1>5, <2>4 DEF m, s
<1>6. CASE ~(k < Len(q))
  <2>1. j \in Len(p) .. Len(r) /\ j \in 0 .. Len(r) /\ j - Len(p) = k - Len(q)
    <3>1. Len(m) = Len(q) + (Len(r) - Len(p))  BY <1>2
    <3>2. QED  BY ONLY <1>1, <1>4, <1>6, <3>1, SMTT(30)
  <2>2. k = Len(q) + (j - Len(p))  BY <1>1, <1>4
  <2> DEFINE b == SubSeq(r, 1, j)
             n == Moved(p, q, b)
  <2>3. /\ b \in Seq(V) /\ Len(b) = j /\ IsPrefix(b, r)
        /\ \A i \in 1 .. j : b[i] = r[i]
    BY <2>1, Starts
  <2> HIDE DEF b, j
  <2>4. IsPrefix(p, b)
    <3>1. Len(p) <= Len(b)  BY <1>1, <2>1, <2>3
    <3>2. QED  BY <2>3, <3>1, PrefixOrder
  <2>5. /\ n \in Seq(V) /\ Len(n) = Len(q) + (Len(b) - Len(p))
        /\ \A i \in 1 .. Len(q) : n[i] = q[i]
        /\ \A i \in Len(q) + 1 .. Len(n) : n[i] = b[Len(p) + (i - Len(q))]
    <3>1. Len(p) <= Len(b)  BY <1>1, <2>1, <2>3
    <3>2. QED  BY <2>3, <3>1, MovedByNames
  <2> HIDE DEF n
  <2>6. Len(n) = k  BY <2>2, <2>3, <2>5
  <2>7. ASSUME NEW i \in 1 .. k PROVE s[i] = n[i]
    <3>1. CASE i <= Len(q)
      <4>1. i \in 1 .. Len(q)  BY <1>1, <3>1
      <4>2. QED  BY <1>2, <1>3, <2>5, <4>1
    <3>2. CASE i > Len(q)
      <4> DEFINE l == Len(p) + (i - Len(q))
      <4>1. i \in Len(q) + 1 .. Len(m) /\ i \in Len(q) + 1 .. Len(n) /\ l \in 1 .. j
        BY <1>1, <1>2, <1>4, <2>1, <2>6, <3>2, SMTT(30)
      <4>2. m[i] = r[l] /\ n[i] = b[l]  BY <1>2, <2>5, <4>1
      <4>3. b[l] = r[l]  BY <2>3, <4>1
      <4>4. QED  BY <1>3, <4>2, <4>3
    <3>3. QED  BY <1>1, <3>1, <3>2
  <2>8. s = n  BY <1>3, <2>5, <2>6, <2>7, SeqEqual
  <2>9. SubSeq(Moved(p, q, r), 1, k) = Moved(p, q, SubSeq(r, 1, j)) /\ IsPrefix(p, SubSeq(r, 1, j))
    BY <2>4, <2>8 DEF s, m, n, b
  <2>10. QED  BY <2>1, <2>9, <2>2
<1>7. QED  BY <1>5, <1>6

-----------------------------------------------------------------------------
(* The tree.                                                               *)

Elems == Names \cup {Login}
Paths == {p \in Seq(Elems) : Len(p) > 0 /\ p[1] = Login}

Rooted(t) == DOMAIN t \subseteq Paths /\ IsDir(t, Home) /\ WellFormed(t, Home)

\* What a handler does not touch.
Keeps(t, u, p) == p \in DOMAIN u /\ u[p] = t[p]

LEMMA IsPath == ASSUME NEW q \in Seq(Elems), Len(q) > 0, q[1] = Login PROVE q \in Paths
  BY DEF Paths

LEMMA HomePath == Home \in Paths /\ Home \in Seq(Elems) /\ Len(Home) = 1 /\ Home[1] = Login
<1>1. Home \in Seq(Elems) /\ Len(Home) = 1 /\ Home[1] = Login  BY DEF Home, Elems
<1>2. Len(Home) > 0  BY <1>1
<1> HIDE DEF Home
<1>3. QED  BY <1>1, <1>2, IsPath

LEMMA PathFacts ==
    ASSUME NEW p \in Paths
    PROVE  /\ p \in Seq(Elems) /\ Len(p) \in Nat \ {0}
           /\ Home \in Paths /\ Home \in Seq(Elems) /\ Len(Home) = 1
           /\ IsPrefix(Home, p)
           /\ p = Home <=> Len(p) = 1
           /\ \A k \in 1 .. Len(p) : SubSeq(p, 1, k) \in Paths
           /\ \A q \in Seq(Elems) : IsPrefix(p, q) => q \in Paths
<1>1. /\ p \in Seq(Elems) /\ Len(p) \in Nat \ {0} /\ p[1] = Login
      /\ Home \in Paths /\ Home \in Seq(Elems) /\ Len(Home) = 1 /\ Home[1] = Login
  BY LenProperties, HomePath DEF Paths
<1>2. IsPrefix(Home, p)  BY <1>1, PrefixByNames
<1>3. p = Home <=> Len(p) = 1
  <2>1. ASSUME Len(p) = 1 PROVE p = Home
    <3>1. \A i \in 1 .. Len(p) : p[i] = Home[i]  BY <1>1, <2>1
    <3>2. QED  BY <1>1, <2>1, <3>1, SeqEqual
  <2>2. QED  BY <1>1, <2>1
<1>4. ASSUME NEW k \in 1 .. Len(p) PROVE SubSeq(p, 1, k) \in Paths
  <2>1. k \in 0 .. Len(p)  BY <1>1
  <2>2. /\ SubSeq(p, 1, k) \in Seq(Elems) /\ Len(SubSeq(p, 1, k)) = k
        /\ \A i \in 1 .. k : SubSeq(p, 1, k)[i] = p[i]
    BY <1>1, <2>1, Starts
  <2> DEFINE s == SubSeq(p, 1, k)
  <2>3. s \in Seq(Elems) /\ Len(s) > 0 /\ s[1] = Login  BY <1>1, <2>2
  <2> HIDE DEF s
  <2>4. s \in Paths  BY <2>3, IsPath
  <2>5. QED  BY <2>4 DEF s
<1>5. ASSUME NEW q \in Seq(Elems), IsPrefix(p, q) PROVE q \in Paths
  <2>1. Len(p) <= Len(q) /\ \A i \in 1 .. Len(p) : p[i] = q[i]  BY <1>1, <1>5, PrefixByNames
  <2>2. Len(q) \in Nat  BY LenProperties
  <2>3. QED  BY <1>1, <2>1, <2>2 DEF Paths
<1>6. QED  BY <1>1, <1>2, <1>3, <1>4, <1>5

\* Whatever lies above something that exists is a directory.
LEMMA Above ==
    ASSUME NEW t, Rooted(t), NEW r \in DOMAIN t, NEW p \in Paths, IsPrefix(p, r), p # r
    PROVE  IsDir(t, p)
<1>1. r \in Paths /\ r \in Seq(Elems) /\ p \in Seq(Elems)  BY PathFacts DEF Rooted
<1>2. Len(p) \in 0 .. Len(r) /\ SubSeq(r, 1, Len(p)) = p  BY <1>1, PrefixIsStart
<1>3. Len(p) # Len(r)  BY <1>1, PrefixOrder
<1>4. Len(p) \in Nat \ {0} /\ Len(r) \in Nat /\ Len(Home) = 1  BY <1>1, PathFacts
<1>5. Len(p) \in Len(Home) .. Len(r) - 1  BY <1>2, <1>3, <1>4
<1>6. QED  BY <1>2, <1>5 DEF Rooted, WellFormed

\* How to show that a tree is one.
LEMMA IsRooted ==
    ASSUME NEW u, DOMAIN u \subseteq Paths, IsDir(u, Home),
           \A r \in DOMAIN u : \A k \in 1 .. Len(r) - 1 : IsDir(u, SubSeq(r, 1, k))
    PROVE  Rooted(u)
<1>1. ASSUME NEW r \in DOMAIN u PROVE IsPrefix(Home, r) /\ Len(Home) = 1  BY PathFacts
<1>2. QED  BY <1>1 DEF Rooted, WellFormed

\* One path more or less at a time.
LEMMA Parts ==
    ASSUME NEW t, Rooted(t), NEW r \in DOMAIN t, NEW k \in 1 .. Len(r) - 1
    PROVE  /\ SubSeq(r, 1, k) \in Paths /\ IsDir(t, SubSeq(r, 1, k))
           /\ IsPrefix(SubSeq(r, 1, k), r)
           /\ Len(SubSeq(r, 1, k)) = k
<1>1. r \in Paths /\ r \in Seq(Elems) /\ Len(r) \in Nat /\ Len(Home) = 1  BY PathFacts DEF Rooted
<1>2. k \in 0 .. Len(r) /\ k \in 1 .. Len(r) /\ k \in Len(Home) .. Len(r) - 1  BY <1>1
<1>3. SubSeq(r, 1, k) \in Paths  BY <1>1, <1>2, PathFacts
<1>4. IsPrefix(SubSeq(r, 1, k), r) /\ Len(SubSeq(r, 1, k)) = k  BY <1>1, <1>2, Starts
<1>5. QED  BY <1>2, <1>3, <1>4 DEF Rooted, WellFormed

\* The same of a path that may not exist yet, in a directory that does.
LEMMA PartsOfNew ==
    ASSUME NEW t, Rooted(t), NEW p \in Paths, IsDir(t, Front(p)), NEW k \in 1 .. Len(p) - 1
    PROVE  /\ SubSeq(p, 1, k) \in Paths /\ IsDir(t, SubSeq(p, 1, k))
           /\ IsPrefix(SubSeq(p, 1, k), p)
           /\ Len(SubSeq(p, 1, k)) = k
<1> DEFINE f == SubSeq(p, 1, Len(p) - 1)
<1>1. p \in Seq(Elems) /\ Len(p) \in Nat /\ Len(p) - 1 \in 0 .. Len(p) /\ k \in 0 .. Len(p)
      /\ k \in 1 .. Len(p) /\ k \in 0 .. Len(p) - 1
  BY PathFacts
<1>2. /\ Len(f) = Len(p) - 1 /\ \A j \in 0 .. Len(p) - 1 : SubSeq(f, 1, j) = SubSeq(p, 1, j)
      /\ IsPrefix(SubSeq(p, 1, k), p) /\ Len(SubSeq(p, 1, k)) = k
  BY <1>1, Starts
<1>3. SubSeq(p, 1, k) \in Paths  BY <1>1, PathFacts
<1>4. IsDir(t, f)  BY DEF Front
<1> HIDE DEF f
<1>5. IsDir(t, SubSeq(p, 1, k))
  <2>1. CASE k = Len(p) - 1  BY <1>4, <2>1 DEF f
  <2>2. CASE k # Len(p) - 1
    <3>1. k \in 1 .. Len(f) - 1 /\ f \in DOMAIN t  BY <1>1, <1>2, <1>4, <2>2 DEF IsDir
    <3>2. IsDir(t, SubSeq(f, 1, k))  BY <3>1, Parts
    <3>3. QED  BY <1>1, <1>2, <3>2
  <2>3. QED  BY <2>1, <2>2
<1>6. QED  BY <1>2, <1>3, <1>5

\* mkdir: only where there is a directory, and nothing else changes.
LEMMA CreateDirKeeps ==
    ASSUME NEW t, Rooted(t), NEW p \in Paths, Len(p) > 1
    PROVE  LET u == CreateDir(t, p) IN
           Rooted(u) /\ \A d \in DOMAIN t : Keeps(t, u, d)
<1> DEFINE u == CreateDir(t, p)
<1>1. CASE ~CanCreate(t, p)  BY <1>1 DEF CreateDir, Keeps
<1>2. CASE CanCreate(t, p)
  <2>1. /\ p \notin DOMAIN t /\ IsDir(t, SubSeq(p, 1, Len(p) - 1))
    BY <1>2 DEF CanCreate, Exists, Front
  <2>2. /\ DOMAIN u = DOMAIN t \cup {p}
        /\ \A r \in DOMAIN t : u[r] = t[r]
    BY <1>2, <2>1 DEF CreateDir
  <2> HIDE DEF u
  <2>3. \A d \in Paths : IsDir(t, d) => IsDir(u, d)  BY <2>2 DEF IsDir
  <2>4. IsDir(u, Home) /\ DOMAIN u \subseteq Paths  BY <2>2, <2>3, PathFacts DEF Rooted
  <2>5. ASSUME NEW r \in DOMAIN u, NEW k \in 1 .. Len(r) - 1 PROVE IsDir(u, SubSeq(r, 1, k))
    <3>1. CASE r \in DOMAIN t  BY <2>3, <3>1, Parts
    <3>2. CASE r = p  BY <1>2, <2>3, <3>2, PartsOfNew DEF CanCreate
    <3>3. QED  BY <2>2, <3>1, <3>2
  <2>6. Rooted(u)  BY <2>4, <2>5, IsRooted
  <2>7. QED  BY <2>2, <2>6 DEF Keeps, u
<1>3. QED  BY <1>1, <1>2

\* What is left when a set of paths goes, of which no other path is a part.
LEMMA RestrictKeeps ==
    ASSUME NEW t, Rooted(t), NEW S \in SUBSET DOMAIN t, Home \in S,
           \A r \in S : \A p \in DOMAIN t : IsPrefix(p, r) => p \in S
    PROVE  Rooted(Restrict(t, S)) /\ \A d \in S : Keeps(t, Restrict(t, S), d)
<1> DEFINE u == Restrict(t, S)
<1>1. DOMAIN u = S /\ \A d \in S : u[d] = t[d]  BY DEF Restrict
<1> HIDE DEF u
<1>2. \A d \in S : IsDir(t, d) => IsDir(u, d)  BY <1>1 DEF IsDir
<1>3. IsDir(u, Home) /\ DOMAIN u \subseteq Paths  BY <1>1, <1>2 DEF Rooted
<1>4. ASSUME NEW r \in DOMAIN u, NEW k \in 1 .. Len(r) - 1 PROVE IsDir(u, SubSeq(r, 1, k))
  <2>1. IsDir(t, SubSeq(r, 1, k)) /\ IsPrefix(SubSeq(r, 1, k), r)  BY <1>1, Parts
  <2>2. SubSeq(r, 1, k) \in S  BY <1>1, <2>1 DEF IsDir
  <2>3. QED  BY <1>2, <2>1, <2>2
<1>5. Rooted(u)  BY <1>3, <1>4, IsRooted
<1>6. QED  BY <1>1, <1>5 DEF Keeps, u

\* deleteDirRecursive: what is not below p stays.
LEMMA DeleteDirKeeps ==
    ASSUME NEW t, Rooted(t), NEW p \in Paths, Len(p) > 1
    PROVE  LET u == DeleteDirRecursive(t, p) IN
           Rooted(u) /\ \A d \in DOMAIN t : ~IsPrefix(p, d) => Keeps(t, u, d)
<1> DEFINE S == DOMAIN t \ Under(t, p)
<1>1. \A d \in DOMAIN t : d \in S <=> ~IsPrefix(p, d)  BY DEF Under
<1>2. DOMAIN t \subseteq Seq(Elems) /\ p \in Seq(Elems) /\ Len(p) \in Nat /\ Len(Home) = 1
  BY PathFacts DEF Rooted
<1>3. Home \in S  BY <1>1, <1>2 DEF Rooted, IsDir, IsPrefix
<1>4. ASSUME NEW r \in S, NEW q \in DOMAIN t, IsPrefix(q, r) PROVE q \in S
  <2>1. q \in Seq(Elems) /\ r \in Seq(Elems)  BY <1>2
  <2>2. IsPrefix(p, q) => IsPrefix(p, r)  BY <1>2, <1>4, <2>1, PrefixOrder
  <2>3. QED  BY <1>1, <2>2
<1>5. S \in SUBSET DOMAIN t  OBVIOUS
<1> HIDE DEF S
<1>6. Rooted(Restrict(t, S)) /\ \A d \in S : Keeps(t, Restrict(t, S), d)
  BY <1>3, <1>4, <1>5, RestrictKeeps
<1>7. QED  BY <1>1, <1>6 DEF DeleteDirRecursive, S

\* unlink: p was no directory.
LEMMA DeleteFileKeeps ==
    ASSUME NEW t, Rooted(t), NEW p \in Paths, IsFile(t, p)
    PROVE  LET u == DeleteFile(t, p) IN
           Rooted(u) /\ \A d \in DOMAIN t \ {p} : Keeps(t, u, d)
<1> DEFINE S == DOMAIN t \ {p}
<1>1. Home \in S  BY DEF Rooted, IsDir, IsFile
<1>2. ASSUME NEW r \in S, NEW q \in DOMAIN t, IsPrefix(q, r) PROVE q \in S
  <2>1. q = p => IsDir(t, q)  BY <1>2, Above
  <2>2. QED  BY <2>1 DEF IsDir, IsFile
<1>3. S \in SUBSET DOMAIN t  OBVIOUS
<1> HIDE DEF S
<1>4. Rooted(Restrict(t, S)) /\ \A d \in S : Keeps(t, Restrict(t, S), d)
  BY <1>1, <1>2, <1>3, RestrictKeeps
<1>5. QED  BY <1>4 DEF DeleteFile, S

\* rename: only directories that are renamed or in one that is cease to be,
\* and none above the new name; no file is lost but by one that takes its name.
LEMMA RenameKeeps ==
    ASSUME NEW t, Rooted(t), NEW p \in Paths, Len(p) > 1, NEW q \in Paths
    PROVE  LET u == RenameFile(t, p, q) IN
           /\ Rooted(u)
           /\ \A d \in Paths : IsDir(t, d) /\ (~IsPrefix(p, d) \/ IsPrefix(d, q)) => IsDir(u, d)
           /\ \A f \in Paths : IsFile(t, f) => IsFile(u, f) \/ \E x \in DOMAIN u : u[x] = t[f]
<1> DEFINE u == RenameFile(t, p, q)
<1>1. CASE ~CanRename(t, p, q) \/ p = q
  <2>1. u = t  BY <1>1 DEF RenameFile
  <2>2. QED  BY <2>1
<1>2. CASE CanRename(t, p, q) /\ p # q
  <2> DEFINE moved == {Moved(p, q, r) : r \in Under(t, p)}
  <2>1. /\ DOMAIN u = (DOMAIN t \ Under(t, p)) \cup moved
        /\ \A r \in moved : u[r] = t[Moved(q, p, r)]
        /\ \A r \in DOMAIN u : r \notin moved => u[r] = t[r]
    BY <1>2 DEF RenameFile
  <2>2. /\ p \in Seq(Elems) /\ q \in Seq(Elems) /\ DOMAIN t \subseteq Paths
        /\ Len(p) \in Nat /\ Len(q) \in Nat
    BY PathFacts DEF Rooted
  <2> HIDE DEF u
  <2>3. ASSUME NEW x \in Under(t, p)
        PROVE  /\ Moved(p, q, x) \in Paths /\ IsPrefix(q, Moved(p, q, x))
               /\ Len(Moved(p, q, x)) = Len(q) + (Len(x) - Len(p))
               /\ Moved(p, q, x) \in DOMAIN u /\ u[Moved(p, q, x)] = t[x]
    <3>1. x \in Seq(Elems) /\ IsPrefix(p, x)  BY <2>2, PathFacts DEF Under
    <3>2. /\ Moved(p, q, x) \in Seq(Elems) /\ IsPrefix(q, Moved(p, q, x))
          /\ Len(Moved(p, q, x)) = Len(q) + (Len(x) - Len(p))
          /\ Moved(q, p, Moved(p, q, x)) = x
      BY <2>2, <3>1, MovedUnder
    <3>3. Moved(p, q, x) \in moved  OBVIOUS
    <3>4. QED  BY <2>1, <3>2, <3>3, PathFacts
  <2>4. ASSUME NEW r \in moved PROVE \E x \in Under(t, p) : r = Moved(p, q, x)
    OBVIOUS
  <2> HIDE DEF moved
  <2>5. IsDir(t, Front(q)) /\ Len(q) > 1
    <3>1. IsDir(t, Front(q))  BY <1>2 DEF CanRename
    <3>2. Len(q) - 1 \in 0 .. Len(q)  BY <2>2, PathFacts
    <3>3. Len(Front(q)) = Len(q) - 1  BY <2>2, <3>2, Starts DEF Front
    <3>4. Len(Front(q)) \in Nat \ {0}  BY <2>2, <3>1, PathFacts DEF IsDir
    <3>5. QED  BY <2>2, <3>1, <3>3, <3>4
  <2>6. IsFile(t, p) => \A x \in DOMAIN t : IsPrefix(p, x) => x = p
    BY Above DEF IsFile, IsDir
  \* The destination is not below the source, ...
  <2>7. ~IsPrefix(p, q)
    <3>1. CASE ~IsFile(t, p)  BY <1>2, <3>1 DEF CanRename, IsFile, IsDir
    <3>2. ASSUME IsFile(t, p), IsPrefix(p, q) PROVE FALSE
      <4> DEFINE k == Len(q) - 1
                 f == SubSeq(q, 1, k)
      <4>1. k \in 0 .. Len(q) /\ k \in 1 .. Len(q) - 1 /\ Len(p) <= Len(q)
        BY <2>2, <3>2, PrefixIsStart
      <4>2. f \in Paths /\ IsDir(t, f) /\ IsPrefix(f, q) /\ Len(f) = k
        BY <2>5, <4>1, PartsOfNew
      <4>3. Len(p) # Len(q)  BY <1>2, <2>2, <3>2, PrefixOrder
      <4>4. Len(p) <= Len(f)  BY <2>2, <4>1, <4>2, <4>3
      <4>5. f \in Seq(Elems)  BY <4>2, PathFacts
      <4> HIDE DEF f, k
      <4>6. IsPrefix(p, f)  BY <2>2, <3>2, <4>2, <4>4, <4>5, PrefixOrder
      <4>7. f = p  BY <2>6, <3>2, <4>2, <4>6 DEF IsDir
      <4>8. QED  BY <3>2, <4>2, <4>7 DEF IsDir, IsFile
    <3>3. QED  BY <3>1, <3>2
  \* ... and nothing is below the destination.
  <2>8. ASSUME NEW d \in DOMAIN t, IsPrefix(q, d) PROVE d = q
    <3>1. CASE IsFile(t, p)
      <4>1. ~IsDir(t, q)  BY <1>2, <3>1 DEF CanRename, IsFile, IsDir
      <4>2. QED  BY <2>8, <4>1, Above
    <3>2. CASE ~IsFile(t, p)
      <4>1. Under(t, q) \subseteq {q}  BY <1>2, <3>2 DEF CanRename, IsFile, IsDir
      <4>2. QED  BY <2>8, <4>1 DEF Under
    <3>3. QED  BY <3>1, <3>2
  <2>9. ASSUME NEW r \in moved PROVE IsPrefix(q, r) /\ r \in Paths  BY <2>3, <2>4
  <2>10. ASSUME NEW d \in DOMAIN t, ~IsPrefix(p, d), d # q PROVE d \in DOMAIN u /\ u[d] = t[d]
    <3>1. d \notin moved  BY <2>8, <2>9, <2>10
    <3>2. d \in DOMAIN u  BY <2>1, <2>10 DEF Under
    <3>3. QED  BY <2>1, <3>1, <3>2
  <2>11. ASSUME NEW d \in Paths, IsDir(t, d), IsPrefix(d, q), d # q PROVE IsDir(u, d)
    <3>1. d \in Seq(Elems)  BY PathFacts
    <3>2. ~IsPrefix(p, d)  BY <2>2, <2>7, <2>11, <3>1, PrefixOrder
    <3>3. QED  BY <2>10, <2>11, <3>2 DEF IsDir
  <2>12. Rooted(u)
    <3>1. DOMAIN u \subseteq Paths  BY <2>1, <2>2, <2>9
    <3>2. IsDir(u, Home)
      <4>1. Home \in Paths /\ IsPrefix(Home, q) /\ Len(Home) = 1  BY PathFacts
      <4>2. Len(q) \in Nat /\ Len(q) > 1  BY <2>2, <2>5
      <4>3. Home # q
        <5>1. ASSUME Home = q PROVE FALSE
          <6>1. Len(q) = 1  BY <4>1, <5>1
          <6>2. QED  BY ONLY <4>2, <6>1
        <5>2. QED  BY <5>1
      <4>4. QED  BY <2>11, <4>1, <4>3 DEF Rooted
    <3>3. ASSUME NEW r \in DOMAIN u, r \notin moved, NEW k \in 1 .. Len(r) - 1
          PROVE  IsDir(u, SubSeq(r, 1, k))
      <4> DEFINE s == SubSeq(r, 1, k)
      <4>1. r \in DOMAIN t /\ ~IsPrefix(p, r)  BY <2>1, <3>3 DEF Under
      <4>2. s \in Paths /\ IsDir(t, s) /\ IsPrefix(s, r) /\ Len(s) = k  BY <4>1, Parts
      <4>3. s \in Seq(Elems) /\ r \in Seq(Elems) /\ Len(r) \in Nat  BY <2>2, <4>1, <4>2, PathFacts
      <4> HIDE DEF s
      <4>4. ~IsPrefix(p, s)  BY <2>2, <4>1, <4>2, <4>3, PrefixOrder
      <4>5. s # q
        <5>1. ASSUME s = q PROVE FALSE
          <6>1. r = q  BY <2>8, <4>1, <4>2, <5>1
          <6>2. QED  BY <4>2, <4>3, <5>1, <6>1
        <5>2. QED  BY <5>1
      <4>6. QED  BY <2>10, <4>2, <4>4, <4>5 DEF IsDir, s
    <3>4. ASSUME NEW r \in moved, NEW k \in 1 .. Len(r) - 1 PROVE IsDir(u, SubSeq(r, 1, k))
      <4>1. PICK x \in Under(t, p) : r = Moved(p, q, x)  BY <2>4
      <4>2. x \in DOMAIN t /\ IsPrefix(p, x) /\ x \in Seq(Elems) /\ x \in Paths
        BY <2>2, PathFacts DEF Under
      <4>3. /\ Len(r) = Len(q) + (Len(x) - Len(p)) /\ Len(x) \in Nat
            /\ Len(r) \in Nat /\ k \in 0 .. Len(Moved(p, q, x))
        <5>1. r \in Paths  BY <2>9
        <5>2. Len(r) \in Nat /\ Len(x) \in Nat  BY <4>2, <5>1, PathFacts
        <5>3. Len(r) = Len(q) + (Len(x) - Len(p))  BY <2>3, <4>1
        <5>4. k \in 0 .. Len(r)  BY <5>2
        <5>5. QED  BY <4>1, <5>2, <5>3, <5>4
      <4>4. CASE k < Len(q) /\ SubSeq(r, 1, k) = SubSeq(q, 1, k)
        <5>1. k \in 1 .. Len(q) - 1  BY <2>2, <4>4
        <5>2. /\ SubSeq(q, 1, k) \in Paths /\ IsDir(t, SubSeq(q, 1, k))
              /\ IsPrefix(SubSeq(q, 1, k), q) /\ Len(SubSeq(q, 1, k)) = k
          BY <2>5, <5>1, PartsOfNew
        <5>3. SubSeq(q, 1, k) # q  BY <4>4, <5>2, <2>2
        <5>4. QED  BY <2>11, <4>4, <5>2, <5>3
      <4>5. ASSUME NEW j \in Len(p) .. Len(x), k = Len(q) + (j - Len(p)),
                   IsPrefix(p, SubSeq(x, 1, j)), SubSeq(r, 1, k) = Moved(p, q, SubSeq(x, 1, j))
            PROVE  IsDir(u, SubSeq(r, 1, k))
        <5> DEFINE y == SubSeq(x, 1, j)
        <5>1. j \in 1 .. Len(x) - 1  BY <2>2, <4>3, <4>5, SMTT(30)
        <5>2. IsDir(t, y)  BY <4>2, <5>1, Parts
        <5>3. y \in Under(t, p)  BY <4>5, <5>2 DEF Under, IsDir
        <5> HIDE DEF y
        <5>4. Moved(p, q, y) \in DOMAIN u /\ u[Moved(p, q, y)] = t[y]  BY <2>3, <5>3
        <5>5. QED  BY <4>5, <5>2, <5>4 DEF IsDir, y
      <4>6. \/ k < Len(q) /\ SubSeq(Moved(p, q, x), 1, k) = SubSeq(q, 1, k)
            \/ \E j \in Len(p) .. Len(x) :
                 /\ k = Len(q) + (j - Len(p))
                 /\ IsPrefix(p, SubSeq(x, 1, j))
                 /\ SubSeq(Moved(p, q, x), 1, k) = Moved(p, q, SubSeq(x, 1, j))
        BY ONLY <2>2, <4>2, <4>3, MovedStarts
      <4>7. QED  BY <4>1, <4>4, <4>5, <4>6
    <3>5. \A r \in DOMAIN u : \A k \in 1 .. Len(r) - 1 : IsDir(u, SubSeq(r, 1, k))
      BY <3>3, <3>4
    <3>6. QED  BY <3>1, <3>2, <3>5, IsRooted
  <2>13. ASSUME NEW f \in Paths, IsFile(t, f)
         PROVE  IsFile(u, f) \/ \E x \in DOMAIN u : u[x] = t[f]
    <3>1. f \in DOMAIN t  BY <2>13 DEF IsFile
    <3>2. CASE IsPrefix(p, f)
      <4>1. f \in Under(t, p)  BY <3>1, <3>2 DEF Under
      <4>2. QED  BY <2>3, <4>1
    <3>3. CASE ~IsPrefix(p, f) /\ f # q  BY <2>10, <3>1, <3>3
    <3>4. CASE ~IsPrefix(p, f) /\ f = q
      <4>1. IsFile(t, p)  BY <1>2, <2>13, <3>4 DEF CanRename, IsFile, IsDir
      <4>2. CASE q \in moved
        <5>1. PICK x \in Under(t, p) : q = Moved(p, q, x)  BY <2>4, <4>2
        <5>2. x = p  BY <2>6, <4>1 DEF Under
        <5>3. q \in DOMAIN u /\ u[q] = t[p]  BY <2>3, <5>1, <5>2
        <5>4. QED  BY <3>4, <4>1, <5>3 DEF IsFile
      <4>3. CASE q \notin moved
        <5>1. q \in DOMAIN u  BY <2>1, <3>1, <3>4 DEF Under
        <5>2. QED  BY <2>1, <3>4, <4>3, <5>1
      <4>4. QED  BY <4>2, <4>3
    <3>5. QED  BY <3>2, <3>3, <3>4
  <2>14. ASSUME NEW d \in Paths, IsDir(t, d), ~IsPrefix(p, d) \/ IsPrefix(d, q) PROVE IsDir(u, d)
    <3>1. ~IsPrefix(p, d)
      <4>1. d \in Seq(Elems)  BY PathFacts
      <4>2. QED  BY <2>2, <2>7, <2>14, <4>1, PrefixOrder
    <3>2. CASE d # q  BY <2>10, <2>14, <3>1, <3>2 DEF IsDir
    <3>3. CASE d = q
      <4>1. IsDir(t, p)  BY <1>2, <2>14, <3>3 DEF CanRename, IsFile, IsDir
      <4>2. p \in Under(t, p)  BY <2>2, <4>1, PrefixOrder DEF Under, IsDir
      <4>3. \A x \in moved : IsDir(t, p) /\ x = q => IsDir(u, x)
        <5>1. ASSUME NEW x \in Under(t, p), Moved(p, q, x) = q PROVE x = p
          <6>1. Len(x) = Len(p) /\ x \in Seq(Elems) /\ IsPrefix(p, x)
            BY <2>2, <2>3, <5>1, PathFacts DEF Under
          <6>2. QED  BY <2>2, <6>1, PrefixOrder
        <5>2. QED  BY <2>3, <2>4, <5>1 DEF IsDir
      <4>4. CASE q \in moved  BY <3>3, <4>1, <4>3, <4>4
      <4>5. CASE q \notin moved
        <5>1. q \in DOMAIN u  BY <2>1, <2>14, <3>1, <3>3 DEF Under, IsDir
        <5>2. QED  BY <2>1, <2>14, <3>3, <4>5, <5>1 DEF IsDir
      <4>6. QED  BY <4>4, <4>5
    <3>4. QED  BY <3>2, <3>3
  <2>15. QED  BY <2>12, <2>13, <2>14 DEF u
<1>3. QED  BY <1>1, <1>2

\* copyDirRecursive: directories and files stay, though a file may be
\* overwritten.
LEMMA CopyKeeps ==
    ASSUME NEW t, Rooted(t), NEW g \in Gifts, NEW q \in Paths,
           q = Home \/ IsDir(t, Front(q))
    PROVE  LET u == CopyInto(t, g, q) IN
           /\ Rooted(u)
           /\ \A d : IsDir(t, d) => IsDir(u, d)
           /\ \A f : IsFile(t, f) => IsFile(u, f)
<1> DEFINE u == CopyInto(t, g, q)
           e == << >>
           to(r) == Moved(e, q, r)
           fits(r) == \A s \in DOMAIN g : IsPrefix(s, r) =>
                         IF g[s] = Dir THEN ~IsFile(t, to(s)) ELSE ~IsDir(t, to(s))
           copied == {to(r) : r \in {s \in DOMAIN g : fits(s)}}
<1>1. /\ DOMAIN u = DOMAIN t \cup copied
      /\ \A r \in copied : u[r] = g[Moved(q, e, r)]
      /\ \A r \in DOMAIN t : r \notin copied => u[r] = t[r]
  BY DEF CopyInto
<1>2. e = << >> /\ Len(e) = 0 /\ e \in Seq(Elems)  BY EmptySeq
<1> HIDE DEF u, e
<1>3. /\ q \in Seq(Elems) /\ Len(q) \in Nat /\ DOMAIN t \subseteq Paths /\ Names \subseteq Elems
  BY PathFacts DEF Rooted, Elems
<1>4. ASSUME NEW x \in DOMAIN g
      PROVE  x \in Seq(Elems) /\ Len(x) \in Nat /\ e \in Seq(Elems) /\ Len(e) = 0 /\ IsPrefix(e, x)
  <2>1. x \in Seq(Names)  BY NavigationAssumption
  <2>2. x \in Seq(Elems)  BY <1>3, <2>1, SeqMonotonic
  <2>3. Len(e) = 0 /\ e \in Seq(Elems) /\ Len(x) \in Nat  BY <1>2, <2>2, LenProperties
  <2>4. Len(e) <= Len(x) /\ \A i \in 1 .. Len(e) : e[i] = x[i]  BY <2>3
  <2>5. IsPrefix(e, x)  BY <2>2, <2>3, <2>4, PrefixByNames
  <2>6. QED  BY <2>2, <2>3, <2>5
<1>5. ASSUME NEW x \in DOMAIN g, fits(x)
      PROVE  to(x) \in DOMAIN u /\ u[to(x)] = g[x] /\ to(x) \in Paths
  <2>1. to(x) \in copied  BY <1>5
  <2>2. to(x) \in Seq(Elems) /\ IsPrefix(q, to(x)) /\ Moved(q, e, to(x)) = x
    BY <1>3, <1>4, MovedUnder
  <2>3. to(x) \in Paths  BY <2>2, PathFacts
  <2>4. QED  BY <1>1, <2>1, <2>2, <2>3
<1>6. ASSUME NEW r \in copied PROVE \E x \in DOMAIN g : fits(x) /\ r = to(x)
  OBVIOUS
<1> HIDE DEF copied
<1>7. ASSUME NEW x \in DOMAIN g, fits(x)
      PROVE  IF g[x] = Dir THEN ~IsFile(t, to(x)) ELSE ~IsDir(t, to(x))
  <2>1. IsPrefix(x, x)  BY <1>4, PrefixOrder
  <2>2. QED  BY <1>7, <2>1
<1> HIDE DEF fits
<1>8. ASSUME NEW d, IsDir(t, d) PROVE IsDir(u, d)
  <2>1. CASE d \notin copied  BY <1>1, <1>8, <2>1 DEF IsDir
  <2>2. CASE d \in copied
    <3>1. PICK x \in DOMAIN g : fits(x) /\ d = to(x)  BY <1>6, <2>2
    <3>2. g[x] = Dir  BY <1>7, <1>8, <3>1
    <3>3. QED  BY <1>5, <3>1, <3>2 DEF IsDir
  <2>3. QED  BY <2>1, <2>2
<1>9. ASSUME NEW f, IsFile(t, f) PROVE IsFile(u, f)
  <2>1. CASE f \notin copied  BY <1>1, <1>9, <2>1 DEF IsFile
  <2>2. CASE f \in copied
    <3>1. PICK x \in DOMAIN g : fits(x) /\ f = to(x)  BY <1>6, <2>2
    <3>2. g[x] # Dir  BY <1>7, <1>9, <3>1
    <3>3. QED  BY <1>5, <3>1, <3>2 DEF IsFile
  <2>3. QED  BY <2>1, <2>2
<1>10. Rooted(u)
  <2>1. DOMAIN u \subseteq Paths  BY <1>1, <1>3, <1>5, <1>6
  <2>2. IsDir(u, Home)  BY <1>8 DEF Rooted
  <2>3. ASSUME NEW r \in DOMAIN t, NEW k \in 1 .. Len(r) - 1 PROVE IsDir(u, SubSeq(r, 1, k))
    BY <1>8, Parts
  <2>4. ASSUME NEW r \in copied, NEW k \in 1 .. Len(r) - 1 PROVE IsDir(u, SubSeq(r, 1, k))
    <3>1. PICK x \in DOMAIN g : fits(x) /\ r = to(x)  BY <1>6
    <3>2. x \in Seq(Elems) /\ Len(x) \in Nat /\ e \in Seq(Elems) /\ Len(e) = 0 /\ IsPrefix(e, x)
      BY <1>4
    <3>3. r = Moved(e, q, x) /\ Len(Moved(e, q, x)) = Len(q) + (Len(x) - Len(e))
      <4>1. r = Moved(e, q, x)  BY <3>1
      <4>2. q \in Seq(Elems) /\ x \in Seq(Elems) /\ e \in Seq(Elems) /\ IsPrefix(e, x)
        BY <1>3, <3>2
      <4>3. Len(Moved(e, q, x)) = Len(q) + (Len(x) - Len(e))  BY ONLY <4>2, MovedUnder
      <4>4. QED  BY <4>1, <4>3
    <3>4. Len(r) = Len(q) + Len(x)  BY <1>3, <3>2, <3>3
    <3>5. k \in 0 .. Len(Moved(e, q, x))  BY <1>3, <3>2, <3>3, <3>4
    <3>6. CASE k < Len(q) /\ SubSeq(r, 1, k) = SubSeq(q, 1, k)
      <4>1. k \in 1 .. Len(q) - 1  BY <1>3, <3>6
      <4>2. IsDir(t, Front(q))
        <5>1. ASSUME q = Home PROVE FALSE
          <6>1. Len(q) = 1  BY <5>1, HomePath
          <6>2. QED  BY <4>1, <6>1
        <5>2. QED  BY <5>1
      <4>3. IsDir(t, SubSeq(q, 1, k))  BY <4>1, <4>2, PartsOfNew
      <4>4. QED  BY <1>8, <3>6, <4>3
    <3>7. ASSUME NEW j \in Len(e) .. Len(x), k = Len(q) + (j - Len(e)),
                 SubSeq(r, 1, k) = Moved(e, q, SubSeq(x, 1, j))
          PROVE  IsDir(u, SubSeq(r, 1, k))
      <4> DEFINE y == SubSeq(x, 1, j)
      <4>1. j \in Len(<< >>) .. Len(x) - 1 /\ j \in 0 .. Len(x)  BY <1>2, <1>3, <3>2, <3>4, <3>7
      <4>2. IsDir(g, y)  BY <4>1, NavigationAssumption DEF WellFormed
      <4>3. y \in Seq(Elems) /\ IsPrefix(y, x)  BY <3>2, <4>1, Starts
      <4>4. fits(y)
        <5> HIDE DEF y
        <5>1. ASSUME NEW s \in DOMAIN g, IsPrefix(s, y) PROVE IsPrefix(s, x)
          <6>1. s \in Seq(Elems)  BY <1>4
          <6>2. QED  BY <3>2, <4>3, <5>1, <6>1, PrefixOrder
        <5>2. QED  BY <3>1, <5>1 DEF fits
      <4> HIDE DEF y
      <4>5. to(y) \in DOMAIN u /\ u[to(y)] = g[y]  BY <1>5, <4>2, <4>4 DEF IsDir
      <4>6. QED  BY <3>7, <4>2, <4>5 DEF IsDir, y
    <3>8. \/ k < Len(q) /\ SubSeq(Moved(e, q, x), 1, k) = SubSeq(q, 1, k)
          \/ \E j \in Len(e) .. Len(x) :
               /\ k = Len(q) + (j - Len(e))
               /\ IsPrefix(e, SubSeq(x, 1, j))
               /\ SubSeq(Moved(e, q, x), 1, k) = Moved(e, q, SubSeq(x, 1, j))
      <4>1. q \in Seq(Elems) /\ x \in Seq(Elems) /\ e \in Seq(Elems)  BY <1>3, <3>2
      <4>2. IsPrefix(e, x)  BY <3>2
      <4>3. QED  BY ONLY <3>5, <4>1, <4>2, MovedStarts
    <3>9. QED  BY <3>3, <3>6, <3>7, <3>8
  <2>5. \A r \in DOMAIN u : \A k \in 1 .. Len(r) - 1 : IsDir(u, SubSeq(r, 1, k))
    BY <1>1, <2>3, <2>4
  <2>6. QED  BY <2>1, <2>2, <2>5, IsRooted
<1>11. QED  BY <1>8, <1>9, <1>10 DEF u

-----------------------------------------------------------------------------
(* What requests are about.                                                *)

Sane(r) ==
    /\ r.path \in Paths
    /\ r.type \notin {"FLUSH_DIR", "CREATE_DIR"} => r.name \in Elems
    /\ r.type \in {"CREATE_DIR", "RENAME_FILE"} => r.arg \in Typable
    /\ r.type = "MOVE_FILE" => Len(r.path) > 1 /\ r.arg \in Paths
    /\ r.type = "SHARE_FILE_NOTE_RESPONSE" => r.path = Home

Typed ==
    /\ path \in Paths
    /\ entry \in Names \cup {NoName}
    /\ moveSrc # << >> => moveSrc \in Paths /\ Len(moveSrc) > 1
    /\ \A r \in ToSet(toServer) : Sane(r)
    /\ Rooted(tree)

LEMMA Longer ==
    ASSUME NEW p \in Paths, NEW n \in Elems
    PROVE  /\ Append(p, n) \in Paths /\ Append(p, n) \in Seq(Elems)
           /\ Len(Append(p, n)) = Len(p) + 1 /\ Len(p) \in Nat /\ Len(Append(p, n)) > 1
           /\ Front(Append(p, n)) = p
           /\ IsPrefix(p, Append(p, n))
           /\ Append(p, n) = p \o <<n>>
<1> DEFINE a == Append(p, n)
<1>1. p \in Seq(Elems) /\ Len(p) \in Nat \ {0}  BY PathFacts
<1>2. /\ a \in Seq(Elems) /\ Len(a) = Len(p) + 1
      /\ \A i \in 1 .. Len(p) : a[i] = p[i]
  BY <1>1, AppendProperties
<1>3. a = p \o <<n>>  BY <1>1, AppendIsConcat
<1> HIDE DEF a
<1>4. IsPrefix(p, a)
  <2>1. Len(p) <= Len(a)  BY <1>1, <1>2
  <2>2. QED  BY <1>1, <1>2, <2>1, PrefixByNames
<1>5. a \in Paths  BY <1>2, <1>4, PathFacts
<1>6. Front(a) = p
  <2>1. SubSeq(a, 1, Len(p)) = p  BY <1>1, <1>2, <1>4, PrefixIsStart
  <2>2. Len(a) - 1 = Len(p)  BY <1>1, <1>2
  <2>3. QED  BY <2>1, <2>2 DEF Front
<1>7. Len(a) > 1  BY <1>1, <1>2
<1>8. QED  BY <1>1, <1>2, <1>3, <1>4, <1>5, <1>6, <1>7 DEF a

LEMMA Shorter ==
    ASSUME NEW p \in Paths, p # Home
    PROVE  Front(p) \in Paths /\ IsPrefix(Front(p), p) /\ Front(p) # p
<1>1. p \in Seq(Elems) /\ Len(p) \in Nat \ {0} /\ Len(p) # 1  BY PathFacts
<1>2. Len(p) - 1 \in 1 .. Len(p) /\ Len(p) - 1 \in 0 .. Len(p)
  <2>1. \A n \in Nat \ {0} : n # 1 => n - 1 \in 1 .. n /\ n - 1 \in 0 .. n
    OBVIOUS
  <2>2. QED  BY <1>1, <2>1
<1>3. Front(p) \in Paths  BY <1>2, PathFacts DEF Front
<1>4. IsPrefix(Front(p), p) /\ Len(Front(p)) = Len(p) - 1  BY <1>1, <1>2, Starts DEF Front
<1>5. QED  BY <1>1, <1>3, <1>4

\* A typed name that stays in the user's directory.
LEMMA LeadsHome ==
    ASSUME NEW r, Sane(r), r.type \in {"CREATE_DIR", "RENAME_FILE"}, Stays(r)
    PROVE  LeadsTo(r) \in Paths
<1> DEFINE k == Len(r.path) - r.arg[1]
<1>1. r.path \in Seq(Elems) /\ Len(r.path) \in Nat  BY PathFacts DEF Sane
<1>2. r.arg[1] \in Nat /\ r.arg[2] \in Seq(Elems)
  BY NavigationAssumption DEF Sane, Elems
<1>3. k \in 0 .. Len(r.path)  BY <1>1, <1>2 DEF Stays
<1>4. SubSeq(r.path, 1, k) \in Seq(Elems)  BY <1>1, <1>3, Starts
<1> HIDE DEF k
<1>5. SubSeq(r.path, 1, k) \o r.arg[2] \in Seq(Elems)  BY <1>2, <1>4, ConcatProperties
<1>6. LeadsTo(r) \in Seq(Elems) /\ IsPrefix(Home, LeadsTo(r))  BY <1>5 DEF LeadsTo, Stays, k
<1>7. QED  BY <1>6, HomePath, PathFacts

\* Where something is moved to.
LEMMA MovesInto ==
    ASSUME NEW p \in Paths, NEW n \in Elems
    PROVE  p \o FirstWord[n] \in Paths /\ IsPrefix(p, p \o FirstWord[n])
<1> DEFINE q == p \o FirstWord[n]
<1>1. p \in Seq(Elems) /\ FirstWord[n] \in Seq(Elems)
  BY PathFacts, NavigationAssumption DEF Elems
<1>2. /\ q \in Seq(Elems) /\ Len(q) = Len(p) + Len(FirstWord[n])
      /\ \A i \in 1 .. Len(p) + Len(FirstWord[n]) :
            q[i] = IF i <= Len(p) THEN p[i] ELSE FirstWord[n][i - Len(p)]
  BY <1>1, ConcatProperties
<1>3. Len(p) \in Nat /\ Len(FirstWord[n]) \in Nat  BY <1>1, LenProperties
<1> HIDE DEF q
<1>4. Len(p) <= Len(q) /\ \A i \in 1 .. Len(p) : p[i] = q[i]  BY <1>2, <1>3, SMTT(30)
<1>5. IsPrefix(p, q)  BY <1>1, <1>2, <1>4, PrefixByNames
<1>6. QED  BY <1>2, <1>5, PathFacts DEF q

\* The directories that no handler of r takes away.
Spares(r, d) ==
    /\ r.type \in {"DEL_DIR", "DEL_FILE", "RENAME_FILE"} => IsPrefix(d, r.path)
    /\ r.type = "MOVE_FILE" => IsPrefix(d, r.arg)

\* What a handler may do to the tree.
Works(r, t, u) ==
    /\ Rooted(u)
    /\ \A d \in Paths : IsDir(t, d) /\ Spares(r, d) => IsDir(u, d)
    /\ \A f \in Paths : IsFile(t, f) =>
           Deletes(r, f) \/ IsFile(u, f) \/ \E x \in DOMAIN u : u[x] = t[f]

LEMMA Untouched == ASSUME NEW t, Rooted(t), NEW r PROVE Works(r, t, t)
  BY DEF Works, IsFile

\* What is below where d is, is not above it.
LEMMA NotAbove ==
    ASSUME NEW p \in Paths, NEW n \in Elems, NEW d \in Paths, IsPrefix(d, p)
    PROVE  ~IsPrefix(Append(p, n), d) /\ IsPrefix(d, Append(p, n)) /\ d # Append(p, n)
<1> DEFINE a == Append(p, n)
<1>1. /\ p \in Seq(Elems) /\ d \in Seq(Elems) /\ a \in Seq(Elems)
      /\ Len(p) \in Nat /\ Len(d) \in Nat /\ Len(a) = Len(p) + 1 /\ IsPrefix(p, a)
  BY PathFacts, Longer
<1> HIDE DEF a
<1>2. Len(d) <= Len(p)  BY DEF IsPrefix
<1>3. IsPrefix(d, a)  BY <1>1, PrefixOrder
<1>4. Len(d) < Len(a)  BY <1>1, <1>2
<1>5. ~IsPrefix(a, d)  BY <1>1, <1>4 DEF IsPrefix
<1>6. d # a  BY <1>1, <1>4
<1>7. QED  BY <1>3, <1>5, <1>6 DEF a

LEMMA Handlers ==
    ASSUME Queues, Typed, Handle
    PROVE  Works(Head(toServer), tree, tree')
<1> DEFINE r == Head(toServer)
           p == Target(r)
<1>1. toServer # << >>
  BY DEF Handle, HandleFlushDir, HandleEntryDir, HandleCreateDir, HandleDelDir, HandleDelFile,
         HandleRenameFile, HandleMoveFile, HandleShareNoteResponse, Takes
<1>2. Sane(r) /\ Rooted(tree)  BY <1>1, Taken DEF Queues, Typed
<1>3. ASSUME r.type \notin {"FLUSH_DIR", "CREATE_DIR"}
      PROVE  /\ r.path \in Paths /\ r.name \in Elems
             /\ p \in Paths /\ p = Append(r.path, r.name) /\ Len(p) > 1
  BY <1>2, <1>3, Longer DEF Sane, Target
<1> HIDE DEF r
<1>4. CASE HandleFlushDir \/ HandleEntryDir
  <2>1. tree' = tree  BY <1>4 DEF HandleFlushDir, HandleEntryDir
  <2>2. QED  BY <1>2, <2>1, Untouched DEF r
<1>5. CASE HandleCreateDir
  <2> DEFINE q == LeadsTo(r)
  <2>1. r.type = "CREATE_DIR" /\ (tree' = tree \/ (Stays(r) /\ tree' = CreateDir(tree, q)))
    <3>1. /\ r.type = "CREATE_DIR"
          /\ \E ok \in BOOLEAN :
                tree' = IF ok /\ Stays(r) /\ IsDir(tree, r.path) THEN CreateDir(tree, q) ELSE tree
      BY <1>5 DEF HandleCreateDir, Takes, r
    <3> HIDE DEF q
    <3>2. QED  BY <3>1
  <2>2. CASE tree' = tree  BY <1>2, <2>2, Untouched DEF r
  <2>3. CASE Stays(r) /\ tree' = CreateDir(tree, q)
    <3>1. q \in Paths  BY <1>2, <2>1, <2>3, LeadsHome
    <3> HIDE DEF q
    <3>2. CASE q = Home
      <4>1. tree' = tree  BY <1>2, <2>3, <3>2 DEF CreateDir, CanCreate, Exists, Rooted, IsDir
      <4>2. QED  BY <1>2, <4>1, Untouched DEF r
    <3>3. CASE q # Home
      <4>1. Len(q) > 1  BY <3>1, <3>3, PathFacts
      <4>2. LET u == CreateDir(tree, q) IN Rooted(u) /\ \A d \in DOMAIN tree : Keeps(tree, u, d)
        BY <1>2, <3>1, <4>1, CreateDirKeeps
      <4>3. Works(r, tree, CreateDir(tree, q))  BY <4>2 DEF Works, Keeps, IsDir, IsFile
      <4>4. QED  BY <2>3, <4>3 DEF r
    <3>4. QED  BY <3>2, <3>3
  <2>4. QED  BY <2>1, <2>2, <2>3
<1>6. CASE HandleDelDir
  <2>1. r.type = "DEL_DIR" /\ tree' \in {tree, DeleteDirRecursive(tree, p)}
    BY <1>6 DEF HandleDelDir, Takes, r
  <2>2. /\ p \in Paths /\ Len(p) > 1 /\ r.path \in Paths /\ r.name \in Elems
        /\ p = Append(r.path, r.name)
    BY <1>3, <2>1
  <2>3. \A d \in Paths : Spares(r, d) => ~IsPrefix(p, d)  BY <2>1, <2>2, NotAbove DEF Spares
  <2>4. \A f \in Paths : IsPrefix(p, f) => Deletes(r, f)  BY <2>1 DEF Deletes
  <2> HIDE DEF p
  <2> DEFINE u == DeleteDirRecursive(tree, p)
  <2>5. Rooted(u) /\ \A d \in DOMAIN tree : ~IsPrefix(p, d) => Keeps(tree, u, d)
    BY <1>2, <2>2, DeleteDirKeeps
  <2> HIDE DEF u
  <2>6. Works(r, tree, u)  BY <2>3, <2>4, <2>5 DEF Works, Keeps, IsDir, IsFile
  <2>7. QED  BY <1>2, <2>1, <2>6, Untouched DEF r, u
<1>7. CASE HandleDelFile
  <2>1. r.type = "DEL_FILE" /\ tree' = IF IsFile(tree, p) THEN DeleteFile(tree, p) ELSE tree
    BY <1>7 DEF HandleDelFile, Takes, r
  <2>2. p \in Paths  BY <1>3, <2>1
  <2>3. Deletes(r, p)  BY <2>1 DEF Deletes
  <2> HIDE DEF p
  <2>4. CASE ~IsFile(tree, p)  BY <1>2, <2>1, <2>4, Untouched DEF r
  <2>5. CASE IsFile(tree, p)
    <3> DEFINE u == DeleteFile(tree, p)
    <3>1. Rooted(u) /\ \A d \in DOMAIN tree \ {p} : Keeps(tree, u, d)
      BY <1>2, <2>2, <2>5, DeleteFileKeeps
    <3> HIDE DEF u
    <3>2. \A d : IsDir(tree, d) => d # p  BY <2>5 DEF IsDir, IsFile
    <3>3. Works(r, tree, u)  BY <2>3, <3>1, <3>2 DEF Works, Keeps, IsDir, IsFile
    <3>4. QED  BY <2>1, <2>5, <3>3 DEF r, u
  <2>6. QED  BY <2>4, <2>5
<1>8. ASSUME NEW a \in Paths, Len(a) > 1, NEW q \in Paths,
             \A d \in Paths : Spares(r, d) => ~IsPrefix(a, d) \/ IsPrefix(d, q)
      PROVE  Works(r, tree, RenameFile(tree, a, q))
  <2> DEFINE u == RenameFile(tree, a, q)
  <2>1. /\ Rooted(u)
        /\ \A d \in Paths : IsDir(tree, d) /\ (~IsPrefix(a, d) \/ IsPrefix(d, q)) => IsDir(u, d)
        /\ \A f \in Paths : IsFile(tree, f) => IsFile(u, f) \/ \E x \in DOMAIN u : u[x] = tree[f]
    BY <1>2, <1>8, RenameKeeps
  <2> HIDE DEF u
  <2>2. Works(r, tree, u)  BY <1>8, <2>1 DEF Works
  <2>3. QED  BY <2>2 DEF u
<1>9. CASE HandleRenameFile
  <2> DEFINE q == LeadsTo(r)
  <2>1. /\ r.type = "RENAME_FILE"
        /\ \/ Stays(r) /\ tree' = RenameFile(tree, p, q)
           \/ ~Stays(r) /\ tree' \in {tree, DeleteDirRecursive(tree, p)}
    BY <1>9 DEF HandleRenameFile, RenamesAway, Takes, r
  <2>2. /\ p \in Paths /\ Len(p) > 1 /\ r.path \in Paths /\ r.name \in Elems
        /\ p = Append(r.path, r.name)
    BY <1>3, <2>1
  <2>3. \A d \in Paths : Spares(r, d) => ~IsPrefix(p, d)  BY <2>1, <2>2, NotAbove DEF Spares
  <2>4. CASE Stays(r) /\ tree' = RenameFile(tree, p, q)
    <3>1. q \in Paths  BY <1>2, <2>1, <2>4, LeadsHome
    <3> HIDE DEF p, q
    <3>2. QED  BY <1>8, <2>2, <2>3, <2>4, <3>1 DEF r
  <2>5. CASE ~Stays(r) /\ tree' \in {tree, DeleteDirRecursive(tree, p)}
    <3>1. \A f \in Paths : IsPrefix(p, f) => Deletes(r, f)  BY <2>1, <2>5 DEF Deletes
    <3> HIDE DEF p
    <3> DEFINE u == DeleteDirRecursive(tree, p)
    <3>2. Rooted(u) /\ \A d \in DOMAIN tree : ~IsPrefix(p, d) => Keeps(tree, u, d)
      BY <1>2, <2>2, DeleteDirKeeps
    <3> HIDE DEF u
    <3>3. Works(r, tree, u)  BY <2>3, <3>1, <3>2 DEF Works, Keeps, IsDir, IsFile
    <3>4. QED  BY <1>2, <2>5, <3>3, Untouched DEF r, u
  <2>6. QED  BY <2>1, <2>4, <2>5
<1>10. CASE HandleMoveFile
  <2> DEFINE q == r.arg \o FirstWord[r.name]
  <2>1. r.type = "MOVE_FILE" /\ tree' \in {tree, RenameFile(tree, r.path, q)}
    BY <1>10 DEF HandleMoveFile, Takes, r
  <2>2. r.arg \in Paths /\ r.path \in Paths /\ Len(r.path) > 1 /\ r.name \in Elems
    BY <1>2, <2>1 DEF Sane
  <2>3. q \in Paths /\ IsPrefix(r.arg, q)  BY <2>2, MovesInto
  <2> HIDE DEF q
  <2>4. ASSUME NEW d \in Paths, Spares(r, d) PROVE IsPrefix(d, q)
    <3>1. d \in Seq(Elems) /\ r.arg \in Seq(Elems) /\ q \in Seq(Elems)  BY <2>2, <2>3, PathFacts
    <3>2. QED  BY <2>1, <2>3, <2>4, <3>1, PrefixOrder DEF Spares
  <2>5. Works(r, tree, RenameFile(tree, r.path, q))  BY <1>8, <2>2, <2>3, <2>4
  <2>6. QED  BY <1>2, <2>1, <2>5, Untouched DEF r, q
<1>11. CASE HandleShareNoteResponse
  <2>1. PICK g \in Gifts : r.type = "SHARE_FILE_NOTE_RESPONSE" /\ tree' = CopyInto(tree, g, p)
    BY <1>11 DEF HandleShareNoteResponse, Takes, r
  <2>2. r.path = Home /\ IsDir(tree, Home)  BY <1>2, <2>1 DEF Sane, Rooted
  <2>3. p \in Paths /\ Len(p) > 1 /\ Front(p) = r.path  BY <1>3, <2>1, Longer
  <2>4. IsDir(tree, Front(p))  BY <2>2, <2>3
  <2> HIDE DEF p
  <2> DEFINE u == CopyInto(tree, g, p)
  <2>5. /\ Rooted(u)
        /\ \A d : IsDir(tree, d) => IsDir(u, d)
        /\ \A f : IsFile(tree, f) => IsFile(u, f)
    BY <1>2, <2>3, <2>4, CopyKeeps
  <2> HIDE DEF u
  <2>6. Works(r, tree, u)  BY <2>5 DEF Works
  <2>7. QED  BY <2>1, <2>6 DEF r, u
<1>12. QED
  BY <1>4, <1>5, <1>6, <1>7, <1>9, <1>10, <1>11 DEF Handle

-----------------------------------------------------------------------------
\* What keeps requests sane: a step takes one, or sends one that is.
LEMMA SaneStep ==
    ASSUME Queues, Typed,
           \/ toServer' = toServer
           \/ toServer # << >> /\ toServer' = Tail(toServer)
           \/ \E r : Sane(r) /\ toServer' = Append(toServer, r)
    PROVE  \A r \in ToSet(toServer') : Sane(r)
<1>1. CASE toServer' = toServer  BY <1>1 DEF Typed
<1>2. CASE toServer # << >> /\ toServer' = Tail(toServer)
  BY <1>2, Taken DEF Queues, Typed
<1>3. ASSUME NEW r, Sane(r), toServer' = Append(toServer, r)
      PROVE  \A m \in ToSet(toServer') : Sane(m)
  BY <1>3, Appended DEF Queues, Typed
<1>4. QED  BY <1>1, <1>2, <1>3

LEMMA TypedInit == Init => Typed
<1> SUFFICES ASSUME Init PROVE Typed
  OBVIOUS
<1>1. Rooted(tree)
  <2>1. /\ WellFormed(tree, Home) /\ IsDir(tree, Home) /\ DOMAIN tree \subseteq Seq(Elems)
    BY NavigationAssumption DEF Init, Elems
  <2>2. ASSUME NEW p \in DOMAIN tree PROVE p \in Paths
    <3>1. IsPrefix(Home, p) /\ p \in Seq(Elems)  BY <2>1, <2>2 DEF WellFormed
    <3>2. Home \in Paths  BY HomePath
    <3>3. QED  BY <3>1, <3>2, PathFacts
  <2>3. QED  BY <2>1, <2>2 DEF Rooted
<1>2. Home \in Paths  BY <1>1 DEF Rooted, IsDir
<1>3. QED  BY <1>1, <1>2 DEF Init, Typed, ToSet

\* The tree changes in handlers only, and by what strays here.
LEMMA TreeSteps == ASSUME [Next]_vars PROVE Handle \/ Stray \/ tree' = tree
  BY DEF Next, vars, FlushDir, ReturnPre, CreateDirHere, DelDir, DelRegFile, EntryDir,
         MoveFile, SelectMoveDir, ReName, Click, Ask, RecvFlushDir, RecvEntryDir, RecvWithBox,
         Receives, BoxClosed, NoteClosed, Note

\* The path changes when a listing comes after a double click, and on the
\* way up.
LEMMA PathSteps ==
    ASSUME [Next]_vars
    PROVE  \/ path' = path
           \/ RecvFlushDir /\ entry # NoName /\ path' = Append(path, entry) /\ tree' = tree
           \/ ReturnPre /\ path # Home /\ path' = Front(path) /\ tree' = tree
<1>1. CASE RecvFlushDir  BY <1>1 DEF RecvFlushDir, Receives
<1>2. CASE ReturnPre  BY <1>2 DEF ReturnPre
<1>3. CASE ~RecvFlushDir /\ ~ReturnPre
  BY <1>3 DEF Next, vars, client, FlushDir, CreateDirHere, DelDir, DelRegFile, EntryDir,
         MoveFile, SelectMoveDir, ReName, Click, Ask, RecvEntryDir, RecvWithBox,
         BoxClosed, NoteClosed, Handle, HandleFlushDir, HandleEntryDir,
         HandleCreateDir, HandleDelDir, HandleDelFile, HandleRenameFile, HandleMoveFile,
         HandleShareNoteResponse, Takes, Note, Stray, Strays
<1>4. QED  BY <1>1, <1>2, <1>3

\* What strays here takes nothing away.
LEMMA StrayKeeps ==
    ASSUME Rooted(tree), Stray
    PROVE  /\ Rooted(tree')
           /\ \A d : IsDir(tree, d) => IsDir(tree', d)
           /\ \A f : IsFile(tree, f) => IsFile(tree', f)
<1>1. PICK g \in Gifts : \/ Strays(g, Home)
                        \/ \E p \in DOMAIN tree, n \in Names : IsDir(tree, p) /\ Strays(g, Append(p, n))
  BY DEF Stray
<1>2. CASE Strays(g, Home)
  <2>1. tree' = CopyInto(tree, g, Home)  BY <1>2 DEF Strays
  <2>2. QED  BY <2>1, HomePath, CopyKeeps
<1>3. ASSUME NEW p \in DOMAIN tree, NEW n \in Names, IsDir(tree, p), Strays(g, Append(p, n))
      PROVE  /\ Rooted(tree')
             /\ \A d : IsDir(tree, d) => IsDir(tree', d)
             /\ \A f : IsFile(tree, f) => IsFile(tree', f)
  <2> DEFINE q == Append(p, n)
  <2>1. p \in Paths /\ n \in Elems  BY DEF Rooted, Elems
  <2>2. q \in Paths /\ Front(q) = p  BY <2>1, Longer
  <2>3. tree' = CopyInto(tree, g, q)  BY <1>3 DEF Strays
  <2> HIDE DEF q
  <2>4. QED  BY <1>3, <2>2, <2>3, CopyKeeps
<1>4. QED  BY <1>1, <1>2, <1>3

\* What the user sends.
LEMMA UserSends ==
    ASSUME Typed, NEW n \in Names
    PROVE  /\ DelDir(n) \/ DelRegFile(n) \/ EntryDir(n) \/ (\E a \in Typable : ReName(n, a)) =>
                \E r : /\ toServer' = Append(toServer, r)
                       /\ Sane(r) /\ r.type # "MOVE_FILE" /\ r.path = path
           /\ SelectMoveDir(n) =>
                \E r : /\ toServer' = Append(toServer, r)
                       /\ Sane(r) /\ r.type = "MOVE_FILE" /\ r.arg = Append(path, n)
<1>1. path \in Paths /\ n \in Elems /\ Names \subseteq Elems  BY DEF Typed, Elems
<1>2. ASSUME NEW t \in {"DEL_DIR", "DEL_FILE", "ENTRY_DIR", "RENAME_FILE"}, NEW arg,
             t = "RENAME_FILE" => arg \in Typable
      PROVE  LET r == Request(t, path, n, arg, FALSE) IN
             Sane(r) /\ r.type # "MOVE_FILE" /\ r.path = path
  BY <1>1, <1>2 DEF Request, Sane
<1>3. ASSUME NEW t \in {"DEL_DIR", "DEL_FILE", "ENTRY_DIR", "RENAME_FILE"}, NEW arg,
             t = "RENAME_FILE" => arg \in Typable,
             toServer' = Append(toServer, Request(t, path, n, arg, FALSE))
      PROVE  \E r : /\ toServer' = Append(toServer, r)
                    /\ Sane(r) /\ r.type # "MOVE_FILE" /\ r.path = path
  BY <1>2, <1>3
<1>5. DelDir(n) => toServer' = Append(toServer, Request("DEL_DIR", path, n, << >>, FALSE))
  BY DEF DelDir, Click, Ask
<1>6. DelRegFile(n) => toServer' = Append(toServer, Request("DEL_FILE", path, n, << >>, FALSE))
  BY DEF DelRegFile, Click, Ask
<1>7. EntryDir(n) => toServer' = Append(toServer, Request("ENTRY_DIR", path, n, << >>, FALSE))
  BY DEF EntryDir, Ask
<1>8. ASSUME NEW a \in Typable, ReName(n, a)
      PROVE  toServer' = Append(toServer, Request("RENAME_FILE", path, n, a, FALSE))
  BY <1>8 DEF ReName, Click, Ask
<1>9. ASSUME SelectMoveDir(n)
      PROVE  \E r : /\ toServer' = Append(toServer, r)
                    /\ Sane(r) /\ r.type = "MOVE_FILE" /\ r.arg = Append(path, n)
  <2> DEFINE r == Request("MOVE_FILE", moveSrc, Last(moveSrc), Append(path, n), FALSE)
  <2>1. toServer' = Append(toServer, r) /\ moveSrc # << >>  BY <1>9 DEF SelectMoveDir
  <2>2. moveSrc \in Paths /\ Len(moveSrc) > 1  BY <2>1 DEF Typed
  <2>3. Last(moveSrc) \in Elems
    <3>1. moveSrc \in Seq(Elems) /\ Len(moveSrc) \in 1 .. Len(moveSrc)  BY <2>2, PathFacts
    <3>2. QED  BY <3>1, ElementOfSeq DEF Last
  <2>4. Append(path, n) \in Paths  BY <1>1, Longer
  <2>5. Sane(r) /\ r.type = "MOVE_FILE" /\ r.arg = Append(path, n)
    BY <2>2, <2>3, <2>4 DEF Sane, Request
  <2> HIDE DEF r
  <2>6. QED  BY <2>1, <2>5
<1>10. QED  BY <1>3, <1>5, <1>6, <1>7, <1>8, <1>9

\* What is sent for a listing.
LEMMA RefreshSends ==
    ASSUME NEW p \in Paths, NEW auto
    PROVE  LET r == Request("FLUSH_DIR", p, NoName, << >>, auto) IN
           Sane(r) /\ r.type = "FLUSH_DIR" /\ r.path = p
  BY DEF Request, Sane

\* What is sent with a typed name.
LEMMA CreateSends ==
    ASSUME Typed, Creates
    PROVE  \E r : /\ toServer' = Append(toServer, r)
                  /\ Sane(r) /\ r.type = "CREATE_DIR" /\ r.path = path
<1>1. PICK a \in Typable : toServer' = Append(toServer, Request("CREATE_DIR", path, NoName, a, FALSE))
  BY DEF Creates, CreateDirHere, Click, Ask
<1> DEFINE r == Request("CREATE_DIR", path, NoName, a, FALSE)
<1>2. Sane(r) /\ r.type = "CREATE_DIR" /\ r.path = path  BY DEF Typed, Request, Sane
<1> HIDE DEF r
<1>3. QED  BY <1>1, <1>2 DEF r

LEMMA TypedStep == ASSUME Queues, Typed, [Next]_vars PROVE Typed'
<1> DEFINE Sent == \/ toServer' = toServer
                   \/ toServer # << >> /\ toServer' = Tail(toServer)
                   \/ \E r : Sane(r) /\ toServer' = Append(toServer, r)
           Remembered == /\ entry' \in Names \cup {NoName}
                         /\ moveSrc' # << >> => moveSrc' \in Paths /\ Len(moveSrc') > 1
<1>1. path \in Paths /\ entry \in Names \cup {NoName} /\ Rooted(tree) /\ Names \subseteq Elems
      /\ (moveSrc # << >> => moveSrc \in Paths /\ Len(moveSrc) > 1)
  BY DEF Typed, Elems
<1>2. Rooted(tree')
  <2>1. CASE Handle  BY <2>1, Handlers DEF Works
  <2>2. CASE tree' = tree  BY <1>1, <2>2
  <2>3. CASE Stray  BY <1>1, <2>3, StrayKeeps
  <2>4. QED  BY <2>1, <2>2, <2>3, TreeSteps
<1>3. path' \in Paths
  <2>1. CASE path' = path  BY <1>1, <2>1
  <2>2. CASE entry # NoName /\ path' = Append(path, entry)  BY <1>1, <2>2, Longer
  <2>3. CASE path # Home /\ path' = Front(path)  BY <1>1, <2>3, Shorter
  <2>4. QED  BY <2>1, <2>2, <2>3, PathSteps
<1>4. Sent /\ Remembered
  <2>1. CASE UNCHANGED vars  BY <1>1, <2>1 DEF vars, client
  <2>2. CASE FlushDir
    <3>1. toServer' = Append(toServer, Request("FLUSH_DIR", path, NoName, << >>, FALSE))
      BY <2>2 DEF FlushDir, Click, Ask
    <3>2. entry' = entry /\ moveSrc' = moveSrc  BY <2>2 DEF FlushDir, Click
    <3>3. QED  BY <1>1, <3>1, <3>2, RefreshSends
  <2>3. CASE ReturnPre
    <3>1. toServer' = Append(toServer, Request("FLUSH_DIR", path', NoName, << >>, FALSE))
          /\ entry' = NoName /\ moveSrc' = moveSrc
      BY <2>3 DEF ReturnPre
    <3>2. PICK p : p = path'  OBVIOUS
    <3>3. p \in Paths  BY <1>3, <3>2
    <3>4. toServer' = Append(toServer, Request("FLUSH_DIR", p, NoName, << >>, FALSE))
      BY <3>1, <3>2
    <3>5. QED  BY <1>1, <3>1, <3>3, <3>4, RefreshSends
  <2>4. ASSUME NEW n \in Names,
               DelDir(n) \/ DelRegFile(n) \/ EntryDir(n) \/ (\E a \in Typable : ReName(n, a))
        PROVE  Sent /\ Remembered
    <3>1. \E r : toServer' = Append(toServer, r) /\ Sane(r)  BY <2>4, UserSends
    <3>2. entry' \in {entry, n} /\ moveSrc' = moveSrc
      BY <2>4 DEF DelDir, DelRegFile, EntryDir, ReName, Click
    <3>3. QED  BY <1>1, <3>1, <3>2
  <2>5. ASSUME NEW n \in Names, SelectMoveDir(n) PROVE Sent /\ Remembered
    <3>1. \E r : toServer' = Append(toServer, r) /\ Sane(r)  BY <2>5, UserSends
    <3>2. entry' = entry /\ moveSrc' = << >>  BY <2>5 DEF SelectMoveDir
    <3>3. QED  BY <1>1, <3>1, <3>2
  <2>6. ASSUME NEW n \in Names, MoveFile(n) PROVE Sent /\ Remembered
    <3>1. toServer' = toServer /\ entry' = entry /\ moveSrc' = Append(path, n)
      BY <2>6 DEF MoveFile
    <3>2. Append(path, n) \in Paths /\ Len(Append(path, n)) > 1  BY <1>1, Longer
    <3>3. QED  BY <1>1, <3>1, <3>2
  <2>7. CASE RecvFlushDir \/ RecvEntryDir \/ RecvWithBox
    <3>1. toServer' = toServer /\ entry' \in {entry, NoName} /\ moveSrc' = moveSrc
      BY <2>7 DEF RecvFlushDir, RecvEntryDir, RecvWithBox, Receives
    <3>2. QED  BY <1>1, <3>1
  <2>8. CASE BoxClosed
    <3>1. /\ entry' = entry /\ moveSrc' = moveSrc
          /\ \/ toServer' = toServer
             \/ toServer' = Append(toServer, Request("FLUSH_DIR", path, NoName, << >>, TRUE))
      BY <2>8 DEF BoxClosed
    <3>2. QED  BY <1>1, <3>1, RefreshSends
  <2>9. CASE NoteClosed
    <3>1. /\ entry' = entry /\ moveSrc' = moveSrc
          /\ \/ toServer' = toServer
             \/ \E n \in Names : toServer' =
                  Append(toServer, Request("SHARE_FILE_NOTE_RESPONSE", Home, n, << >>, TRUE))
      BY <2>9 DEF NoteClosed
    <3>2. Home \in Paths  BY <1>1 DEF Rooted, IsDir
    <3>3. ASSUME NEW n \in Names
          PROVE  Sane(Request("SHARE_FILE_NOTE_RESPONSE", Home, n, << >>, TRUE))
      BY <1>1, <3>2 DEF Sane, Request
    <3>4. QED  BY <1>1, <3>1, <3>3
  <2>10. CASE Handle
    <3>1. /\ entry' = entry /\ moveSrc' = moveSrc
          /\ toServer # << >> /\ toServer' = Tail(toServer)
      BY <2>10 DEF Handle, HandleFlushDir, HandleEntryDir, HandleCreateDir, HandleDelDir,
                   HandleDelFile, HandleRenameFile, HandleMoveFile, HandleShareNoteResponse,
                   Takes, client
    <3>2. QED  BY <1>1, <3>1
  <2>11. CASE Note \/ Stray
    <3>1. entry' = entry /\ moveSrc' = moveSrc /\ toServer' = toServer
      BY <2>11 DEF Note, Stray, Strays, client
    <3>2. QED  BY <1>1, <3>1
  <2>12. CASE Creates
    <3>1. \E r : toServer' = Append(toServer, r) /\ Sane(r)  BY <2>12, CreateSends
    <3>2. entry' = entry /\ moveSrc' = moveSrc  BY <2>12 DEF Creates, CreateDirHere, Click
    <3>3. QED  BY <1>1, <3>1, <3>2
  <2>13. QED
    BY <2>1, <2>2, <2>3, <2>4, <2>5, <2>6, <2>7, <2>8, <2>9, <2>10, <2>11, <2>12 DEF Next, Creates
<1>5. \A r \in ToSet(toServer') : Sane(r)  BY <1>4, SaneStep
<1>6. QED  BY <1>2, <1>3, <1>4, <1>5 DEF Typed, Remembered

\* No file of the user is lost but by his deleting it, by a new name that
\* leads out of his directory, or by a file that takes its name, whatever he
\* renames and moves where, whatever he accepts and whatever others bring.
THEOREM FilesAreKept == Spec => NothingLost
<1>1. Init => Queues /\ Typed  BY QueuesInit, TypedInit
<1>2. Queues /\ Typed /\ [Next]_vars => Queues' /\ Typed'  BY QueuesStep, TypedStep
<1>3. ASSUME Queues, Typed, [Next]_vars, NEW p \in DOMAIN tree, Gone(p)
      PROVE  IsFile(tree', p) \/ Deletes(Head(toServer), p)
  <2>1. IsFile(tree, p) /\ \A q \in DOMAIN tree' : tree'[q] # tree[p]  BY <1>3 DEF Gone
  <2>2. Handle \/ Stray  BY <2>1, TreeSteps, <1>3
  <2>3. p \in Paths /\ Rooted(tree)  BY <1>3 DEF Typed, Rooted
  <2>4. CASE Handle  BY <1>3, <2>1, <2>3, <2>4, Handlers DEF Works
  <2>5. CASE Stray  BY <2>1, <2>3, <2>5, StrayKeeps
  <2>6. QED  BY <2>2, <2>4, <2>5
<1>4. Queues /\ Typed /\ [Next]_vars =>
        [\A p \in DOMAIN tree : Gone(p) => IsFile(tree', p) \/ Deletes(Head(toServer), p)]_vars
  BY <1>3
<1>5. QED  BY <1>1, <1>2, <1>4, PTL DEF Spec, NothingLost

-----------------------------------------------------------------------------
(* The window of a user who waits.                                         *)

\* He is in a directory, no request of his takes it away, and what is shown
\* next is one.
Standing ==
    /\ IsDir(tree, path)
    /\ \A r \in Waiting(toServer) : Spares(r, path)
    /\ \A m \in Waiting(toClient) : m.type = "FLUSH_DIR_RESPONSE" => IsDir(tree, m.of)

LEMMA WaitingAppended ==
    ASSUME NEW s, Queue(s), NEW e
    PROVE  /\ Waiting(Append(s, e)) \subseteq Waiting(s) \cup {e}
           /\ e.type \in Offers => Waiting(Append(s, e)) = Waiting(s)
  BY Appended DEF Waiting

LEMMA WaitingTaken ==
    ASSUME NEW s, Queue(s), s # << >>
    PROVE  Waiting(Tail(s)) \subseteq Waiting(s)
  BY Taken DEF Waiting

LEMMA StandingInit == ASSUME Init PROVE Standing
<1>1. Waiting(<< >>) = {}  BY DEF Waiting, ToSet
<1>2. IsDir(tree, Home)  BY TypedInit DEF Typed, Rooted
<1>3. QED  BY <1>1, <1>2 DEF Init, Standing

\* Most steps leave the window where it is, and send and bring nothing that
\* could move the ground.
LEMMA StandsStill ==
    ASSUME Standing, path' = path, tree' = tree,
           \A r \in Waiting(toServer') : r \in Waiting(toServer) \/ Spares(r, path),
           \A m \in Waiting(toClient') :
              m \in Waiting(toClient) \/ m.type # "FLUSH_DIR_RESPONSE" \/ IsDir(tree, m.of)
    PROVE  Standing'
  BY DEF Standing

LEMMA UserStands ==
    ASSUME Queues, Typed, patience = "all", InHand, Standing, NEW n \in Names,
           \/ DelDir(n) \/ DelRegFile(n) \/ EntryDir(n) \/ MoveFile(n) \/ SelectMoveDir(n)
           \/ \E a \in Typable : ReName(n, a)
    PROVE  Standing'
<1>1. path' = path /\ tree' = tree /\ toClient' = toClient
  BY DEF DelDir, DelRegFile, EntryDir, MoveFile, SelectMoveDir, ReName, Click, Ask
<1>2. path \in Paths /\ path \in Seq(Elems) /\ n \in Elems  BY PathFacts DEF Typed, Elems
<1>3. ASSUME NEW r, toServer' = Append(toServer, r), Spares(r, path) PROVE Standing'
  <2>1. Waiting(toServer') \subseteq Waiting(toServer) \cup {r}
    BY <1>3, WaitingAppended DEF Queues
  <2>2. QED  BY <1>1, <1>3, <2>1, StandsStill
<1>4. CASE MoveFile(n)
  <2>1. toServer' = toServer  BY <1>4 DEF MoveFile
  <2>2. QED  BY <1>1, <2>1, StandsStill
<1>5. CASE SelectMoveDir(n)
  <2>1. PICK r : toServer' = Append(toServer, r) /\ r.type = "MOVE_FILE" /\ r.arg = Append(path, n)
    BY <1>5, UserSends
  <2>2. IsPrefix(path, Append(path, n))  BY <1>2, Longer
  <2>3. Spares(r, path)  BY <2>1, <2>2 DEF Spares
  <2>4. QED  BY <1>3, <2>1, <2>3
<1>6. CASE DelDir(n) \/ DelRegFile(n) \/ EntryDir(n) \/ (\E a \in Typable : ReName(n, a))
  <2>1. PICK r : toServer' = Append(toServer, r) /\ r.type # "MOVE_FILE" /\ r.path = path
    BY <1>6, UserSends
  <2>2. IsPrefix(path, path)  BY <1>2, PrefixOrder
  <2>3. Spares(r, path)  BY <2>1, <2>2 DEF Spares
  <2>4. QED  BY <1>3, <2>1, <2>3
<1>7. QED  BY <1>4, <1>5, <1>6

LEMMA ListingSpares == ASSUME NEW p, NEW q, NEW auto PROVE Spares(Request("FLUSH_DIR", p, NoName, << >>, auto), q)
  BY DEF Spares, Request

LEMMA RefreshStands ==
    ASSUME Queues, Typed, patience = "all", InHand, Standing
    PROVE  /\ FlushDir => Standing'
           /\ Creates => Standing'
           /\ ReturnPre => Standing'
           /\ BoxClosed => Standing'
<1>1. ASSUME NEW p, NEW auto, path' = path, tree' = tree, toClient' = toClient,
             toServer' = Append(toServer, Request("FLUSH_DIR", p, NoName, << >>, auto))
      PROVE  Standing'
  <2>1. Waiting(toServer') \subseteq Waiting(toServer)
                                        \cup {Request("FLUSH_DIR", p, NoName, << >>, auto)}
    BY <1>1, WaitingAppended DEF Queues
  <2>2. QED  BY <1>1, <2>1, ListingSpares, StandsStill
<1>2. FlushDir => Standing'  BY <1>1 DEF FlushDir, Click, Ask
<1>3. ASSUME ReturnPre PROVE Standing'
  <2>1. /\ path # Home /\ path' = Front(path) /\ MayClick
        /\ tree' = tree /\ toClient' = toClient
    BY <1>3 DEF ReturnPre
  <2>2. Waiting(toServer) = {} /\ Waiting(toClient) = {}  BY <2>1, WaitingInFlight DEF MayClick
  <2>3. PICK p : toServer' = Append(toServer, Request("FLUSH_DIR", p, NoName, << >>, FALSE))
    BY <1>3 DEF ReturnPre
  <2>4. Waiting(toServer') \subseteq {Request("FLUSH_DIR", p, NoName, << >>, FALSE)}
    BY <2>2, <2>3, WaitingAppended DEF Queues
  <2>5. IsDir(tree, Front(path))
    <3>1. path \in Paths /\ Rooted(tree) /\ path \in DOMAIN tree  BY DEF Typed, Standing, IsDir
    <3>2. Front(path) \in Paths /\ IsPrefix(Front(path), path) /\ Front(path) # path
      BY <2>1, <3>1, Shorter
    <3>3. QED  BY <3>1, <3>2, Above
  <2>6. QED  BY <2>1, <2>2, <2>4, <2>5, ListingSpares DEF Standing
<1>4. ASSUME BoxClosed PROVE Standing'
  <2>1. /\ path' = path /\ tree' = tree /\ toClient' = toClient
        /\ \/ toServer' = toServer
           \/ toServer' = Append(toServer, Request("FLUSH_DIR", path, NoName, << >>, TRUE))
    BY <1>4 DEF BoxClosed
  <2>2. CASE toServer' = toServer  BY <2>1, <2>2, StandsStill
  <2>3. QED  BY <1>1, <2>1, <2>2
<1>5. ASSUME Creates PROVE Standing'
  <2>1. path' = path /\ tree' = tree /\ toClient' = toClient
    BY <1>5 DEF Creates, CreateDirHere, Click, Ask
  <2>2. PICK r : toServer' = Append(toServer, r) /\ r.type = "CREATE_DIR"  BY <1>5, CreateSends
  <2>3. Waiting(toServer') \subseteq Waiting(toServer) \cup {r}
    BY <2>2, WaitingAppended DEF Queues
  <2>4. Spares(r, path)  BY <2>2 DEF Spares
  <2>5. QED  BY <2>1, <2>3, <2>4, StandsStill
<1>6. QED  BY <1>2, <1>3, <1>4, <1>5

LEMMA ClientStands ==
    ASSUME Queues, Typed, InHand, Standing
    PROVE  /\ RecvFlushDir => Standing'
           /\ RecvEntryDir => Standing'
           /\ RecvWithBox => Standing'
           /\ NoteClosed => Standing'
<1>1. ASSUME RecvFlushDir PROVE Standing'
  <2>1. /\ Receives("FLUSH_DIR_RESPONSE")
        /\ path' = IF entry # NoName THEN Append(path, entry) ELSE path
        /\ "FLUSH_DIR_RESPONSE" \notin Offers
    BY <1>1 DEF RecvFlushDir, Offers
  <2>2. /\ Head(toClient).type = "FLUSH_DIR_RESPONSE" /\ AnswerFits(Head(toClient))
        /\ Waiting(toServer') = {} /\ Waiting(toClient') = {}
    BY <2>1, Received
  <2>3. toClient # << >> /\ tree' = tree  BY <2>1 DEF Receives
  <2>4. Head(toClient) \in Waiting(toClient)
    BY <2>2, <2>3, Taken DEF Queues, Waiting, Offers
  <2>5. IsDir(tree, Head(toClient).of)  BY <2>2, <2>4 DEF Standing
  <2>6. Head(toClient).of = path'  BY <2>1, <2>2 DEF AnswerFits
  <2>7. IsDir(tree', path')  BY <2>3, <2>5, <2>6
  <2>8. QED  BY <2>2, <2>7 DEF Standing
<1>2. ASSUME RecvEntryDir \/ RecvWithBox PROVE Standing'
  <2>1. /\ path' = path /\ tree' = tree /\ toServer' = toServer
        /\ toClient # << >> /\ toClient' = Tail(toClient)
    BY <1>2 DEF RecvEntryDir, RecvWithBox, Receives
  <2>2. Waiting(toClient') \subseteq Waiting(toClient)  BY <2>1, WaitingTaken DEF Queues
  <2>3. QED  BY <2>1, <2>2, StandsStill
<1>3. ASSUME NoteClosed PROVE Standing'
  <2>1. /\ path' = path /\ tree' = tree /\ toClient' = toClient
        /\ \/ toServer' = toServer
           \/ \E n \in Names : toServer' =
                Append(toServer, Request("SHARE_FILE_NOTE_RESPONSE", Home, n, << >>, TRUE))
    BY <1>3 DEF NoteClosed
  <2>2. ASSUME NEW n PROVE Request("SHARE_FILE_NOTE_RESPONSE", Home, n, << >>, TRUE).type \in Offers
    BY DEF Request, Offers
  <2>3. CASE toServer' = toServer  BY <2>1, <2>3, StandsStill
  <2>4. CASE \E n \in Names : toServer' =
               Append(toServer, Request("SHARE_FILE_NOTE_RESPONSE", Home, n, << >>, TRUE))
    <3>1. PICK n : toServer' =
            Append(toServer, Request("SHARE_FILE_NOTE_RESPONSE", Home, n, << >>, TRUE))
      BY <2>4
    <3>2. Waiting(toServer') = Waiting(toServer)
      BY <2>2, <3>1, WaitingAppended DEF Queues
    <3>3. QED  BY <2>1, <3>2, StandsStill
  <2>5. QED  BY <2>1, <2>3, <2>4
<1>4. QED  BY <1>1, <1>2, <1>3

LEMMA ServerStands ==
    ASSUME Queues, Typed, InHand, Standing, Handle \/ Note \/ Stray
    PROVE  Standing'
<1>1. CASE Note
  <2>1. path' = path /\ tree' = tree /\ toServer' = toServer  BY <1>1 DEF Note, client
  <2>2. PICK m : toClient' = Append(toClient, m) /\ m.type = "SHARE_FILE_NOTE"
    BY <1>1 DEF Note
  <2>3. Waiting(toClient') = Waiting(toClient)  BY <2>2, WaitingAppended DEF Queues, Offers
  <2>4. QED  BY <2>1, <2>3, StandsStill
<1>2. CASE Handle
  <2> DEFINE r == Head(toServer)
  <2>1. /\ path' = path
        /\ toServer # << >> /\ toServer' = Tail(toServer)
    BY <1>2 DEF Handle, HandleFlushDir, HandleEntryDir, HandleCreateDir, HandleDelDir,
                HandleDelFile, HandleRenameFile, HandleMoveFile, HandleShareNoteResponse,
                Takes, client
  <2>2. Works(r, tree, tree')  BY <1>2, Handlers
  <2>3. Spares(r, path)
    <3>1. CASE r.type \in Offers  BY <3>1 DEF Spares, Offers
    <3>2. CASE r.type \notin Offers
      <4>1. r \in Waiting(toServer)  BY <2>1, <3>2, Taken DEF Queues, Waiting
      <4>2. QED  BY <4>1 DEF Standing
    <3>3. QED  BY <3>1, <3>2
  <2>4. path \in Paths /\ DOMAIN tree \subseteq Paths  BY DEF Typed, Rooted
  <2>5. IsDir(tree', path)  BY <2>2, <2>3, <2>4 DEF Works, Standing
  <2>6. \A q \in Waiting(toServer') : Spares(q, path)
    BY <2>1, WaitingTaken DEF Queues, Standing
  <2>7. ASSUME NEW m \in Waiting(toClient'), m.type = "FLUSH_DIR_RESPONSE"
        PROVE  IsDir(tree', m.of)
    <3>1. CASE r.type \in Offers
      <4>1. HandleShareNoteResponse
        BY <1>2, <3>1 DEF Handle, HandleFlushDir, HandleEntryDir, HandleCreateDir, HandleDelDir,
                HandleDelFile, HandleRenameFile, HandleMoveFile, Takes, Offers
      <4>2. toClient' = toClient  BY <4>1 DEF HandleShareNoteResponse
      <4>3. IsDir(tree, m.of)  BY <2>7, <4>2 DEF Standing
      <4>4. m.of \in Paths  BY <2>4, <4>3 DEF IsDir
      <4>5. Spares(r, m.of)  BY <3>1 DEF Spares, Offers
      <4>6. QED  BY <2>2, <4>3, <4>4, <4>5 DEF Works
    <3>2. CASE r.type \notin Offers
      <4>1. Waiting(toClient) = {}
        <5>1. Waiting(toServer) # {}  BY <2>1, <3>2, Taken DEF Queues, Waiting
        <5>2. QED  BY <5>1 DEF InHand, OneAtATime
      <4>2. ASSUME NEW a, toClient' = Append(toClient, a) PROVE m = a
        BY <4>1, <4>2, WaitingAppended DEF Queues
      <4>3. CASE HandleFlushDir
        <5>1. /\ Takes("FLUSH_DIR") /\ tree' = tree
              /\ toClient' = Append(toClient, Answer(r, "FLUSH_DIR_RESPONSE", TRUE, r.path,
                                                    ListDir(tree, r.path)))
          BY <4>3 DEF HandleFlushDir, Reply
        <5>2. m.of = r.path  BY <4>2, <5>1 DEF Answer
        <5>3. "FLUSH_DIR" \notin Offers  BY DEF Offers
        <5>4. r.type = "FLUSH_DIR" /\ RequestFits(r)  BY <5>1, <5>3, ServedFits
        <5>5. r.path = path  BY <5>4 DEF RequestFits
        <5>6. QED  BY <2>5, <5>2, <5>5
      <4>4. CASE HandleEntryDir
        <5> DEFINE p == Target(r)
        <5>1. /\ tree' = tree
              /\ \/ /\ IsDir(tree, p)
                    /\ toClient' = Append(toClient, Answer(r, "FLUSH_DIR_RESPONSE", TRUE, p,
                                                           ListDir(tree, p)))
                 \/ toClient' = Append(toClient, Answer(r, "ENTRY_DIR_RESPONSE", FALSE, p, {}))
          BY <4>4 DEF HandleEntryDir, Reply
        <5> HIDE DEF p
        <5>2. CASE toClient' = Append(toClient, Answer(r, "ENTRY_DIR_RESPONSE", FALSE, p, {}))
          BY <2>7, <4>2, <5>2 DEF Answer
        <5>3. CASE /\ IsDir(tree, p)
                   /\ toClient' = Append(toClient, Answer(r, "FLUSH_DIR_RESPONSE", TRUE, p,
                                                          ListDir(tree, p)))
          BY <4>2, <5>1, <5>3 DEF Answer
        <5>4. QED  BY <5>1, <5>2, <5>3
      <4>5. CASE HandleShareNoteResponse
        BY <3>2, <4>5 DEF HandleShareNoteResponse, Takes, Offers
      <4>6. CASE HandleCreateDir \/ HandleDelDir \/ HandleDelFile \/ HandleRenameFile \/ HandleMoveFile
        <5>1. \E a : toClient' = Append(toClient, a) /\ a.type # "FLUSH_DIR_RESPONSE"
          <6>1. ASSUME NEW t, t # "FLUSH_DIR_RESPONSE", NEW ok, NEW q, Reply(t, ok, q, {})
                PROVE  \E a : toClient' = Append(toClient, a) /\ a.type # "FLUSH_DIR_RESPONSE"
            BY <6>1 DEF Reply, Answer
          <6>2. CASE HandleCreateDir  BY <6>1, <6>2 DEF HandleCreateDir
          <6>3. CASE HandleDelDir  BY <6>1, <6>3 DEF HandleDelDir
          <6>4. CASE HandleDelFile  BY <6>1, <6>4 DEF HandleDelFile
          <6>5. CASE HandleRenameFile
            <7>1. \E ok : Reply("RENAME_FILE_RESPONSE", ok, LeadsTo(r), {})
              BY <6>5 DEF HandleRenameFile, RenamesAway
            <7>2. QED  BY <6>1, <7>1
          <6>6. CASE HandleMoveFile  BY <6>1, <6>6 DEF HandleMoveFile
          <6>7. QED  BY <4>6, <6>2, <6>3, <6>4, <6>5, <6>6
        <5>2. QED  BY <2>7, <4>2, <5>1
      <4>7. QED  BY <1>2, <4>3, <4>4, <4>5, <4>6 DEF Handle
    <3>3. QED  BY <3>1, <3>2
  <2>8. QED  BY <2>1, <2>5, <2>6, <2>7 DEF Standing
<1>3. CASE Stray
  <2>1. UNCHANGED <<path, toServer, toClient>>  BY <1>3 DEF Stray, Strays, client
  <2>2. \A d : IsDir(tree, d) => IsDir(tree', d)  BY <1>3, StrayKeeps DEF Typed
  <2>3. QED  BY <2>1, <2>2 DEF Standing
<1>4. QED  BY <1>1, <1>2, <1>3

LEMMA StandingStep ==
    ASSUME Queues, Typed, patience = "all", InHand, Standing, [Next]_vars
    PROVE  Standing'
<1>1. CASE UNCHANGED vars  BY <1>1 DEF vars, client, Standing
<1>2. CASE \E n \in Names :
            \/ DelDir(n) \/ DelRegFile(n) \/ EntryDir(n) \/ MoveFile(n) \/ SelectMoveDir(n)
            \/ \E a \in Typable : ReName(n, a)
  BY <1>2, UserStands
<1>3. CASE FlushDir \/ Creates \/ ReturnPre \/ BoxClosed  BY <1>3, RefreshStands
<1>4. CASE RecvFlushDir \/ RecvEntryDir \/ RecvWithBox \/ NoteClosed  BY <1>4, ClientStands
<1>5. CASE Handle \/ Note \/ Stray  BY <1>5, ServerStands
<1>6. QED  BY <1>1, <1>2, <1>3, <1>4, <1>5 DEF Next, Creates

-----------------------------------------------------------------------------

WInv == Queues /\ Typed /\ (patience = "all" => InHand /\ Standing)

\* The window implements Browser, for any trees, names and shares: who waits
\* is always in a directory that exists, whatever he renames, moves and
\* deletes and whatever is shared with him; and nobody loses his home.
THEOREM BrowserRefinement == Spec => IsBrowser
<1> DEFINE ds == {p \in DOMAIN tree : tree[p] = Dir}
           at == IF patience = "all" THEN path ELSE Home
<1>1. Init => WInv
  BY QueuesInit, TypedInit, PatientInit, StandingInit DEF WInv
<1>2. WInv /\ [Next]_vars => WInv'
  BY QueuesStep, TypedStep, InHandStep, StandingStep, PatienceKept DEF WInv
<1>3. Init => BR!Init
  <2> SUFFICES ASSUME Init PROVE BR!Init
    OBVIOUS
  <2>1. IsDir(tree, Home) /\ path = Home  BY TypedInit DEF Init, Typed, Rooted
  <2>2. QED  BY <2>1 DEF BR!Init, IsDir
<1>4. WInv /\ WInv' /\ [Next]_vars => [BR!Down \/ BR!Up \/ BR!Change]_<<ds, at>>
  <2> SUFFICES ASSUME WInv, WInv', [Next]_vars
               PROVE  BR!Down \/ BR!Up \/ BR!Change
    BY DEF ds, at
  <2>1. patience' = patience  BY PatienceKept
  <2>2. path \in Paths /\ path' \in Paths /\ IsDir(tree', Home)  BY DEF WInv, Typed, Rooted
  <2>3. CASE patience # "all"
    <3>1. Home \in ds'  BY <2>2 DEF IsDir
    <3>2. QED  BY <2>1, <2>3, <3>1 DEF BR!Change
  <2>4. CASE patience = "all"
    <3>1. path' \in ds'  BY <2>1, <2>4 DEF WInv, Standing, IsDir
    <3>2. CASE path' = path  BY <2>1, <2>4, <3>1, <3>2 DEF BR!Change
    <3>3. CASE entry # NoName /\ path' = Append(path, entry) /\ tree' = tree
      <4>1. entry \in Elems  BY <3>3 DEF WInv, Typed, Elems
      <4>2. Front(path') = path /\ Len(path') > 1  BY <2>2, <3>3, <4>1, Longer
      <4>3. path' \in ds  BY <3>1, <3>3
      <4>4. PICK d : d = path'  OBVIOUS
      <4>5. QED  BY <2>1, <2>4, <3>3, <4>2, <4>3, <4>4 DEF BR!Down, BR!Front, Front
    <3>4. CASE path # Home /\ path' = Front(path) /\ tree' = tree
      <4>1. path' \in ds  BY <3>1, <3>4
      <4>2. QED  BY <2>1, <2>4, <3>4, <4>1 DEF BR!Up, BR!Front, Front
    <3>5. QED  BY <3>2, <3>3, <3>4, PathSteps
  <2>5. QED  BY <2>3, <2>4
<1>5. QED
  BY <1>1, <1>2, <1>3, <1>4, PTL DEF Spec, IsBrowser, BR!Spec
=============================================================================
