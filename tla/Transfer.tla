------------------------------ MODULE Transfer ------------------------------
(***************************************************************************)
(* Two protocols on one socket: PDUs, and the raw bytes of a file.         *)
(*                                                                         *)
(* The server (CloudServer::handleMessage and the handlers it dispatches   *)
(* to) cuts what it reads into PDUs, except in upload mode, when all that  *)
(* it reads is file content.  The client (TcpClient::recvMsg and Book of   *)
(* web/) cuts what it reads into PDUs, except in download mode.  Both sides*)
(* switch mode in the middle of what TCP happened to deliver together.     *)
(*                                                                         *)
(* One descriptor of the server is modelled and the connections that have  *)
(* it one after the other, each from a client program of its own: uploads_ *)
(* and recvbuf_ are keyed by the descriptor.  Handlers of other connections*)
(* push PDUs (chat, friend requests, share notes) to this one.             *)
(*                                                                         *)
(* A file is announced by "name size", written with sprintf and read with  *)
(* sscanf("%s %lld").  If the name has a space, the size is not reached and*)
(* stays 0, or is a number within the name.  The size of an announcement is*)
(* here what its reader makes of it; the bytes that follow may be fewer or *)
(* more, also because a file cannot be read or has changed.                *)
(*                                                                         *)
(* A PDU is two tokens, its length header and the rest, so that it can be  *)
(* split and glued anywhere; a byte of a file is one token.                *)
(***************************************************************************)
EXTENDS Naturals, Sequences

CONSTANTS
    Sizes,         \* how many bytes a file may have; 0 is among them
    HeapValues,    \* what the client's heap may hold in recived_, which Book's
                   \* constructor does not initialise
    MaxConns,      \* bound: connections, one after the other
    MaxRequests,   \* bound: requests of one client
    MaxPushes,     \* bound: PDUs pushed to one client
    Patient        \* the user waits for an answer before the next request

ASSUME TransferAssumption ==
    /\ Sizes \subseteq Nat /\ 0 \in Sizes /\ HeapValues \subseteq Nat
    /\ MaxConns \in Nat /\ MaxRequests \in Nat /\ MaxPushes \in Nat
    /\ Patient \in BOOLEAN

VARIABLES
    link,       \* "open", "closing" (the peer closed) or "closed"
    conn,       \* the number of the connection that has the descriptor
    toServer,   \* sent by the client and not yet read
    toClient,   \* appended to the output buffer and not yet delivered
    recvbuf,    \* CloudServer::recvbuf_[fd]
    parsing,    \* handleMessage is in its loop
    upload,     \* CloudServer::uploads_[fd]
    stored,     \* the file of the last upload: who sends it, the size that the
                \* server has read, content
    refused,    \* fopen has failed for an upload of this connection
    garbled,    \* the server took something else for the header of a PDU
    inbox,      \* in the client's socket, not yet read by recvMsg
    reading,    \* recvMsg: "no", "loop" or "dialog" (the download is over)
    download,   \* Book: bDownlaod_, total_, recived_; downloadFile is open
    saved,      \* what was written to the downloaded file
    timer,      \* Book::pTimer_: the size in the announcement, if it runs
    waiting,    \* what the user waits for
    confused,   \* the client took something else for the header of a PDU
    miscounted, \* history: the ways ("upload", "download") in which what follows
                \* an announcement has not the size that was read in it
    count       \* requests and pushes so far, for the bounds

network == <<toServer, toClient>>
server == <<recvbuf, parsing, upload, stored, refused, garbled>>
client == <<inbox, reading, download, saved, timer, waiting, confused>>
vars == <<link, conn, network, server, client, miscounted, count>>

Requests == {"ask", "upload", "download"}
Answers == {"reply", "upload_ok", "download_rsp", "push"}

Token(kinds) == [kind : kinds, size : Nat, by : 1 .. MaxConns, part : 0 .. 2]
Pdu(k, n) == [p \in 1 .. 2 |-> [kind |-> k, size |-> n, by |-> conn, part |-> p]]
FileBytes(n) == [i \in 1 .. n |-> [kind |-> "byte", size |-> i, by |-> conn, part |-> 0]]
IsHeader(t) == t.part = 1

NoUpload == [active |-> FALSE, total |-> 0, received |-> 0]
NoDownload == [active |-> FALSE, total |-> 0, received |-> 0, open |-> FALSE]

\* sent bytes follow what was read as the announcement of a file of n bytes.
Follow(way, n, sent) ==
    miscounted' = IF sent = n THEN miscounted ELSE miscounted \cup {way}

Init ==
    /\ link = "open"
    /\ conn = 1
    /\ toServer = << >> /\ toClient = << >>
    /\ recvbuf = << >>
    /\ parsing = FALSE
    /\ upload = NoUpload
    /\ stored = [by |-> 1, size |-> 0, data |-> << >>]
    /\ refused = FALSE
    /\ garbled = FALSE
    /\ inbox = << >>
    /\ reading = "no"
    /\ \E r \in HeapValues : download = [NoDownload EXCEPT !.received = r]
    /\ saved = << >>
    /\ timer = {}
    /\ waiting = "none"
    /\ confused = FALSE
    /\ miscounted = {}
    /\ count = [requests |-> 0, pushes |-> 0]

-----------------------------------------------------------------------------
(* The client: what the user does.                                         *)

Request(kind, n) ==
    /\ link = "open"
    /\ Patient => waiting = "none"
    /\ count.requests < MaxRequests
    /\ count' = [count EXCEPT !.requests = @ + 1]
    /\ toServer' = toServer \o Pdu(kind, n)
    /\ waiting' = kind
    /\ UNCHANGED <<link, conn, toClient, server, inbox, reading, download, saved,
                   confused, miscounted>>

\* Any request with one PDU for an answer (Book::flushDir and many more).
Ask == Request("ask", 0) /\ UNCHANGED timer

\* Book::updateFile: the PDU now, the file in a second.  n is what
\* handleUpdateFile will read as its size.
UpdateFile(n) == Request("upload", n) /\ timer' = {n}

\* Book::downloadFile.  n is what recvMsg will read in the answer as the size:
\* 0 also if the file is not there.
DownloadFile(n) == Request("download", n) /\ UNCHANGED timer

\* Book::updateFileDate: the file, as much of it as can be read now.
UpdateFileDate ==
    /\ link = "open"
    /\ \E n \in timer, sent \in Sizes :
          toServer' = toServer \o FileBytes(sent) /\ Follow("upload", n, sent)
    /\ timer' = {}
    /\ UNCHANGED <<link, conn, toClient, server, inbox, reading, download, saved,
                   waiting, confused, count>>

\* The client program ends; the file that was to follow does not.
HangUp ==
    /\ link = "open"
    /\ link' = "closing"
    /\ timer' = {}
    /\ miscounted' = IF timer = {} THEN miscounted ELSE miscounted \cup {"upload"}
    /\ UNCHANGED <<conn, network, server, inbox, reading, download, saved, waiting,
                   confused, count>>

\* Another client program gets the descriptor, and the upload of the one
\* before, if it was not finished: no byte of that will follow.
Connect ==
    /\ link = "closed"
    /\ conn < MaxConns
    /\ link' = "open"
    /\ conn' = conn + 1
    /\ inbox' = << >>
    /\ reading' = "no"
    /\ \E r \in HeapValues : download' = [NoDownload EXCEPT !.received = r]
    /\ saved' = << >>
    /\ timer' = {}
    /\ waiting' = "none"
    /\ confused' = FALSE
    /\ IF upload.active
       THEN miscounted' = {"upload"} /\ stored' = stored
       ELSE miscounted' = {} /\ stored' = [by |-> conn + 1, size |-> 0, data |-> << >>]
    /\ count' = [requests |-> 0, pushes |-> 0]
    /\ UNCHANGED <<network, recvbuf, parsing, upload, refused, garbled>>

-----------------------------------------------------------------------------
(* The server.                                                             *)

\* Mutant: if(st.received > st.total).
StoreOneByteMore(data, st, file) ==
    LET received == st.received + Len(data) IN
    /\ stored' = [file EXCEPT !.data = @ \o data]
    /\ IF received > st.total
       THEN upload' = NoUpload /\ toClient' = toClient \o Pdu("upload_ok", 0)
       ELSE upload' = [st EXCEPT !.received = received] /\ toClient' = toClient

\* Mutant: if(st.received >= st.total - 1).
StoreOneByteLess(data, st, file) ==
    LET received == st.received + Len(data) IN
    /\ stored' = [file EXCEPT !.data = @ \o data]
    /\ IF received + 1 >= st.total
       THEN upload' = NoUpload /\ toClient' = toClient \o Pdu("upload_ok", 0)
       ELSE upload' = [st EXCEPT !.received = received] /\ toClient' = toClient

\* writeUploadData: all of it goes to the file, also what is too much.
WriteUploadData(data, st, file) ==
    LET received == st.received + Len(data) IN
    /\ stored' = [file EXCEPT !.data = @ \o data]
    /\ IF received >= st.total
       THEN upload' = NoUpload /\ toClient' = toClient \o Pdu("upload_ok", 0)
       ELSE upload' = [st EXCEPT !.received = received] /\ toClient' = toClient

\* onMessage and the beginning of handleMessage: TCP delivers n tokens.
HandleMessage(n) ==
    /\ link # "closed"
    /\ ~parsing /\ ~garbled
    /\ toServer' = SubSeq(toServer, n + 1, Len(toServer))
    /\ IF upload.active
       THEN /\ WriteUploadData(SubSeq(toServer, 1, n), upload, stored)
            /\ UNCHANGED <<recvbuf, parsing>>
       ELSE /\ recvbuf' = recvbuf \o SubSeq(toServer, 1, n)
            /\ parsing' = TRUE
            /\ UNCHANGED <<upload, stored, toClient>>
    /\ UNCHANGED <<link, conn, refused, garbled, client, count, miscounted>>

\* The loop takes a whole PDU from the front of the buffer.
Pick(kind) ==
    /\ parsing
    /\ Len(recvbuf) >= 2
    /\ IsHeader(Head(recvbuf))
    /\ Head(recvbuf).kind = kind

Rest == SubSeq(recvbuf, 3, Len(recvbuf))

HandleAsk ==
    /\ Pick("ask")
    /\ recvbuf' = Rest
    /\ toClient' = toClient \o Pdu("reply", 0)
    /\ UNCHANGED <<link, conn, toServer, parsing, upload, stored, refused,
                   garbled, client, count, miscounted>>

\* handleUpdateFile; back in the loop, what is left in the buffer is taken
\* for the beginning of the file.
HandleUpdateFile ==
    /\ Pick("upload")
    /\ LET n == Head(recvbuf).size
           st == [active |-> TRUE, total |-> n, received |-> 0]
           file == [by |-> conn, size |-> n, data |-> << >>]
       IN IF Rest = << >>
          THEN upload' = st /\ stored' = file /\ toClient' = toClient
          ELSE WriteUploadData(Rest, st, file)
    /\ recvbuf' = << >>
    /\ UNCHANGED <<link, conn, toServer, parsing, refused, garbled, client,
                   count, miscounted>>

\* ... or fopen fails, and nothing tells the client.
HandleUpdateFileFails ==
    /\ Pick("upload")
    /\ recvbuf' = Rest
    /\ refused' = TRUE
    /\ UNCHANGED <<link, conn, network, parsing, upload, stored, garbled,
                   client, count, miscounted>>

\* handleDownloadFile: the answer and the file in one go.  The handler runs
\* on the connection's own loop, so nothing is appended in between.  fopen or
\* fread may fail (of a directory it does), or conns_ lack the descriptor:
\* then fewer bytes follow, or none.
HandleDownloadFile(sent) ==
    /\ Pick("download")
    /\ recvbuf' = Rest
    /\ LET n == Head(recvbuf).size IN
       /\ toClient' = toClient \o Pdu("download_rsp", n) \o FileBytes(sent)
       /\ Follow("download", n, sent)
    /\ UNCHANGED <<link, conn, toServer, parsing, upload, stored, refused, garbled, client, count>>

\* Half a PDU, or nothing, is left for the next time.
ParsingDone ==
    /\ parsing
    /\ recvbuf = << >> \/ (Len(recvbuf) = 1 /\ IsHeader(Head(recvbuf)))
    /\ parsing' = FALSE
    /\ UNCHANGED <<link, conn, network, recvbuf, upload, stored, refused,
                   garbled, client, count, miscounted>>

\* Something else is read as the length of a PDU.  What then happens depends
\* on its value: the model of this connection ends here.
TakesGarbage ==
    /\ parsing
    /\ recvbuf # << >> /\ ~IsHeader(Head(recvbuf))
    /\ parsing' = FALSE
    /\ garbled' = TRUE
    /\ UNCHANGED <<link, conn, network, recvbuf, upload, stored, refused,
                   client, count, miscounted>>

\* resend from a handler of another connection; handlewakeIO appends it.
Push ==
    /\ link # "closed"
    /\ ~parsing
    /\ count.pushes < MaxPushes
    /\ count' = [count EXCEPT !.pushes = @ + 1]
    /\ toClient' = toClient \o Pdu("push", 0)
    /\ UNCHANGED <<link, conn, toServer, server, client, miscounted>>

\* Mutant: handleClose without recvbuf_.erase(fd).
HandleCloseKeepsBuffer ==
    /\ link = "closing"
    /\ ~parsing
    /\ link' = "closed"
    /\ toServer' = << >> /\ toClient' = << >>
    /\ UNCHANGED <<conn, recvbuf, refused, garbled, parsing, upload, stored,
                   client, count, miscounted>>

\* handleClose forgets the buffer, but not the upload.  What was read in the
\* same call as the end, and what was not written, is dropped.
HandleClose ==
    /\ link = "closing"
    /\ ~parsing
    /\ link' = "closed"
    /\ toServer' = << >> /\ toClient' = << >>
    /\ recvbuf' = << >>
    /\ refused' = FALSE
    /\ garbled' = FALSE
    /\ UNCHANGED <<conn, parsing, upload, stored, client, count, miscounted>>

-----------------------------------------------------------------------------
(* The client: recvMsg.                                                    *)

\* n tokens arrive.  If recvMsg is running (it may be showing a dialog) there
\* is no further readyRead.
Deliver(n) ==
    /\ link = "open"
    /\ inbox' = inbox \o SubSeq(toClient, 1, n)
    /\ toClient' = SubSeq(toClient, n + 1, Len(toClient))
    /\ reading' = IF reading = "no" THEN "loop" ELSE reading
    /\ UNCHANGED <<link, conn, toServer, server, download, saved, timer, waiting,
                   confused, count, miscounted>>

\* The loop of recvMsg takes a whole PDU; a download response with a size
\* switches to download mode, and so ends the loop, also if the file to save
\* to cannot be opened (as after the dialog for its name was cancelled).
RecvPdu(opens) ==
    LET pdu == Head(inbox)
        file == pdu.kind = "download_rsp" /\ pdu.size > 0
        answered == CASE pdu.kind = "reply" -> "ask"
                      [] pdu.kind = "upload_ok" -> "upload"
                      [] pdu.kind = "download_rsp" /\ ~file -> "download"
                      [] OTHER -> "nothing"
    IN
    /\ link = "open" /\ ~confused
    /\ reading = "loop" /\ ~download.active
    /\ Len(inbox) >= 2 /\ IsHeader(pdu)
    /\ inbox' = SubSeq(inbox, 3, Len(inbox))
    /\ waiting' = IF waiting = answered THEN "none" ELSE waiting
    /\ download' = IF file THEN [download EXCEPT !.active = TRUE, !.total = pdu.size,
                                                 !.open = opens]
                           ELSE download
    /\ saved' = IF file THEN << >> ELSE saved
    /\ UNCHANGED <<link, conn, network, server, reading, timer, confused,
                   count, miscounted>>

RecvMsgReturns ==
    /\ link = "open"
    /\ reading = "loop" /\ ~download.active
    /\ inbox = << >> \/ (Len(inbox) = 1 /\ IsHeader(Head(inbox)))
    /\ reading' = "no"
    /\ UNCHANGED <<link, conn, network, server, inbox, download, saved, timer, waiting,
                   confused, count, miscounted>>

\* Something else is read as the length of a PDU: the client's model ends.
RecvGarbage ==
    /\ link = "open" /\ ~confused
    /\ reading = "loop" /\ ~download.active
    /\ inbox # << >> /\ ~IsHeader(Head(inbox))
    /\ confused' = TRUE
    /\ UNCHANGED <<link, conn, network, server, inbox, reading, download, saved, timer,
                   waiting, count, miscounted>>

\* Download mode: readAll goes to the file, whatever it is, or nowhere if the
\* file is not open.  If the count is now exact, a dialog tells of a success,
\* either way, before the mode is left.
RecvFile ==
    LET received == download.received + Len(inbox) IN
    /\ link = "open"
    /\ reading = "loop" /\ download.active
    /\ saved' = IF download.open THEN saved \o inbox ELSE saved
    /\ inbox' = << >>
    /\ \/ /\ received < download.total
          /\ download' = [download EXCEPT !.received = received]
          /\ reading' = "no"
          /\ UNCHANGED waiting
       \/ /\ received = download.total
          /\ download' = [download EXCEPT !.received = received]
          /\ reading' = "dialog"
          /\ UNCHANGED waiting
       \/ /\ received > download.total
          /\ download' = NoDownload
          /\ reading' = "no"
          /\ waiting' = IF waiting = "download" THEN "none" ELSE waiting
    /\ UNCHANGED <<link, conn, network, server, timer, confused, count, miscounted>>

\* Mutant: recived_ is not reset.
DialogClosedKeepsCount ==
    /\ link = "open"
    /\ reading = "dialog"
    /\ reading' = "no"
    /\ download' = [download EXCEPT !.active = FALSE, !.total = 0, !.open = FALSE]
    /\ waiting' = IF waiting = "download" THEN "none" ELSE waiting
    /\ UNCHANGED <<link, conn, network, server, inbox, saved, timer, confused,
                   count, miscounted>>

\* The user has read that the download succeeded.  What has arrived in the
\* meantime waits for the next readyRead.
DialogClosed ==
    /\ link = "open"
    /\ reading = "dialog"
    /\ reading' = "no"
    /\ download' = NoDownload
    /\ waiting' = IF waiting = "download" THEN "none" ELSE waiting
    /\ UNCHANGED <<link, conn, network, server, inbox, saved, timer, confused,
                   count, miscounted>>

-----------------------------------------------------------------------------
UserStep == \/ Ask \/ HangUp \/ Connect
            \/ \E n \in Sizes : UpdateFile(n) \/ DownloadFile(n)

Receive == \E n \in 1 .. Len(toServer) : HandleMessage(n)
Handlers == \/ HandleAsk \/ HandleUpdateFile \/ HandleUpdateFileFails
            \/ \E sent \in Sizes : HandleDownloadFile(sent)
            \/ ParsingDone \/ TakesGarbage
Arrive == \E n \in 1 .. Len(toClient) : Deliver(n)
RecvMsg == \/ \E opens \in BOOLEAN : RecvPdu(opens)
           \/ RecvMsgReturns \/ RecvGarbage \/ RecvFile \/ DialogClosed

Next == \/ UserStep \/ UpdateFileDate
        \/ Receive \/ Handlers \/ Push \/ HandleClose
        \/ Arrive \/ RecvMsg

Spec == Init /\ [][Next]_vars

(***************************************************************************)
(* The timer fires, TCP delivers, the server's loop and the client's event *)
(* loop run.  The user, the other clients and the peer's life owe nothing. *)
(***************************************************************************)
FairSpec ==
    /\ Spec
    /\ WF_vars(UpdateFileDate)
    /\ WF_vars(Receive) /\ WF_vars(Handlers)
    /\ WF_vars(Arrive) /\ WF_vars(RecvMsg)

-----------------------------------------------------------------------------
\* The server never takes anything but the header of a PDU for one, however
\* TCP cut or glued PDUs and files, and whatever the connection before left.
\* The exceptions are an upload for which fopen failed, of which the client is
\* not told, and one of another size than the server has read.
FramesStayAligned == garbled => refused \/ "upload" \in miscounted

\* An upload that has ended has stored the file: all its bytes, in order, and
\* nothing else; unless another size was read than the file has.
UploadedFileIsWhole ==
    ~upload.active /\ "upload" \notin miscounted =>
        /\ Len(stored.data) = stored.size
        /\ \A i \in 1 .. stored.size :
              stored.data[i] = [kind |-> "byte", size |-> i, by |-> stored.by, part |-> 0]

\* A download that is reported as a success has saved the file: all its
\* bytes, in order, and nothing else, whoever pushed PDUs meanwhile; unless
\* there is no file to save to, or another size was read than was sent.
SuccessMeansWhole ==
    reading = "dialog" /\ download.open /\ "download" \notin miscounted =>
        /\ Len(saved) = download.total
        /\ \A i \in 1 .. Len(saved) : saved[i].kind = "byte" /\ saved[i].size = i

\* The uploads that the server leaves without an answer: it could not open the
\* file, or has read that the file is empty (handleUpdateFile).
LeftUnanswered == refused \/ (upload.active /\ upload.total = 0)

\* Every request of a user who waits for the answer is answered, unless he
\* leaves, it is an upload that the server leaves without one, the sizes of
\* files were misread, or a failed download has put the client out of step.
EveryRequestEnds ==
    waiting # "none" ~>
        \/ waiting = "none" \/ link # "open"
        \/ LeftUnanswered \/ miscounted # {} \/ confused

\* When all is quiet nobody waits: if nothing is on its way in either direction,
\* no parser is at work and the timer does not run, the user has his answer,
\* with the exceptions that the code makes.
Quiet == /\ toServer = << >> /\ toClient = << >>
         /\ ~parsing /\ reading = "no" /\ timer = {}
NobodyWaitsInVain ==
    Quiet /\ link = "open" /\ ~LeftUnanswered /\ miscounted = {} => waiting = "none"

-----------------------------------------------------------------------------
(* A claim of the source that the code does not keep.                      *)

\* cloudserver.h: while THE CONNECTION is in upload mode, what it receives is
\* written to the file.  The mode belongs to the descriptor.
StoredBytesAreTheUploaders ==
    \A i \in 1 .. Len(stored.data) : stored.data[i].by = stored.by
=============================================================================
