# Reactor cloud drive: a verification development in TLA+

This directory models the server of the cloud drive (`framework/`, `CloudServer/`) and the part of its
Qt client (`web/`) that the server's protocols depend on. TLC checks the modules on small instances;
TLAPS proves, for any values of the constants, the theorems of the `*Proofs` modules.

Run in this directory: `tlc -config MCEventLoop.cfg EventLoop.tla` (and so on, the runs are listed
below and in PROJECT.json), `tlapm EventLoopProofs.tla`.

## 1. The system

One process. The main thread runs an event loop with the acceptor; a pool of IO threads runs one event
loop each. A connection belongs to the loop `fd % threadNum`. `CloudServer` is constructed with no
worker threads, so every handler runs on its connection's IO thread. Accounts and friends are in MySQL
behind one mutex, files are in the file system, behind none.

| Component | State | Operations | Interacts by |
|---|---|---|---|
| `EventLoop` | `taskqueue_`, `mutex_`, `wakefd_`, `conns_` (for the idle timer), `stop_` | `run`, `setinqueue`, `wakeIO`, `handlewakeIO`, `handletime`, `addnewConnection` | tasks posted from any thread, eventfd, timerfd, `timerout_` callback |
| `Channel`, `Epoll` | `events_`, `revents_`, `inepoll_` | `enablereading` … `disableall`, `remove`, `handleevent`, `updatechannel`, `loop` | raw pointers in epoll's data and in posted tasks |
| `Connection`, `Buffer` | `disconnect_`, input and output buffers, `lasttime_` | `onMessage`, `closecallback`, `errorcallback`, `sendto_ob`, `sendinloop`, `writecallback`, `timeout` | callbacks of `TcpServer`; shared pointers in three maps |
| `TcpServer`, `Acceptor` | `conns_`, the loops | `newConnection`, `closecallback`, `errorcallback`, `removeconnection`, `stop` | callbacks of `CloudServer`, tasks to loops |
| `ThreadPool` | `taskqueue_`, `mutex_`, `condition_`, `stop_` | worker loop, `addtask`, `stop` | `TcpServer` adds one task (`EventLoop::run`) per loop |
| `CloudServer` | `usernames_`, `conns_` (both under `mmutex_`), `recvbuf_`, `uploads_` (under nothing) | `handleNewConnection`, `handleClose`, `handleMessage`, one handler per PDU type, `sendTo`, `resend` | DB, fileutil, other connections' output buffers |
| `DB` | `usrInfo` (name, online), `friend` | login, offline, register, friends | statements under `DB::mutex_`, results of UPDATE not looked at |
| `fileutil` | the users' directory trees | create, rename, move, copy, delete | system calls, no lock |
| `TcpClient`, `Book` and windows | current path, download and upload state | `recvMsg`, one slot per button | PDUs, Qt's event loop, modal dialogs |

What is hard here, and what makes each part correct:

* **Queue and wake-up.** The eventfd is read before the lock is taken and written after it is dropped;
  tasks run with `mutex_` held; `resend` posts while it holds `mmutex_`. Correct: no task is lost, none
  runs twice or out of order, no circle of locks.
* **Life of a connection.** Three maps keyed by a descriptor that the kernel reuses, filled step by step
  by the main thread after the IO thread may have started, emptied by the close and by the idle timer in
  two steps; raw pointers beside the shared ones. Correct: the maps only name the living owner of the
  descriptor, a connection is served until it is closed, then freed; what was queued is written.
* **Who is logged in where.** A database column, a map from names to descriptors, and the connections;
  each handler updates them in separate locked sections, UPDATEs may fail, the process may crash and the
  column survives. Correct: one session per account, nobody stuck online, messages routed to the right
  peer, a vanished client can log in again.
* **Two protocols on one socket.** PDUs and raw file bytes share a stream that TCP cuts and glues at will,
  and other clients' actions push PDUs into it; how many bytes follow is written behind a name. Correct, where it is read as it was sent: both sides stay in step; files are whole.
* **Start and stop of the threads**, with a condition variable and spurious wake-ups.
* **Who is friends with whom.** Two rows inserted and deleted by statements that may fail, requests and
  answers relayed between clients that come and go, a list read once and used for many sends. Correct: both
  have agreed, both see it, either can end it, and the news of it arrives.
* **Which directory the window shows.** A listing says neither which directory it is of nor which request it
  answers; the client appends the name it last double-clicked when the next listing comes. Correct: the list
  is that of the current path, so that what the user deletes is what he sees; every click is answered.
* **Files of several users.** One thread copies a directory of another user's system call by system call
  while its owner's thread renames, deletes and writes there, with no lock. Correct: only the owner's
  thread, or a name that leads there, changes a directory, copies are whole, and a receiver gets only what was offered
  to him.

## 2. The modules

| Module | Models | Composed with |
|---|---|---|
| `Mailbox` | abstract: every loop has a box of tasks, run by it once and in order, eventually | implemented by `EventLoop` |
| `EventLoop` | `EventLoop::setinqueue/wakeIO/handlewakeIO` at lock granularity, their callers: handlers of IO loops (`resend`, under `mmutex_`) and the acceptor (`newConnection`) | |
| `EventLoopProofs` | theorems about `EventLoop` | extends it |
| `Reactor`, `MCReactor` | a connection from accept to destructor: `TcpServer`, `Connection`, `Channel`, `Epoll`, the timer part of `EventLoop`, and `CloudServer`'s table | uses the queue at the abstract level that `EventLoop` justifies |
| `ReactorProofs` | theorems about `Reactor` | extends it |
| `Presence` | abstract: an account is held by at most one connection | implemented by `Session` |
| `Session` | login, registration, routing, close, crash and restart: `CloudServer` with `DB` | |
| `SessionProofs` | theorems about `Session` | extends it |
| `Friendship` | abstract: friends are those who both agreed, until one wants no more | implemented by `Friends` |
| `Friends` | friend requests, answers, deletion, lists and chat: `CloudServer`'s handlers, `DB`'s table `friend`, the clients | the login and logout steps that `Session` models in detail |
| `FriendsProofs` | theorems about `Friends` | extends it |
| `ThreadPool` | the pool, as `TcpServer` starts, uses and stops it | |
| `ThreadPoolProofs` | theorems about `ThreadPool` | extends it |
| `Transfer` | `handleMessage` and the upload and download handlers against `recvMsg` and `Book` | |
| `TransferProofs` | theorems about `Transfer` | extends it |
| `FileTree` | one user's tree as a function from paths, and what `fileutil` does to it | used by `Navigation` |
| `Browser` | abstract: a window that is always at an existing directory, on a tree that changes | implemented by `Navigation` |
| `Navigation`, `MCNavigation` | the file window (`Book`, `recvMsg`) and the handlers it talks to | whole handlers, which `Sharing` justifies but for the names that others type |
| `NavigationProofs` | theorems about `Navigation` | extends it |
| `Sharing`, `MCSharing` | the file handlers and `copyDirRecursive` of several users at once, by system call | |
| `SharingProofs` | theorems about `Sharing` | extends it |

**EventLoop.** One program counter per thread. `HandleWakeRead`, `HandleWakeLock`, `RunTask`,
`HandleWakeUnlock` are the lines of `handlewakeIO`; `SetInQueueLock`, `SetInQueuePush`, `WakeIO` those of
`setinqueue`. `Resend` and `Accept` are its two callers, with and without `mmutex_`. Only the one callback
mutex matters; what handlers do besides posting is left out. `events` bounds how many
messages a client sends.

**Reactor.** `stage`, `fdOf` and the three tables are the shared pointers; `Reclaim` is the destructor in the
step that drops the last one. `main` is `newConnection` step by step. `Poll` is one `epoll_wait`, its results
are handled one channel at a time (`revents`, `pend`, `doing` for a callback with several locked sections).
`handleevent`'s else-if chain is `Branch`. A send by another thread is a task with a raw pointer. Time is
one bit per connection: `TenSecondsPass` says that `lasttime_` is ten seconds old, anything the loop receives
resets it. `events_` is not initialised by `Channel`'s constructor; the model lets it start with any subset
of the bits `handleevent` and `epoll_ctl` then act on (EPOLLOUT, EPOLLRDHUP). EPOLLET and EPOLLONESHOT
garbage is not modelled; it would break `RequestsHandled`. Besides requests (`unread`) a peer in `Steady` may send bytes that get no
reply, again and again (`PeerStreams`, as in a long upload): then `epoll_wait` may always report something to read. `OnMessage` reads until
`EAGAIN` in one step. What is modelled of a message is that it is one: Buffer with
`sep_ = 0` adds nothing.

**Session.** A handler is its first locked section, then (`cur`) the rest. `SetOnline` is an UPDATE that
may fail, which `lost` remembers for the properties to make an exception of that account only.
`NewConnection` and `HandleNewConnection` are the two ends of `newConnection`, between which the IO thread may
already run a login and even the close. The order of names in `usernames_` is abstracted: `Close` takes any
name of the descriptor. `Crash` loses memory; the database stays.

**Presence / Mailbox.** `Session!Holder` maps an account to the connection that holds it: from the accepted
login to the end of `handleoffline`. `IsPresence` is claimed for steps that lose no UPDATE. The mailbox of a
loop is its `taskqueue_` itself: locks, eventfd and program counters are what the refinement forgets.

**Friends.** A user has one connection, and `stage` is what `Session` leaves of it: the column is set before the
route and reset after it. A handler is its one call of `DB` and then, in `work`, one step per PDU sent; a `Sending`
to several users is `handleGroupChat`'s loop. `PDU`s carry two names, who acts and whom it is about; replies that the
client only shows have no more. Every user is on a loop of its own: users on one loop interleave less. Rows of
`friend` are a set although the table has no key, for each statement treats copies of a row alike. INSERT and
DELETE may fail, SELECT does not. `Friendship!asked` is what is on its way (`OnItsWay`), so that no yes
makes friends of users of whom one has not asked or the other has refused.

**ThreadPool.** One program counter per worker, and one owner thread: the constructor of `TcpServer` adding
its tasks, then `TcpServer::stop`, then `ThreadPool::stop`. `Test` and `Sleep` are separate: that is where
`wait` has evaluated its predicate and not yet slept. A worker that holds the mutex excludes `addtask`, not
`stop`.

**Transfer.** A PDU is two tokens (length header, rest), a byte of a file one, so that any cut in front of,
inside or behind either is a behaviour. The first token carries what the header and the size field say. One
descriptor, several connections one after the other. `recvMsg` is a loop with a dialog in it. When a side takes
something else for a header, its model ends (`garbled`, `confused`): what the bytes then mean depends on their
values. Handlers answer with one PDU, of which kind is all that matters.

A file is announced as `"name size"`, read by `sscanf` with `"%s %lld"` (`cloudserver.cpp:552`, `tcpclient.cpp:301`). After a name with a space
the size stays 0, or is a number that the name has in it. So the size in an announcement is what its reader makes of it, and how many bytes follow
is another choice (`Follow`), which also covers a file that has shrunk, cannot be opened or read, or is a directory
(`cloudserver.cpp:584-601`, `book.cpp:314-349`): none, fewer or more. The history `miscounted` has the directions in which that was not the number read. `fopen` of an upload may
fail (`HandleUpdateFileFails`), and so may that of the file to save to, after which download mode is on all the same
(`RecvPdu`, `download.open`). The client may end at any time (`HangUp`), also while an upload is to follow or under way; the next one on the descriptor then begins
with that upload. `fwrite` does not fall short.

**FileTree, Navigation.** A path is a sequence of names from the user's home; `path`, `entry`, `shown` and
`moveSrc` are the fields of `Book` and `TcpClient`, `dialog` is the message box that stops `recvMsg` until it is
closed. Both directions of the socket are queues of PDUs; every handler of `CloudServer` is one step with its
reply. `shownOf`, and `of` in answers, are histories that nothing reads: the directory that a listing is really
of. What users wait for is a parameter of the instance (`patience`): `"all"` for everything that is on its way, `"clicks"` for what
they asked for themselves but not for the refresh that follows a deletion, `"none"` for nothing. The code lets
everybody click at any time, except in a message box. Shares come from outside (`Note`, `Gifts`): the tree may gain an entry
whenever one has been accepted. Uploading and downloading are in `Transfer`.

What is typed for a new directory or a new name may be a path (`book.cpp:137` checks its length only, `book.cpp:217` nothing, the handlers nothing): so many `..`, then names
(`Typable`). `LeadsTo` is where that leads. If it is below the user's directory (`Stays`), `rename` and `mkdir` do there what they do; if not, they may succeed or fail, and what was
renamed is gone (`RenamesAway`). A move reads the file's name with `%s` (`cloudserver.cpp:497`): `FirstWord` is what that gives for each name, perhaps that of another file, perhaps
nothing. `Stray` is another user's name that leads here, between any two steps; it comes between two handlers, not between two system calls of one.

**Sharing.** Every user has one thread and one directory. `link` holds directory entries, `dirs` and `data`
the nodes they lead to, so that an open file keeps its node when its name goes. Owners' operations are one call of the
file system each, but for uploads (a block at a time) and recursive deletions (an entry at a time, in any order that
empties directories first, which allows more than the order of `readdir`). A typed name (`HandleCreateDir`, the second path of `HandleRenameFile`) may also be any path in another user's directory
(`Strays`) or lead out of all of them (`RenameAway`). The copy is
`handleShareNoteResponse` with `isDir`, `fileExists`, `createDir`, `opendir`, `readdir`, `stat`, two `open`s and a step per block;
`frames` is the stack of `copyDirRecursive`. The histories say what has changed since the copy began
(`touched`), what was offered and ever lay there (`offers`, `exposed`) and which contents did
(`given`), and what was in the files that others' renames have put into a user's directory (`brought`). `README.md:81` of the repository says that sharing copies the file into the friend's directory; in the code
nothing is copied before the friend accepts, and then by his thread. A user who shares with himself
truncates his file: `open` with `O_TRUNC` comes before the first `read`. The properties make an exception of a file
that is written to while it is copied, whoever does (`clean`).

## 3. The runs

Passing:

| Run | Instance | Shows |
|---|---|---|
| `eventloop` | 2 IO loops and main, 2 events each | `NoLostWakeup`, `NoCircularWait`, and that the queue is a fair mailbox (`IsFairMailbox`). Two loops are needed for two posting to each other; two events let a queue hold two tasks and a post overlap a drain. |
| `session` | 2 users, descriptors 4, 5, 6 on 2 loops, 1 login per connection | `OneSessionPerUser`, `OnlineIsJustified`, `RoutesToSession`, `SessionIsRouted`, `DisconnectHeals`, `IsPresence`. Two descriptors share a loop, one does not: same-loop and cross-loop races; two users show that one's failed UPDATE does not harm the other. |
| `reactor_safety` | 2 connections on 2 descriptors (the second may reuse the first's), 1 request and 1 foreign send each, symmetry in connections and descriptors | `RegistriesAgree`, `NoSilentDeath`, `ServedUntilClosed`, `NeverForgotten`. Symmetry is sound: only invariants are checked and nothing tells the values apart. |
| `reactor_liveness` | 1 connection, 2 requests, 2 sends and a stream without end (`Steady`), no symmetry | `RequestsHandled`, `RepliesWritten`, `ClosedIsReclaimed`. A safety run needs no stream: the theorems of section 4 have any `Steady`. |
| `friends` | 2 users, friends before or not, 3 clicks in all, logins, logouts and crashes at any time | `TypeOK`, `StrangersHearNothing`, `IsFriendship`, `NewsArrives`. Three clicks are what a deletion takes after an agreement (ask, list, delete), and let one user list and delete while the other writes to the group. |
| `threadpool` | 3 workers, 3 loops | `NeverTakesFromEmpty`, `OneThreadPerLoop`, `NoWakeupLost`, `EveryLoopRuns`, `StopReturns`, with spurious wake-ups and a stop at any moment after the start. |
| `transfer` | files of 0, 1 or 2 bytes, 2 connections in turn, 2 requests and 2 pushes each | `FramesStayAligned`, `UploadedFileIsWhole`, `SuccessMeansWhole`, `NobodyWaitsInVain`, `EveryRequestEnds`. Two bytes are the least that can arrive partly; two requests put a transfer before and after another, three sizes let every announcement be read as less and as more than what follows. |
| `navigation` | two trees of names `a`, `b` (a directory with a file in it and a file beside it; two directories, one with a file), of which `b` has a second word and is read as `a`; typed names `b`, `a/b` and `../b`; 4 clicks of users who wait, 3 of those who wait for their own requests, 3 of those who wait for nothing, 1 share or stray name of another | `EntryIsPending`, `PatientSeesPath`, `IsBrowser`, `NothingLost`, `ClicksAreAnswered`. Three clicks let two requests overtake a double click; a fourth enters, moves or deletes something after having come back. From the home, `../b` leads out; from a directory in it, one up. |
| `sharing` | 2 users, names `a`, `b`, directories two deep, files of 1 or 2 blocks and uploads of 1, 2 operations in all, of which names may lead anywhere, and 1 share | `OnlyOfferedArrives`, `CopyIsWhole`, `EntriesAreCopied`, `OnlyOwnerWrites`. Two operations are what it takes to replace a file while it is copied, or to move one away and put another in its place, or to send a file to the other's directory and change it there. |

`StopReturns` makes an exception: a worker that has seen `stop_` false and not yet slept misses the `notify_all` that
`ThreadPool::stop` sends without the mutex, and the join then waits for ever. The property says that stopping ends if no
worker is at that point when the wake-up comes. Likewise a reply is dropped while `conns_` does not know the
connection yet (the IO thread may be faster than `handleNewConnection`); `RepliesWritten` is about what was
queued. That contradicts `README.md:335` and `CloudServer/stress_test.py:6` of the repository, by which the server always replies (服务端必回包);
it is listed as a hazard (`TcpServer.cpp:102`), without a run of its own. And what was queued is not written while every `epoll_wait` reports the connection
readable, as `handleevent` then reads and does nothing else: the exception `Starves` of `RepliesWritten`, which says that every report to come has something to read in it. Without it TLC
shows the peer that streams for ever and gets no reply.
And a connection that `handleNewConnection` enters after its close was handled is never destroyed and keeps its
descriptor: `ClosedIsReclaimed` is about connections that were entered in time. Without that condition TLC
shows the leak, although the repository's `README.md:15` promises none.

`transfer` fixes two things the code does not: the user waits for an answer before the next request
(`Patient`), and the client's `recived_` starts at 0 (`HeapValues`); with heap values 0 and 1 TLC finds `SuccessMeansWhole` violated, as the client
then counts from 1. Its properties name the cases in which the code does not do what they say, and claim that there are no others:

* an upload whose file the server cannot open (`refused`): no answer, and what follows is parsed as PDUs;
* an upload that the server takes for empty (`LeftUnanswered`): it is never answered, and the connection stays in upload mode;
* a file of another size than was read in its announcement (`miscounted`): as an upload, it ends early and the rest is parsed as PDUs, or it does not end;
  as a download, the same on the client. An upload that is inherited from the connection before counts as one;
* a file to save to that could not be opened (`download.open`): the client drops the bytes, counts them and reports a success;
* a PDU that is pushed right behind a download and read together with its end: the count overshoots, and the client may be out of step then (`confused`,
  an exception of `EveryRequestEnds` alone).

`session` has one login per connection. With two `handleClose` takes the first of the connection's accounts offline and leaves the others: set
`LoginsPerConn` to 2 and TLC finds `OnlineIsJustified`, `RoutesToSession`, `IsPresence` and `DisconnectHeals` violated; `OneSessionPerUser`
and `SessionIsRouted` still hold (1 213 601 states), as they do for any number of logins by section 4.

The type invariants of `EventLoop`, `Session`, `ThreadPool` and `Reactor` are proved (section 4) and not checked again by these runs;
that of `Friends` is both.

Disagreements between the code and what the repository says of it (TLC finds the violation):

| Run | Property | The code |
|---|---|---|
| `reactor_no_crash` | `NoCrash` | a queued send uses a connection that the timer has freed |
| `transfer_stale_upload` | `StoredBytesAreTheUploaders` | `uploads_` outlives the connection |
| `navigation_refresh` | `ListIsOfPath` | the listing that the client asks for by itself after a deletion is taken for the answer to a double click |

Deadlock is checked in `eventloop`, `session`, `friends` and `reactor_*` (where a killed process stutters explicitly, `Dead`;
`EventLoop`'s loops wake up every ten seconds, `EpollTimeout`). In `threadpool` the server really stops, and in
`transfer`, `navigation` and `sharing` users who have used up their requests are done; there `CHECK_DEADLOCK FALSE`.

### Fairness

* `EventLoop`: every thread in `setinqueue`, `handlewakeIO` or a handler goes on, weakly: the events are bounded, so that
  a lock that others take in between is free for good in the end. Clients owe no events.
* `Session`: a handler that started goes on (weak); the close of a descriptor that stays readable is reported
  by level-triggered `epoll_wait` in every round, so strong fairness of `Close`.
* `Reactor`: the main thread's and the loop's steps weakly; the event of each connection strongly, because
  `epoll_wait` returns every ready channel and the loop handles all of them; the timer strongly, because `handletime`
  sets it again; `TenSecondsPass` only for closed connections, whose `lasttime_` nothing refreshes.
* `Friends`: handlers that can take a PDU or have one to send go on (weak). Users owe neither answers nor clicks.
* `ThreadPool`: workers and the starting owner go on strongly (spurious wake-ups take the mutex again and again, and a mutex
  that is tried is got in the end); spurious wake-ups owe nothing.
* `Transfer`: the client's timer fires, TCP delivers, both programs read. Users and pushes owe nothing.
* `Navigation`: the connection's thread goes on (weak). The user need not close his message boxes, and so the client
  need not read. `Sharing`: none, it has safety properties only.

## 4. The proofs

`EventLoopProofs`, for any finite or infinite set of loops and any number of events, from
`ThreadAssumption`. The inductive invariant `IInv` is the type invariant, two facts about program counters
(`EventTaken`, `MainOnlyPosts`) and `OwnersOK`: a mutex is held by exactly the thread whose program counter
is in its critical section. `TypeOK`, `NoCircularWait` and `NoLostWakeup` are not inductive alone: without
`OwnersOK` a thread might pop while another pushes. `DeadlockFreedom` follows by looking at what a thread in
a critical section may wait for: an owner of `mutex_` waits for nothing, and an owner of `mmutex_` only for an
owner of `mutex_`. `MailboxRefinement` proves the safety part of `IsFairMailbox` (`IsMailbox`); that tasks are
delivered eventually, which needs fairness, is left to TLC.

`SessionProofs`, for any users, any finite or infinite set of descriptors and any number of loops.
Whether a login is accepted depends on the column, so that nothing here is inductive unless one knows of every account which handler is
still about to change it. `Core`, for any number of logins per connection, is the types, that memory is empty while the process is down
(`DownIsEmpty`), what pending handlers have left to do (`AtHome`, `LoginPending`, `OfflinePending`: a handler runs on its own
loop, its account is still theirs), that a session and a route keep their account online (`SessionOnline`, `NameOnline`), and the two properties
it proves, `OneSessionPerUser` and `SessionIsRouted`. `OnlineIsJustified`, `RoutesToSession` and `PresenceRefinement` assume
`OneLogin` (`LoginsPerConn = 1`), which is what the client does (it hides its login window) and the server does not enforce; they do not hold
without it (section 3). `IInv` adds one name per connection (`OneName`) and that a connection which is read is in `conns_` (`Registered`). TLC
checked these parts on the instance of the run `session`, and `Core` with two logins, before they were proved. `PresenceRefinement` is all of `IsPresence`: as an account
has one connection at most, `Holder` is a function of the state (`HolderKnown`), and each step moves it as `Presence` allows.

`ThreadPoolProofs`, for any finite set of workers and any number of loops. `MutexOwned` says who holds the
mutex; it keeps the queue still between `Test` and `Take`, which gives `NeverTakesFromEmpty`. For
`OneThreadPerLoop` one needs where each loop may be: nowhere before the constructor has come to it
(`NothingAhead`), then once in the queue (`QueueDistinct`) or with one worker and not in the queue (`TakenOnce`).
`NoWakeupLost` is the safety half of `EveryLoopRuns`: while someone sleeps, the queue is no longer than the number of workers that are on their way to it.
It needs that whoever has decided to sleep has seen an empty queue and has held the mutex since (`SleepsOnNothing`), and a count of who comes and goes
(`ComingCounted`). That the workers on their way arrive is liveness and stays with TLC.

`ReactorProofs`, for any connections and descriptors (infinite sets too) and any number of requests and sends, from
`ReactorAssumption` alone. Three of the properties lean on each other. That a close, or the idle timer, erases "whatever has that
key" harms nobody else because of `RegistriesAgree`; that nobody dies in silence is because `CloudServer`'s table still holds whoever
was not closed (`ServedUntilClosed`); and the tables hold only the living because holding is what keeps alive (`Reclaim`). To
be inductive they need the types, that the living have a descriptor (`Described`), and what the two threads hold on to in the
middle of a creation (`Building`) and of a close (`Closing`). The fourth, `NeverForgotten`, is about what epoll was told: its invariant
(`Watched`) adds that a connection not yet accepted has nothing to write (`EmptyAtFirst`). All of this is about
the process until it dies of a freed connection (run `reactor_no_crash`), after which nothing happens.

`FriendsProofs`, for any users, any friendships at first and any number of clicks. `IInv` is the types
and `Addressed`: a request that is on its way to a user, or shown to him, is about him (`Fits`), a message to the group or to one user, on its way or still to be
sent, goes to one who has met its sender, a private message is written to one whom the writer has met (`Asks`), and whoever is in a list, in a
chat window or in the table has met its owner. `OnlyFriendsHear` is `StrangersHearNothing`; `FriendshipRefinement` is all of `IsFriendship`, an abstract step or a stutter for every step,
losses, crashes and failing statements included.

`TransferProofs`, for any sizes of files, any connections and any number of requests and pushes, whatever is read as a size and whatever cannot be opened. `ServerStaysAligned` and
`UploadsAreWhole` assume `Patient`; `DownloadsAreWhole` and `QuietMeansAnswered` also `CleanHeap` (`HeapValues` is 0 at most). They are the settings of the run `transfer`, and section 3 says what
happens without each. `DownloadsAreWhole` is weaker than the invariant that the run checks: it leaves out connections on which an upload was misread as well, after which the order of
requests and answers is lost. The invariant about uploads holds of a connection until an upload is `miscounted`, those about downloads and answers until anything is, and they say nothing
afterwards; the next connection begins with all of them again, which is a step of the proof (the close leaves `recvbuf_` empty; an upload that it leaves
counts as misread).
For uploads (`UpInv`) one has to know of everything between the two parsers what the server will take it for.
`Requested` tells where the one request of a user who waits can be: answered (`Served`), a PDU (`IsSent`), a PDU with the file
behind it or to come in a second (`Announced`), the rest of a file (`Uploading`), or a file that the server does not
expect as it could not open its own (`IsRefused`). `Answered` says that one answer at most is on its way. For downloads (`DownInv`) the bytes of
a file follow their announcement at once (`Followed`), what is saved and what is on its way are together the file
(`Filling`), and the count starts at 0 (`Counted`), so that pushes come before or after but never within.
`QuietMeansAnswered` (`NobodyWaitsInVain`, under both assumptions) is the safety half of `EveryRequestEnds`: the request of a user who waits cannot have
got stuck. When nothing is on its way and neither side reads, `Requested` leaves only that it was served, as every other place is empty: the server's buffer keeps
no PDU it could handle (`Parsed`), an upload that goes on lacks bytes (`Unfinished`). A served request has its answer on its way or a
download under way (`Pending`), PDUs are sent whole (`Whole`), and `recvMsg` returns with nothing left that it could take (`Looked`).

`NavigationProofs`, for any trees, names, typed names and what `%s` reads of names, shares, other users' stray names and numbers of requests. `EntryPending` needs only that the queues are
sequences, and `StillPending`: a step that leaves `entry` alone takes no PDU that `entry` waits for. `PathIsShown` is about users who wait;
the inductive invariant `IInv` adds for them that one request or answer at most is on its way
(`OneAtATime`; offers to share go in between) and what the window looks like while it is (`InStep`): `RequestFits` for
each kind of request, `AnswerFits` for each kind of answer, so that a listing is of the path that the client will have when it has
taken it. `NavigationAssumption` is used where a name that was double-clicked is told from the empty one.

`FilesAreKept` and `BrowserRefinement` are about the tree. `Typed` says that every request is about a path from the user's
home (`Sane`) and that the tree is one (`Rooted`: whatever is above something that exists is a directory). The lemmas
`CreateDirKeeps` to `CopyKeeps` say of each function of `FileTree` that it keeps the tree one and what else it leaves alone;
`RenameKeeps` and `CopyKeeps` rest on `MovedUnder` and `MovedStarts`, what becomes of a path whose beginning is given another name.
`Handlers` sums them up (`Works`): a directory disappears only if the request does not spare it (`Spares`), a file
only if it was to be deleted, was given a name that leads out, or its name was taken. With `Standing` (the user who waits is in a directory, no request
on its way takes it from him, and a listing on its way is of a directory) every step is one of `Browser`. TLC checked these parts on the run
`navigation` before they were proved.

`SharingProofs`, for any users, names and trees (infinite sets too), any depth of paths and numbers of requests and blocks, from
`SharingAssumption`: at first the users' directories are trees that share no node, and each has what its owner uploaded. `Lookup` follows a path by a
recursive function; its first lemmas say by induction along the path (`Reaches`, from the least number of a set) where
it leads, that a path does not leave a set of nodes that entries do not leave (`LookupIn`), and when two trees
lead it to the same node (`AlikeTo`, `SameWithin`, `Grows`). Nothing in the model says whose a node is. `Apart` claims that there is a function `own`
that does, which is never stored: an entry leads to a node of the same owner as its directory (`Tree`), a thread
has only its user's files open for writing (`Holds`), and in a file is what its owner uploaded or was `given` (`Contents`).
Each handler does one of four things to the files of its user (`Changes`: a node more, an entry less, an entry elsewhere, a file written), which
leaves everybody else's paths alone (`Spared`). A typed name that leads to another user's directory makes a directory there, which is such a change to the files of that user by a thread
that is not his (`Creates`), or sends one there (`Sends`): the nodes below the new entry then belong to him (`Transplant`), with contents that `brought` has, and a path of his
that led somewhere still does, to the same node or from a replaced one to the one that was sent (`PathKept`), so that his own thread, wherever it is, can go on (`Persists`, `Aside`).
That is `OwnersWriteAlone`; `ArrivesAsOffered` also needs `Exposed`, that whatever a path below an offer leads to is
remembered. The other two are about what a copy remembers between its calls, while others run. `Copying`: it writes where its receiver is, and as long as nobody has
written to the file it reads, it has exactly the first `off` blocks of it. `InFrames`: a frame's open directory is the one its path leads to, if nothing on
that path was `touched`, and each name `readdir` has returned there is in the receiver's directory, was touched, or is the one being copied
(`Underway`). `CopiesAreWhole` and `EntriesArrive` follow where a copy, or a directory's loop, ends. TLC checked `IInv` and its parts on the run
`sharing` before they were proved; those that concern other users' names came with the proof.

Model-checked only: liveness, as fairness is out of the prover's reach (`IsFairMailbox` beyond its safety part,
`DisconnectHeals`, `RequestsHandled`, `RepliesWritten`, `ClosedIsReclaimed`, `NewsArrives`, `EveryLoopRuns`, `StopReturns`,
`EveryRequestEnds`, `ClicksAreAnswered`). Every invariant of a passing run is a theorem (`SuccessMeansWhole` in the weaker form above), and so are the three refinements that claim no fairness.

## 5. Not modelled

Formatting, logging, buffers' capacity, SQL text, widgets; a stop that
interrupts a thread as a signal handler (`ThreadPool` has it on a thread of its own); the main thread that spins while descriptors are
out, for a waiting connection is then accepted as soon as one is free, as in `Reactor!Accept`; the echo example (with Buffer's `sep_ = 1`
framing); data races inside `std::map` (`recvbuf_`, `uploads_`, `EventLoop::conns_` iterated without a lock):
their outcome is not a state of the program. Stale or torn files on `fwrite` failure.

Names are values. The client copies as many bytes of a name or a path as it has UTF-16 units (`QString::size()` of `book.cpp:149`, `171`, `248`, `online.cpp:63`, `friendlw.cpp:163-164`,
`privatechat.cpp:55-56`), so that names with other than ASCII characters arrive cut; names of 32 bytes and more are cut by both sides. Neither is modelled, nor are typed names with
`.`, with doubled slashes or with `..` between names, one that ends in another user's directory itself (a rename onto an empty one), and one that comes back to the user's own directory by
way of another's; nor user names with a space in `handleShareFile`. `CloudServer/test_cloud4.py:94` sends a move without the separator byte that `handleMoveFile` skips; the model has the client's layout.
What a user has put elsewhere he cannot reach any more: the client starts from his home. See PROJECT.json for
components and hazards with the reason for each.

## 6. The plan

1. Done: `EventLoop`, `Session`, `Friends`, `Reactor`, `ThreadPool`, `Transfer`, `FileTree`, `Navigation`, `Sharing`,
   the four abstract specifications, the theorems of section 4.
2. Left: liveness, which stays with TLC; of it `NobodyWaitsInVain`, `NoWakeupLost` and `NeverForgotten` state and prove what safety can. Theorems about
   `Transfer` with weaker assumptions (users who do not wait) would say more, where they hold at all.
