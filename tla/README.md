# FilesSharing: a verification project

FilesSharing keeps a directory on many machines equal to a directory on a
server. This project models the synchronisation protocol, the server's request
handlers and the client's loop, the connection between them down to the pieces
of a byte stream, the life of the server's threads, the client's wake-up and
the texts in which paths are sent and kept, in TLA+; model-checks them with TLC
on small instances; and proves with TLAPS, for all values of the constants, the
safety properties of the server, of the whole system, of the connection, of the
life cycle, of the wake-up and of the lists, that the server with one connection
implements an atomic store, and that the connection, until a send of the server
fails half-way, implements what the other modules take it for. Paths below are relative
to the repository.

Commands (in this directory):

    tlc -workers 2 -config server_one.cfg MCServer.tla     # any server_*.cfg
    tlc -workers 2 -config sync_one.cfg MCSync.tla         # any sync_*.cfg
    tlc -workers 2 -config link.cfg MCLink.tla             # life.cfg ServerLife.tla, ...
    tlapm ServerProofs.tla    # SoleClientProofs, LifeProofs, WakeProofs, SyncProofs,
                              # EditProofs, LinkProofs, ListProofs

## 1. The system

| Part | Code | State | Operations |
|---|---|---|---|
| ClientLogic | `client/client_logic.*` | message id, last scan, list of deleted files | `checkTimeDiff`, `loop`, `onIncomingFileList` |
| Client program | `client/client.cpp` | `isReady`, mutex, condition variable | directory watcher and 5 s timer wake the loop |
| FileScanner, FileDiff | `common/file_scanner.*`, `file_diff.*` | a directory; a list of (path, time) | scan, compare, read, save, remove, set time |
| DeletedFileList, DeletedListManager | `common/deleted_file_list.*` | `mLast`; `mContent`; file `.deleted_files_list` | mark, unmark, re-read |
| Server actions | `server/Actions/*` | none of their own: `./syncRoot`, the list of deleted files | six request types, one action each |
| Server life cycle | `server/ServerManager`, `RuntimeContext`, `ClientsManager`, `ClientHandler` | states, set of handlers | accept, close, clean up, one thread per connection |
| CommunicationManager | `common/communication_manager.*` | `mIncoming` | send, receive by id with a 3 s timeout, receive next |
| ClientSocketManager | `common/client_socket_manager.*` | byte buffers, two threads, two mutexes | push, pop, framing |
| Sockets | `common/client_socket.*`, `server/ServerSocket.*` | descriptor | send, receive, close |
| Messages | `common/api.*`, `client_api.*`, `server_api.*`, `utils.h` | — | to and from bytes |

A client sends one request at a time and blocks for its answer. On the server
every connection has a thread that takes the requests in order and runs the
action for each to its end. The threads share the directory `syncRoot` and the
singleton `DeletedListManager`, and **nothing locks either**. A client pass is:
fetch the server's file list; scan the own directory; mark what disappeared
since the last scan, unmark what reappeared; send the deletions and the
reappeared files; fetch the server's deleted list and remove what it names;
fetch what the server has newer; send what the client has newer. Newer means a
later modification time in whole seconds. The user edits the directory all the
while.

### What makes it hard, and what correctness means

| Part | Hard behaviour | Correct when |
|---|---|---|
| Server actions | threads interleave between a test and the use of a file or of the list | an acknowledgement is true; a mark precedes a removal; assertions fail only where two handlers collide |
| Deleted list | a mark in memory before its line; removed and rewritten; never unmarked; data race | file and memory agree; a new process knows the marks of the old one |
| Client pass | stale scans and lists, user edits between any two steps, ignored timeouts, failed downloads | directories converge; no edit the pass knows of is lost; only what a user deleted is deleted |
| Restart and crash | the last scan is not persisted; half-written downloads | files nobody deleted survive |
| Connection | timeouts, late answers, resets | awaited requests are answered while the handler lives; one client cannot end the server |
| Buffers | two threads and a user per end share vectors; a send may stop half-way | messages arrive whole, once, in order |
| Life cycle | close overtakes start, a descriptor is reused, joins, a client that leaves unseen | nothing is served after close; close returns; a live handler keeps its place; descriptors come back |
| Wake-up | a change between a pass and the wait; changes nobody reports | no wake-up is lost; every change is scanned |
| Lists of paths | any character in a name; the form of the root's path | what is read is what was written |

PROJECT.json lists each hazard at its line, with the properties that cover it.

## 2. The modules

| Module | Models | Correspondence |
|---|---|---|
| `FileTree` | `FileScanner`, `FileDiff` | a directory is a function from paths to `[ts, data]`; a scan keeps the times; the comparison operators have the code's names |
| `ClientApi` | `client_api.h` | the requests as records |
| `Connection` | `CommunicationManager` of both sides | `inbox[c]` the requests not answered yet, `waiting[c]`/`reply[c]` the client blocked in `receiveBlocking` |
| `WallClock` | `time()` | `now`, in whole seconds |
| `SyncServer` | all server actions and their dispatch | `handler[c].pc` is the next statement of c's thread that touches shared state; the accesses to `syncRoot`, `mContent` and the list file are actions (which of them share one: see Abstractions) |
| `ServerAlone` | the server under arbitrary clients, killed and started again | `Submit` sends any request of the protocol; `Expire` ends the handler of a silent client; `Start` ends the process and starts one that rereads the list file; properties of the server |
| `FileStore` | *abstract*: what the server promises a client | a directory and a set of marks; each request is one step |
| `SyncClient` | `ClientLogic` and the client's deleted list | `pass[c]` holds the position and the local variables of the pass; one action per access to the directory and per message |
| `FileSync` | clients, users and server together | composes `SyncServer` and `SyncClient`; users, timeouts, crashes, restarts; properties of the whole |
| `Link` | `ClientSocketManager`, `CommunicationManager`, `sendAll`/`receive` | per end: `out`, `buffer`, `mIncoming`, the sending thread (`sender`), the receiving thread (`chunk`); `wire` is the socket; `SendFails` is the server's send at a full socket |
| `ServerLife` | `server.cpp`, `ServerManager`, `RuntimeContext`, `ClientsManager`, `ClientHandler` | `main`, `acceptor`, `thread[k]` are where the threads are; `clients`, `threadState`, `emptyLeft`, `id` as in the code |
| `ClientWake` | `client.cpp` and the wait in `ClientLogic::loop` | `isReady`, `timer`, `loop`; `dirty` are the changes no scan has seen |
| `PathLists` | `asFileList`, `operator>>`, `.deleted_files_list`, `ServerDeletedList`, `relativeTo`, `joinPaths` | texts are sequences of characters; `Write` and the actions that read are one round each of the loops over the entries |
| `MCServer`, `MCSync`, `MCLink`, `MCLists` | — | values for TLC |
| `ServerProofs`, `SoleClientProofs` | — | proofs about `ServerAlone` |
| `SyncProofs`, `EditProofs` | — | proofs about `FileSync` |
| `LinkProofs`, `LifeProofs`, `WakeProofs`, `ListProofs` | — | proofs about `Link`, `ServerLife`, `ClientWake`, `PathLists` |

`FileSync` uses the same `SyncServer` actions as `ServerAlone`; only the
environment differs. Both use `Connection`, and `Link` is proved to implement it
(`ImplementsConnection`) *as long as no send of the server has failed half-way*:
the server's sockets do not block, and a message that did not go out whole is
sent again from its start (`client_socket.cpp:83`). Until then, what the two
modules prove and check holds over the byte streams as well; after that nothing
is claimed of the answers, and the run `link_retry` shows the client's assertion
fail. The requests, which go the other way over a socket that blocks, stay whole
and in order whatever happens. `ServerAlone` with one connection implements
`FileStore`, which is proved, too. `ClientWake` justifies the action `Wake` of
`SyncClient` and its fairness; `ServerLife` and `SyncServer` meet in
`ClientHandler::handleLoop`, which the one sees as threads and the other as
requests.

Operators whose comment begins with "Mutation" are variants of the definition
that follows them, each with a plausible bug; no specification uses them. They
document what every checked property detects.

### Abstractions

* A content is a number. `Torn` (0) stands for everything nobody wrote: a
  truncated file, a prefix, a mixture of two writes.
* Messages are records, except in `Link`, where they are pieces, and in
  `PathLists`, where lists are characters. In `Connection` answers of requests
  the client gave up on are dropped, as nobody asks for their id again.
* A failed assertion, an uncaught exception, an access to freed memory or
  `exit` sets `status`, and no handler runs any more. The build type is the
  default one, so `assert` is compiled in.
* Accesses of a handler that share one step, as nothing in between can be told
  from one after the other: the listing of the directory's names
  (`file_scanner.cpp:72`; the time of each file is a step of its own,
  `StatFile`); the test of a file and the use of its result in the same
  condition; `FileFromServer`'s two assertions in a row, whose failure has the
  same effect; the reading of a file's bytes; `find` and `erase` of `mContent`
  with the assertion that follows (`CheckList`); opening the new list file,
  going through `mContent` and flushing it (`RewriteList`; that the end of the
  process cuts it anywhere is `Left`); and the answer with the last access before
  it. `markAsDeleted` is four steps: opening the stream (`OpenList`, line 51 of
  `deleted_file_list.cpp`), the question whether the path is marked
  (`CheckMark`, 55), `push_back` (`Mark`, 57) and the arrival of the buffered line
  in the file when the stream closes (`SaveMark`, 60).
* An unlinked file that a handler still writes to is `linked = FALSE`: its
  bytes go nowhere. The same holds for the stream of the list file. Where a
  handler has no file open `linked` means nothing.
* A data race on `mContent` is a choice between one operation after the other,
  two `push_back` that write to one place, so that one of the marks is lost
  (`Overwritten`), and the end of what is claimed (`Race`), which stands for the
  use of freed memory and for elements read half-written. In `Link` a race on a
  buffer, as by the insertion and the erasure without the lock
  (`client_socket_manager.cpp:76`, `:87`), is the end of what is claimed, too,
  whatever it does to the vector. Reading a vector's size while it changes is
  harmless in practice and not told apart.
* The end of the server's process (a kill, or an assertion) may fall between any
  two steps. As nobody sees what is between the end and the new start, the two
  are one action, `Start`. What it leaves: the files as they are, an upload's file
  torn if it was not written yet (`cutOff` remembers its path), without the
  mark that had not reached the list file, and of a list file that was being
  rewritten some of the lines and perhaps the beginning of one more. The new
  process reads such a `tail` as a path (`Cut[p]` are the paths that `p` begins
  with), and the next mark is appended to it; `cutList` remembers that. The new
  process rereads the file at once, not at its first use; nobody else touches it
  in between.
* A handler whose client has sent nothing for 2000 polls ends (`Leave`,
  `ClientHandler.cpp:44`); how many polls that is is not counted in `ServerAlone`,
  where it may happen whenever the queue is empty. `FileSync` leaves it out:
  its clients ask every few seconds (`AsksAgain`), or have left for good.
* `Link`: a message is two pieces of header and some of payload; a piece is what
  the socket never splits. The type of a message is known from its id. At a full
  socket the client's sender waits, the server's gives up (`SendFails`).
* `ServerLife`: `getnameinfo` succeeds; a connection that is over may be made
  again, so that the number of connections is not bounded; the descriptor is
  closed some time after the handler's thread has returned, when the two
  threads of the socket have let go of it.
* `ClientWake`: the watcher reports changes in the root directory itself from
  the moment it is set up; the timer is the only remedy for all others.
* Client: the user's writes are atomic; a download is written in one step as
  far as the user can see, but a kill may leave it torn; the loops over paths
  use an arbitrary fixed order. The client's own list has no other thread that
  could see it: a pass changes it, in memory and in its file, in one step, and a
  kill may leave any part of what was being written (`LeftMarks`), though whole
  lines only. A scan reads the names at once and the time of each file in a step
  of its own (`ScanNames`, `ScanTime`).
* All clocks agree, and times do not run backwards. Nobody else writes to
  `syncRoot` (`README.md:11`).
* A client restarts only after the server has worked off its old requests.

## 3. What is checked

### Server alone (`MCServer`)

| Run | Instance | Shows |
|---|---|---|
| `server_one` | 1 client, 2 paths of which one begins with the other, 1 content, seconds 0-1, 2 pending requests, any number of ends and restarts; 560,544 states | `TypeOK`, `NoAbort`, `AcknowledgedHolds`, `WholeAtRest`, `ListPersisted`, `MarksSurvive`, `ImplementsStore`, `Answered`; deadlock is checked |
| `server_two` | 2 clients, 2 paths, 1 second, 1 pending request each, clients interchangeable (`SYMMETRY`; no liveness is checked); 657,828 states | `OnlyCollisionsAbort`, `MarkedBeforeGone` in every interleaving |

`ImplementsStore` says that all steps of an action look to the client like one
step of `FileStore`: an upload happens at the truncation of its file, and a
deletion when its mark has reached the list file, since from then on the end of
the process does not undo it; what is missing after that is seen by nobody while
there is only one connection. `FileStore!Recover` says what the end of the
process may do: anything to the path of a change not yet confirmed; and marks
may be lost or spoiled only while a file is being stored, or later on if the end
then left a line of the list file without its end (`frail`), until a file is
stored again. One content is enough, as torn content is a second one and nothing
compares contents. Two times tell the client's time from the server's. Two
pending requests need a client that gave up on the first one, so `server_one`
includes late answers. A path that begins with the other one is what makes a cut
line read back as a path that exists.

What is excepted is what the code does not give. `ListPersisted`: a mark on its
way to the file, the time of the rewriting, and a cut line. `MarksSurvive`: an end
of the process in just these. `Answered`: a handler that has ended, as its client
was silent for 200 seconds; the connection stays open then until the next
clean-up, and later requests are never read.

With two clients the assertions of the server do fail. `OnlyCollisionsAbort` says
where: one handler removes a file that another one has tested or listed and has
still to use (`overtaken` remembers it), or two uploads meet between the removal
of the list file and its rewriting. So a deletion between the two tests of a
fetch (`server_api.cpp:42`), during a listing (`file_scanner.cpp:76`, where
`last_write_time` throws), between the bytes and the time of an upload
(`file_scanner.cpp:137`), two deletions of a path (`file_scanner.cpp:127`;
`server_remove.cfg` shows it), and two uploads (`file_scanner.cpp:127`, called from
`deleted_file_list.cpp:70`) are all the ways there are. `NoAbort` is the special
case of one client, to whom nobody else happens. Two paths let the handlers of
`server_two` collide as well as pass each other.

### The whole system (`MCSync`)

| Run | Instance | Shows |
|---|---|---|
| `sync_one` | 1 client, 2 paths (1 shared at the start), 2 edits, 2 deletions, seconds 2-4, 1 timeout, 1 kill, 1 restart; 995,684 states | `Converges`, `SameTimeSameContent`, `UndeletedSurvives`, `NoticedStaysDeleted`, `SyncTypeOK` |
| `sync_two` | 2 interchangeable clients, 1 path, 2 edits, 1 deletion, seconds 2-3; 1,437,972 states | `NoPhantomDelete`, `RemovedOnlyIfDeleted`, `SeenEditsKept` |

`SameTimeSameContent` and `Converges` need the limits `Recreate = FALSE` (no
path is written again after its deletion) and `CoarseClock = FALSE` (at most
one user write in a second): the code decides by whole seconds, and unmarks
nothing. `sync_recreate` and `sync_phantom` lift them. `SameTimeSameContent`
also needs `Remote = {}`: a client killed between saving a download and setting
its time keeps it with the present second, in which its user may then write
(`client_logic.cpp:177-178` are two steps). Both except a torn file, as a client
killed while it writes a download may leave one in the very second the server's
file has, and no later comparison finds it. `sync_two` does without
`Converges`, which fails there (`sync_torn`).

`NoticedStaysDeleted` is about deletions the client can know of and gets to. A
deletion counts as noticed when the client's last scan held the file; a file
deleted before the first scan of a process comes back, as `mLast` is empty then
(`deleted_file_list.h:20`), and so does one whose deletion a restart made it
forget before the server had its mark. Of the deletions of a pass the one whose
request was not answered in time counts, as the request has been sent; those
after it do not, since `client_logic.cpp:106` ignores the result and the next
scan misses nothing. With two deletions and a timeout `sync_one` has all of
these cases.

`SeenEditsKept` is the part of "no edit is lost" that the code gives: once a scan
has read a file's time, the program takes the file away or replaces it only for a
newer one of the server's list or because its path was deleted. `fresh[c]` are the
files the user wrote since the scan read their times; these the downloads may
destroy, even in favour of an older file (`NoEditLost`, which does not except
them, fails in `sync_lost_edit.cfg`). In `sync_two` the second client's edits make the first one
download over its user's file.

| Instance | What the code does |
|---|---|
| `sync_recreate` (a run) | a deleted file that is written again is removed by the client's own program |
| `sync_server_exit` (a run) | a client that gives up and leaves ends the server with `exit(2)` |
| `sync_lost_edit.cfg` | an edit made after the scan is replaced by the server's older file (`client_logic.cpp:188`) |
| `sync_torn.cfg` | a second client keeps the half-uploaded file it fetched (`ReceiveFileFromClient.cpp:18`) |
| `sync_phantom.cfg` | a failed download is taken for a deletion by the user and sent to the server (`client_logic.cpp:189`) |

The instances that are runs are findings in PROJECT.json with the line of the
repository they contradict; the other configurations, like `server_remove.cfg`
and `lists_slash.cfg`, are kept beside them to be run by hand. TLC reports the
violation described.

### The connection (`MCLink`)

| Run | Instance | Shows |
|---|---|---|
| `link` | 3 requests of 2 pieces, answers of 3; the sockets take 1 piece of the client and 2 of the server at a time; 1 message begun anew; 196,709 states | `LinkTypeOK`, `FramedTypeKnown`, `WholeMessages`, `InOrder`, `Arrives`, `ImplementsConnection` |
| `link_retry` | the same | violated: `KnownType`, by an answer that is sent again from its start |

Neither socket takes a whole message, so that every message goes out in pieces,
and every send of the server may fail half-way. `Framed("client")` says that none
has yet: what concerns the answers is claimed until then, what concerns the
requests always. `FramedTypeKnown` is `KnownType` under that condition.
`ImplementsConnection` says that every step that leaves the answers framed is a
step of `Connection`, or invisible.

Three requests allow two late answers in front of the one that is awaited.
Different sizes in the two directions tell a header from a message. The mapping
to `Connection`: `inbox` is what has been sent and not answered (the request the
handler works on, `mIncoming`, and the headers on their way), `reply` is the
answer to the newest request as soon as its header has left the server's user.
The two ends may stop at any moment when their user is not inside a call.
`WholeMessages` says that what a receiver's buffer begins with is one message,
once it is long enough, whatever pieces it came in. `InOrder` says that the
requests which are anywhere on their way are exactly those after the last
answered one (`LastAnswered`, computed from the lengths of the queues and the
first piece of the stream), in order, and that the answer awaited is on its way
or there as soon as the handler has given it.

### The server's life (`ServerLife`)

| Run | Instance | Shows |
|---|---|---|
| `life` | 2 connections that come and go, 2 descriptors, clean-up at every 2nd connection, 2 empty polls | `LifeTypeOK`, `NoneAfterClose`, `LiveNotDisplaced`, `CloseReturns`, `GoneIsReleased` |
| `life_refused` | the same | violated: `AcceptedIsServed`, the handler of a reused descriptor is refused |

Two descriptors and two connections suffice for a descriptor to be reused while
its old handler is still in the set, in both orders of the clean-up and the
accept. A clean-up at every 2nd connection (200 in the code) makes clean-ups
with and without an ended handler happen.

`close` does not wait for an accepting thread that has not begun yet, as
`messageLoopState` is still `PENDING`. `NoneAfterClose` shows that no harm
follows: that thread finds the server closed before it accepts anything.

### The wake-up (`ClientWake`) and the lists (`MCLists`)

| Run | Instance | Shows |
|---|---|---|
| `wake` | everything; the module has no constants | `NoLostWake`, `ChangeSeen`, `AsksAgain` |
| `lists` | lists and paths of up to 2 entries (`MaxLength`); names of 1-2 characters out of a letter, a digit, `;`, space and line feed, and `a<LF>5; b`, which looks like two entries; paths of 1-2 components under `.././r` | `FilesArrive`, `ListIsReread`, `DeletedListArrives`, `PathLeadsBack` |

Names with a line feed break the file list and the list file, since both end an
entry with one; the properties say what still holds then. The message with the
deleted paths ends them with NUL and has no such names. Two entries are enough
for one to be misread as two, and for the second one to suffer from the first;
the theorems of `ListProofs` are for any number. `lists_slash.cfg` gives
the root a slash at its end, as the shell's completion does (`client ip port
dir/`): every relative path then begins with `..`, does not lead back, and
`sendAddRequests` finds no file to send.

### Fairness

`WF(Handle(c))` in `ServerAlone`, and weak fairness of each client's and
each handler's steps in `FileSync`: every handler is a thread of its own, the
client is a process, none of them waits for a lock, and the client's wake-up
comes from a timer that the waker itself re-arms (`client.cpp:37-38`; checked in
`ClientWake`). Nothing is assumed of users, of the clock, of timeouts, kills,
crashes and restarts, nor of the handler that leaves a silent client. `Up` in the
convergence properties excludes a process that has ended: it is not restarted by
anything.

`Link`: weak fairness of each of the four threads and of the two users' steps
that take messages; sending, giving up and stopping are not obliged to happen.
`ServerLife`: weak fairness of main, of the accepting thread and of each
handler's thread; the operator need not quit, and clients do as they please.
`CloseReturns` excepts endless connections, which keep the inner loop of
`connectingLoop` from looking at the state. `ClientWake`: weak fairness of both
threads and of a notified wait's return; no spurious wake-up is relied on.

### Deadlock

Checked in `server_one`, where something can always happen. The other runs say
`CHECK_DEADLOCK FALSE`: the server process may end by an assertion, a client by
a timeout, the ends of a connection stop, the server's main returns, and with
the bounds used up nothing is left to do then.

## 4. What is proved

`ServerProofs`, for any `Client`, `Path`, `Content`, `MaxTime`, `MaxPending`:

* `TypeCorrect`: `Spec => []TypeOK`. `TypeOK` alone is not inductive: an
  action that answers takes the head of a queue and reads fields of it, so one
  has to know that the queue is not empty and that its head has the type the
  thread's step belongs to. `IInv` adds that as `Serving`. The proof has one
  step per action, over four lemmas for what the actions are built from
  (`InnerStep`, `LastStep`, `AssertStep`, `AbortKeeps`).
* `AbortsOnCollision`: `Spec => []OnlyCollisionsAbort`. The invariant `Founded`
  says of every thread that what it has tested or listed is still there, or
  another thread has removed it since and it is `overtaken`; and that the list
  file is there, or some thread is about to write it. `HandleKeepsFounded` is the
  interference of one thread with another, `AbortsAreFounded` that an assertion
  or exception has one of the two reasons.
* `MarkedFirst`: `Spec => MarkedBeforeGone`. The invariant `MarkedOnTheWay` says
  that a thread past the marking has its path in the list, or that the mark was
  overwritten by another one; it is kept since what `markAsExistent` erases is a
  joined path and the list holds relative ones only (`MarkErasesNothing`), and
  since a thread's request does not change under it (`RequestStays`).

`SoleClientProofs`, for at most one connection and any paths, contents, bounds:
`SoleAcknowledgedHolds`, `SoleWholeAtRest`, `SoleListPersisted`,
`SoleMarksSurvive`. The invariant `SInv` says for every step of an action what it
has achieved so far (`Undisturbed`), together with the properties; the assumption
is used where an action of another thread would interfere. `SoleMarksSurvive`
follows as the list file has all of `mContent` but the mark that is on its way to
it, except while it is rewritten or has a cut line, and a new process reads that
file.

In the same module and under the same assumption: `SoleImplementsStore`, that
`ServerAlone` implements `FileStore`. The initial states map to initial states
(`InitImplements`); every action of a client and of the clock maps to its
namesake, and the end of a silent client's handler is not seen
(`OutsideImplements`, `ExpireImplements`); `Start` maps to `Recover`, where the
invariants say what the end of the process can have left (`StartImplements`);
and each step of a handler is a step of the store or leaves its view alone
(`ThreadImplements`). A handler that is in the middle of an upload or a deletion
is the only one, so that the view of all other paths is the directory itself
(`RestingShowsTheSame`).

`LifeProofs`, for any connections, descriptors and limits: `LifeTypeCorrect`,
`CloseIsFinal`, `LiveKeepsItsPlace`. The inductive invariant `LInv` adds to the
types: what the two state flags say about where main and the accepting thread
are (in particular that a thread which accepts has set `messageLoopState` and
main has not passed its wait: `Flags`), that every live handler is held by
`clients` or by the accepting thread (`Held`), that a connection not accepted
yet is nowhere (`Unborn`), and that a live handler has its descriptor open and
never shares it with the handler being added (`Apart`). `CloseIsFinal` needs the
first three, `LiveKeepsItsPlace` the last.

`WakeProofs`: `NoWakeIsLost`. The invariant says that a reported change no scan
has seen is either still to be delivered, or has set `isReady`, or the loop has
its scan still before it, and that the loop only waits while `isReady` is down.

`SyncProofs`, for any clients, users, faults and bounds: what the clients believe
about deletions is true. The inductive invariant `SyncInv` has the kinds of all
variables (`Kinds`; with it that the server's marks and every file at the start
are accounted for), and for each client

* `Talk`: its handler works on the oldest request, it waits exactly where the
  code blocks, and the answer it can take is of the type its newest request
  calls for, is right about what was deleted, and a failed fetch is one of a
  deleted file. Without it nothing is known of the lists a pass reads.
* `Knows`: what the pass works through is known to the server or was deleted,
  and what the last scan held is in the directory, was deleted, or is the file
  being fetched. The last part is what the comparison of two scans rests on.

From it follow `SyncTypeCorrect`; `UndeletedKept`, that no file is lost at the
server that no user deleted; `NothingDeletedUnasked`, that all marks, at the
server and on the way to it, are of paths some user deleted;
`SoleClientHonest` (one client), that a client asks only for deletions by its own
user, for which `sync_phantom.cfg` shows that a second client cannot be allowed
in general (see below); and `RemovalsAreMeant` (`Recreate = FALSE`; `sync_recreate` shows
why), that the program removes a file only if its deletion was the last thing a
user did to it.

`EditProofs`, over the same invariant:

* `SeenEditsAreKept`: `Spec => SeenEditsKept`, for any clients and users, files at
  the server, faults and bounds, without paths written again after a deletion.
  The invariant `SeenInv` says of a pass that the time it has scanned of a file is
  the time the file has, or that the file is fresh (`Seen`): of what it has
  scanned so far while it scans, of all files until it downloads (`Comparing`),
  and of those still to be downloaded from then on (`Downloading`, `Open`). So a
  download replaces what has the scanned time, which is older than that of the
  server's list, or what is fresh; and what goes on the deleted list's word was
  deleted by `RemovalsAreMeant`'s invariant.
* `SoleSameTimeSameContent`: `Spec => []SameTimeSameContent`, for one client and
  `Remote = {}`, also without two writes in one second. A first invariant, `LeadInv`,
  says that nothing at the server or on the way is newer than the user's own file,
  for every path that was never deleted: not a stored file (`ServerFollows`,
  except while an upload writes it and it has the present second), not an upload
  in the queue or a list that arrives (`MessagesFollow`), not what the pass has
  read (`PassFollows`). The second one, `CopyInv`, says that a stored file and an
  upload in the queue that have the time of the user's file have its content
  (`ServerCopies`, `UploadsCopy`); that an upload in progress ends with the bytes
  of its request (`Writes`); and that the client saves what the server has, while
  the server has nothing to do (`PassCopies`). A user's write keeps it because by
  `LeadInv` all other times are older. TLC finds a counterexample for each of the
  limits and for a second client.

`LinkProofs`, for any sizes of messages, room in the sockets, number of requests
and of repeated sends: `LinkTypeCorrect`, `FramedTypesAreKnown`,
`MessagesArriveWhole`. The invariant `LinkInv` looks at the stream of pieces
between two ends (buffer, chunk and wire as one sequence). `InMessages` says of any
two pieces of it how their distance relates their messages and their places
(`Apart`); it is stated of pairs because then appending the next piece and
dropping a whole message keep it without induction. `Numbered` ties the end of the
stream and the waiting messages to the newest number, and `TakenInOrder` and
`AnswersInOrder` the messages taken. All that concerns the server's messages has
the condition `Clean("server")`: none has been begun anew (`Sound`, `InTurn`). The
step `SendFails` ends that condition or, if nothing had been sent of the message,
changes nothing (`SendFailsStep`); the condition never comes back
(`CleanBefore`), and what the client then does with a broken stream cannot touch
the requests (`RefreshAnyhow`).

`NothingIsLost` is `Spec => []InOrder`: what the queues, the pieces on the way,
the buffers and `mIncoming` hold spells out the requests after the last answered
one. What the model filters out of a stream is a recursive function
(`HeadersIn`), about which nothing could be proved by an induction theorem of the
library. The proof takes the least number for which a claim fails instead
(`LeastNumber`, from the well-foundedness of `<`): `HeadersOf` says what
`HeadersIn` is of any stream whose headers are at known places with consecutive
numbers, which by `InMessages` those of `Link` are (`MessagesAre`, `RequestsAre`). The
second part of `InOrder`, that the answer awaited is there or on its way as soon
as the handler has given it, needs one more invariant (`Awaited`): while the
client waits, the answer to its newest request has not been taken. Like the other
invariants it was first found to hold by TLC, on the instance of the run `link`.

`AnsweredInTurn` is the refinement with the queue given by numbers: the requests
after `LastAnswered` are what is asked, and every step of `Link` that leaves the
answers framed is a step of `Connection` on them or leaves them alone. By
`NothingIsLost` the numbers are what the queues hold, which gives
`LinkIsAConnection`: `Spec => ImplementsConnection`.

`ListProofs`, for any names, times, roots and numbers of entries:
`FilesAlwaysArrive`, `ListIsAlwaysReread`, `DeletedListAlwaysArrives`, and for a
root without a `/` at its end `PathAlwaysLeadsBack` (`lists_slash.cfg` shows why).
The properties speak of the moment when the reading has ended; the invariant
`ListInv` of every round before it. There are texts `tails`, one for each entry
written, such that each is the characters of an entry followed by the next one
(`Tails`); writing another entry lengthens all of them (`Grows`). While the
entries read so far and the next one can be told apart (`Clean`), they were read
as they were written, and what is left is the tail after them (`Arrived`,
`Place`). So the recursion is in the state, a round at a time, and the induction is
that of the invariant. A round takes an entry off the text by `FileIs`, `LineIs` or
`PathIs`: what `operator>>`, `getline` and the loop over the bytes find in an
entry followed by anything. For the list file `Lines` adds that a line is never
read across the end of an entry (`Crossing`), which is why a path with a line feed
does not spoil the others.

The assumptions are `MaxTimeAssumption`, `ContentAssumption`, `PathAssumption`, `CutAssumption`,
`LifeAssumption`, `SyncAssumption`, `LinkAssumption` and `ListAssumption` (TLC
evaluates them in every run of a module that declares them), and what the
theorems themselves assume: one client in `SoleClientProofs` and the theorems
named `Sole...`, no path written again in `RemovalsAreMeant` and
`SeenEditsAreKept`, the root's form in `PathAlwaysLeadsBack`, and the limits on users
given above.

Only model-checked:

* all liveness properties (`Answered` of the server, `Converges`,
  `NoticedStaysDeleted`, `Arrives`, `CloseReturns`, `GoneIsReleased`,
  `ChangeSeen`, `AsksAgain`), which are out of the prover's reach;
* `NoAbort`, which is `OnlyCollisionsAbort` (proved) where there is nobody to
  collide with;
* `NoPhantomDelete` with two clients and no path written again (`sync_two`;
  also with two writes in one second, 2,554,211 states). It is not a
  theorem for any clients: with three, TLC follows this schedule to a
  violation, on one path. The third client's newer file makes the first one
  remove its own; the second one's user deletes the path, so that the first
  one's fetch fails; the third client, in a pass begun before that, sends a later
  edit; now the first client misses a file the server has. What is proved for
  any clients is that *some* user deleted it (`NothingDeletedUnasked`).

## 5. Not modelled

* The vendored libraries `core/` (header-only utilities of C++17) and `catch/`
  (a test framework), the tests and the build files. They are about 20000 of the
  repository's 23500 lines of C++ and hold no behaviour of this program: what
  the program uses of them (`optional`, `string_view`) is a value. A model of
  them would not be a model of FilesSharing, so that the modules can stand for
  some thousand lines at most, nearly all the program has.
* Creating, binding and configuring sockets, the command line and the log.
* The layout of numbers in a message: both ends run the same code on the same
  kind of machine.
* Code that nothing calls: `deleteFiles`, `FileScanner::rename`,
  `FileDiff::getAdded`/`getDeleted`, `ClientsManager::removeClient`, the cases
  of `main`'s switch other than 0.
* Clocks that differ: one clock is modelled, so that `checkTimeDiff` never finds
  a difference other than the time its request took.
* The end of the server's standard input, at which `checkForExitCommand` spins.
* What two handlers that rewrite or mark at once leave in the list file: with
  more than one connection no property is claimed of it but that marks precede
  removals. `ListPersisted` and `MarksSurvive` are for one connection.
* A cut last line of a *client's* list file, and elements of `mContent` that a
  race leaves half-written.
* Idle clients of more than 200 seconds in `FileSync`.

## 6. Plan

1. *Done*: the server, the client, the whole system; restart of the server; the
   atomic store and its refinement; the connection down to pieces of messages
   and its refinement; the server's life cycle; the client's wake-up; the lists.
2. *Done*: the proofs of section 4. Every safety property that a passing run
   checks is stated by a theorem, `NoPhantomDelete` for one client, `NoAbort` as a
   case of `OnlyCollisionsAbort`.
3. `NoPhantomDelete` for exactly two clients when no path is written again.
4. Clocks that differ between the machines.
