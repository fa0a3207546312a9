----------------------------- MODULE SyncClient -----------------------------
(***************************************************************************)
(* The client: ClientLogic over the user's directory (mRoot) and the       *)
(* client's DeletedFileList.  A pass of its loop compares the server's     *)
(* list with a scan of the directory and sends, fetches and removes files  *)
(* until both agree; it reads the directory again and again while the      *)
(* user goes on changing it, so each access is a step of its own.          *)
(*                                                                         *)
(* Abstractions: the bytes of a download are written in one step as far as *)
(* the user is concerned, and so is the list of deleted files (a crash may *)
(* still leave them half written); the loops take paths in an arbitrary    *)
(* fixed order.                                                            *)
(***************************************************************************)
EXTENDS FileTree, Connection, WallClock

CONSTANT MaxTimeOffset    \* seconds checkTimeDiff tolerates (15)

VARIABLES
    local,    \* local[c]: the directory c synchronises
    marked,   \* marked[c]: the paths in c's own DeletedListManager
    mLast,    \* mLast[c]: the scan of the pass before (DeletedFileList::mLast)
    pass      \* pass[c]: where c is in its loop, and the pass's variables

clientVars == <<local, marked, mLast, pass>>

ClientPc ==
    {"start", "awaitTime", "top", "awaitList", "scan", "stat",
     "sendDeletes", "awaitDeleted", "addBack", "sendAdds", "stamp", "read",
     "awaitAdded", "askDeleted", "awaitDeletedList", "removeGone",
     "unlinkGone", "download", "unlinkOld", "request", "awaitFile", "save",
     "setTime", "idle", "closed", "aborted"}

\* pc: the next step; remote: the server's list; mine: the pass's scan;
\* deletedByUser, markedExistent: what the scan found; todo: the paths the
\* current loop still has to handle; stamp: the time read last;
\* adds: "first" or "last", the two calls of sendAddRequests;
\* data: the bytes received; unanswered: requests pending at disconnection.
NewPass == [pc |-> "start", remote |-> Nothing, mine |-> Nothing,
            deletedByUser |-> {}, markedExistent |-> {}, todo |-> {},
            stamp |-> 0, adds |-> "first", data |-> Torn, unanswered |-> 0]

ClientAt(c, pc) == pass[c].pc = pc

Move(c, pc) == pass' = [pass EXCEPT ![c].pc = pc]

\* A loop over the paths in todo.
Loop(c, pc, paths) == pass' = [pass EXCEPT ![c].pc = pc, ![c].todo = paths]

Current(c) == CHOOSE p \in pass[c].todo : TRUE

LoopDone(c) == pass[c].todo = {}

NextPath(c, pc) == Loop(c, pc, pass[c].todo \ {Current(c)})

HasCurrent(c) == Current(c) \in DOMAIN local[c]

\* The process ends; its socket is closed under the requests it has sent.
Disconnected(pc, requests) ==
    [NewPass EXCEPT !.pc = pc, !.unanswered = Len(requests)]

Exit(c, pc) == pass' = [pass EXCEPT ![c] = Disconnected(pc, inbox[c])]

\* A send followed by receiveBlocking.
Ask(c, request, pc) == Send(c, request) /\ Move(c, pc)

ModifiedOrAdded(c) == getModifiedOrAdded(pass[c].mine, pass[c].remote)
-----------------------------------------------------------------------------
\* Mutation: the time is taken in milliseconds.
AskTimeInMillis(c) ==
    /\ ClientAt(c, "start")
    /\ Send(c, [type |-> "GetTime"])
    /\ pass' = [pass EXCEPT ![c].pc = "awaitTime", ![c].stamp = now * 1000]
    /\ UNCHANGED <<local, marked, mLast>>

\* checkTimeDiff.
AskTime(c) ==
    /\ ClientAt(c, "start")
    /\ Send(c, [type |-> "GetTime"])
    /\ pass' = [pass EXCEPT ![c].pc = "awaitTime", ![c].stamp = now]
    /\ UNCHANGED <<local, marked, mLast>>

CheckTimeDiff(c) ==
    /\ ClientAt(c, "awaitTime")
    /\ Receive(c)
    /\ IF reply[c].time - pass[c].stamp > MaxTimeOffset
       THEN Exit(c, "closed")
       ELSE pass' = [pass EXCEPT ![c].pc = "top", ![c].stamp = 0]
    /\ UNCHANGED <<local, marked, mLast>>

\* loop: a pass starts with the server's list.
AskFileList(c) ==
    /\ ClientAt(c, "top")
    /\ Ask(c, [type |-> "GetFileList"], "awaitList")
    /\ UNCHANGED <<local, marked, mLast>>

TakeFileList(c) ==
    /\ ClientAt(c, "awaitList")
    /\ Receive(c)
    /\ pass' = [pass EXCEPT ![c].pc = "scan", ![c].remote = reply[c].files]
    /\ UNCHANGED <<local, marked, mLast>>
-----------------------------------------------------------------------------
\* What DeletedFileList::markAsDeleted and markAsExistent return: the paths
\* whose mark they change.
markAsDeleted(c, paths) == paths \ marked[c]
markAsExistent(c, paths) == paths \cap marked[c]

\* onIncomingFileList.  FileScanner(mRoot) lists the directory, ...
ScanNames(c) ==
    /\ ClientAt(c, "scan")
    /\ pass' = [pass EXCEPT ![c].pc = "stat", ![c].todo = DOMAIN local[c],
                            ![c].mine = Nothing]
    /\ UNCHANGED <<local, marked, mLast, connVars>>

\* ... and reads the time of one file after the other.  A file that is gone is
\* left out, but if it was there for the test last_write_time throws.
ScanTime(c) ==
    /\ ClientAt(c, "stat")
    /\ ~LoopDone(c)
    /\ \/ pass' = [pass EXCEPT ![c].todo = @ \ {Current(c)},
             ![c].mine = IF HasCurrent(c)
                         THEN Put(@, Current(c), local[c][Current(c)].ts) ELSE @]
       \/ ~HasCurrent(c) /\ Exit(c, "aborted")
    /\ UNCHANGED <<local, marked, mLast, connVars>>

\* Mutation: mLast is replaced before the scans are compared, not after, so
\* that the comparisons find nothing.
CompareScansLate(c) ==
    /\ ClientAt(c, "stat")
    /\ LoopDone(c)
    /\ pass' = [pass EXCEPT ![c].pc = "sendDeletes"]
    /\ mLast' = [mLast EXCEPT ![c] = pass[c].mine]
    /\ UNCHANGED <<local, marked, connVars>>

\* What disappeared since the last scan is marked, what reappeared unmarked.
CompareScans(c) ==
    /\ ClientAt(c, "stat")
    /\ LoopDone(c)
    /\ LET deleted  == markAsDeleted(c, getDeletedSince(pass[c].mine, mLast[c]))
           existent == markAsExistent(c, getAddedSince(pass[c].mine, mLast[c]))
       IN  /\ marked' = [marked EXCEPT ![c] = (@ \cup deleted) \ existent]
           /\ pass' = [pass EXCEPT
                 ![c].pc = "sendDeletes",
                 ![c].deletedByUser = deleted, ![c].markedExistent = existent,
                 ![c].todo = deleted \cap DOMAIN pass[c].remote]
    /\ mLast' = [mLast EXCEPT ![c] = pass[c].mine]
    /\ UNCHANGED <<local, connVars>>
-----------------------------------------------------------------------------
\* sendDeleteRequests; its result is ignored.
SendDelete(c) ==
    /\ ClientAt(c, "sendDeletes")
    /\ IF LoopDone(c)
       THEN Move(c, "addBack") /\ UNCHANGED connVars
       ELSE Ask(c, [type |-> "MarkAsDeleted", path |-> Current(c)],
                "awaitDeleted")
    /\ UNCHANGED <<local, marked, mLast>>

TakeDeleted(c) ==
    /\ ClientAt(c, "awaitDeleted")
    /\ Receive(c)
    /\ NextPath(c, "sendDeletes")
    /\ UNCHANGED <<local, marked, mLast>>

\* The first sendAddRequests, for what was marked and exists again.
AddBack(c) ==
    /\ ClientAt(c, "addBack")
    /\ Loop(c, "sendAdds", pass[c].markedExistent)
    /\ UNCHANGED <<local, marked, mLast, connVars>>
-----------------------------------------------------------------------------
\* sendAddRequests: skip what does not exist (any more), ...
AfterAdds(c) == IF pass[c].adds = "first"
                THEN Move(c, "askDeleted")
                ELSE pass' = [pass EXCEPT ![c] = [NewPass EXCEPT !.pc = "idle"]]

FindAdd(c) ==
    /\ ClientAt(c, "sendAdds")
    /\ IF LoopDone(c) THEN AfterAdds(c)
       ELSE IF HasCurrent(c) THEN Move(c, "stamp")
       ELSE NextPath(c, "sendAdds")
    /\ UNCHANGED <<local, marked, mLast, connVars>>

\* ... compare its present time with the server's, ...
StampAdd(c) ==
    /\ ClientAt(c, "stamp")
    /\ IF ~HasCurrent(c) THEN Exit(c, "aborted")
       ELSE LET p     == Current(c)
                stamp == local[c][p].ts
            IN  IF p \in DOMAIN pass[c].remote => pass[c].remote[p] < stamp
                THEN pass' = [pass EXCEPT ![c].pc = "read", ![c].stamp = stamp]
                ELSE NextPath(c, "sendAdds")
    /\ UNCHANGED <<local, marked, mLast, connVars>>

\* ... and send its present bytes with that time (SendFileToServer).
ReadAdd(c) ==
    /\ ClientAt(c, "read")
    /\ IF HasCurrent(c)
       THEN Ask(c, [type |-> "SendFileToServer", path |-> Current(c),
                    ts |-> pass[c].stamp, data |-> local[c][Current(c)].data],
                "awaitAdded")
       ELSE Exit(c, "aborted") /\ UNCHANGED connVars
    /\ UNCHANGED <<local, marked, mLast>>

TakeAdded(c) ==
    /\ ClientAt(c, "awaitAdded")
    /\ Receive(c)
    /\ pass' = [pass EXCEPT ![c].pc = "sendAdds", ![c].stamp = 0,
                            ![c].todo = @ \ {Current(c)}]
    /\ UNCHANGED <<local, marked, mLast>>
-----------------------------------------------------------------------------
AskDeletedList(c) ==
    /\ ClientAt(c, "askDeleted")
    /\ Ask(c, [type |-> "GetDeletedList"], "awaitDeletedList")
    /\ UNCHANGED <<local, marked, mLast>>

\* What others deleted and is not marked here is marked and removed.
TakeDeletedList(c) ==
    /\ ClientAt(c, "awaitDeletedList")
    /\ Receive(c)
    /\ marked' = [marked EXCEPT ![c] = @ \cup reply[c].paths]
    /\ Loop(c, "removeGone", markAsDeleted(c, reply[c].paths))
    /\ UNCHANGED <<local, mLast>>

FindGone(c) ==
    /\ ClientAt(c, "removeGone")
    /\ IF LoopDone(c)
          THEN Loop(c, "download", ModifiedOrAdded(c) \ pass[c].deletedByUser)
       ELSE IF HasCurrent(c) THEN Move(c, "unlinkGone")
       ELSE NextPath(c, "removeGone")
    /\ UNCHANGED <<local, marked, mLast, connVars>>

UnlinkGone(c) ==
    /\ ClientAt(c, "unlinkGone")
    /\ IF HasCurrent(c)
       THEN /\ local' = [local EXCEPT ![c] = Drop(@, Current(c))]
            /\ NextPath(c, "removeGone")
       ELSE Exit(c, "aborted") /\ UNCHANGED local
    /\ UNCHANGED <<marked, mLast, connVars>>
-----------------------------------------------------------------------------
\* requestAndSaveNewFiles: the old file goes before the new one is asked for.
\* At its end every remotely modified path is unmarked, and the second
\* sendAddRequests starts.
FindDownload(c) ==
    /\ ClientAt(c, "download")
    /\ IF LoopDone(c)
       THEN /\ marked' = [marked EXCEPT ![c] =
                            @ \ markAsExistent(c, ModifiedOrAdded(c))]
            /\ pass' = [pass EXCEPT ![c].pc = "sendAdds", ![c].adds = "last",
                  ![c].todo = 
                     getModifiedOrAdded(pass[c].remote, pass[c].mine)]
       ELSE /\ Move(c, IF HasCurrent(c) THEN "unlinkOld" ELSE "request")
            /\ UNCHANGED marked
    /\ UNCHANGED <<local, mLast, connVars>>

UnlinkOld(c) ==
    /\ ClientAt(c, "unlinkOld")
    /\ IF HasCurrent(c)
       THEN /\ local' = [local EXCEPT ![c] = Drop(@, Current(c))]
            /\ Move(c, "request")
       ELSE Exit(c, "aborted") /\ UNCHANGED local
    /\ UNCHANGED <<marked, mLast, connVars>>

RequestFile(c) ==
    /\ ClientAt(c, "request")
    /\ Ask(c, [type |-> "GetFileByPath", path |-> Current(c)], "awaitFile")
    /\ UNCHANGED <<local, marked, mLast>>

\* Any status but 0 leaves the path without a file.
TakeFile(c) ==
    /\ ClientAt(c, "awaitFile")
    /\ Receive(c)
    /\ IF reply[c].status = 0
       THEN pass' = [pass EXCEPT ![c].pc = "save", ![c].data = reply[c].data]
       ELSE NextPath(c, "download")
    /\ UNCHANGED <<local, marked, mLast>>

SaveFile(c) ==
    /\ ClientAt(c, "save")
    /\ local' = [local EXCEPT ![c] =
                    Put(@, Current(c), [ts |-> now, data |-> pass[c].data])]
    /\ pass' = [pass EXCEPT ![c].pc = "setTime", ![c].data = Torn]
    /\ UNCHANGED <<marked, mLast, connVars>>

\* setModificationTime, with the time the server's list gave.
SetFileTime(c) ==
    /\ ClientAt(c, "setTime")
    /\ IF HasCurrent(c)
       THEN /\ local' = [local EXCEPT
                  ![c][Current(c)].ts = pass[c].remote[Current(c)]]
            /\ NextPath(c, "download")
       ELSE Exit(c, "aborted") /\ UNCHANGED local
    /\ UNCHANGED <<marked, mLast, connVars>>
-----------------------------------------------------------------------------
\* The watcher or the 5 s timer wakes the loop.
Wake(c) ==
    /\ ClientAt(c, "idle")
    /\ Move(c, "top")
    /\ UNCHANGED <<local, marked, mLast, connVars>>

Synchronise(c) ==
    \/ AskTime(c) \/ CheckTimeDiff(c) \/ AskFileList(c) \/ TakeFileList(c)
    \/ ScanNames(c) \/ ScanTime(c) \/ CompareScans(c)
    \/ SendDelete(c) \/ TakeDeleted(c)
    \/ AddBack(c) \/ FindAdd(c) \/ StampAdd(c) \/ ReadAdd(c) \/ TakeAdded(c)
    \/ AskDeletedList(c) \/ TakeDeletedList(c) \/ FindGone(c) \/ UnlinkGone(c)
    \/ FindDownload(c) \/ UnlinkOld(c) \/ RequestFile(c) \/ TakeFile(c)
    \/ SaveFile(c) \/ SetFileTime(c) \/ Wake(c)

\* receiveBlocking gives up.  The two loops whose result is ignored are left,
\* with what remains of them; anywhere else the client ends.
NoAnswer(c) ==
    /\ GiveUp(c)
    /\ IF ClientAt(c, "awaitDeleted") THEN Loop(c, "addBack", {})
       ELSE IF ClientAt(c, "awaitAdded") /\ pass[c].adds = "first"
       THEN pass' = [pass EXCEPT ![c].pc = "askDeleted", ![c].stamp = 0,
                                 ![c].todo = {}]
       ELSE Exit(c, "closed")
    /\ UNCHANGED <<local, marked, mLast>>

\* What a kill may leave of the client's list file.  markAsExistent is at work
\* on it at the end of a scan and of the downloads, and removes it first;
\* markAsDeleted appends the server's deleted list to it.
LeftMarks(c) ==
    CASE ClientAt(c, "stat") /\ LoopDone(c) ->
           SUBSET (marked[c] \cup getDeletedSince(pass[c].mine, mLast[c]))
      [] ClientAt(c, "download") /\ LoopDone(c) -> SUBSET marked[c]
      [] ClientAt(c, "awaitDeletedList") /\ Arrived(c) ->
           {marked[c] \cup paths : paths \in SUBSET reply[c].paths}
      [] OTHER -> {marked[c]}

\* The process is killed, perhaps while it writes a downloaded file or its list.
Crash(c) ==
    /\ pass[c].pc \notin {"closed", "aborted"}
    /\ Exit(c, "closed")
    /\ HangUp(c)
    /\ \/ UNCHANGED local
       \/ /\ ClientAt(c, "save")
          /\ local' = [local EXCEPT ![c] =
                          Put(@, Current(c), [ts |-> now, data |-> Torn])]
    /\ \E marks \in LeftMarks(c) : marked' = [marked EXCEPT ![c] = marks]
    /\ UNCHANGED mLast

\* A new process: the list of deleted files is read back, the last scan is not.
Restart(c) ==
    /\ pass[c].pc \in {"closed", "aborted"}
    /\ inbox[c] = <<>>
    /\ pass' = [pass EXCEPT ![c] = NewPass]
    /\ mLast' = [mLast EXCEPT ![c] = Nothing]
    /\ UNCHANGED <<local, marked, connVars>>

ClientInit ==
    /\ marked = [c \in Client |-> {}]
    /\ mLast = [c \in Client |-> Nothing]
    /\ pass = [c \in Client |-> NewPass]
=============================================================================
