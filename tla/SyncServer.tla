----------------------------- MODULE SyncServer -----------------------------
(***************************************************************************)
(* The server: one ClientHandler thread per connection, each running the   *)
(* Actions of server/Actions over the shared syncRoot directory and the    *)
(* shared DeletedListManager.  Nothing locks either of them, so the        *)
(* accesses to the directory, to the list file and to mContent that another*)
(* thread can separate are steps of their own; README says which accesses  *)
(* share a step.                                                           *)
(*                                                                         *)
(* The build is the default one: assert() is on, so a false assertion, an  *)
(* exception that leaves a thread, or a crash out of a data race on        *)
(* mContent ends the process (status).                                     *)
(***************************************************************************)
EXTENDS FileTree, Connection, WallClock

\* FileScanner::joinPaths("./syncRoot", p), which is no relative path.
fullPath(p) == [root |-> "./syncRoot", path |-> p]

ASSUME PathAssumption == \A p \in Path : fullPath(p) \notin Path

CONSTANT Cut    \* Cut[p]: the paths that p begins with

ASSUME CutAssumption == Cut \in [Path -> SUBSET Path]

VARIABLES
    syncRoot,   \* the directory ./syncRoot
    mContent,   \* DeletedListManager: the paths marked as deleted
    listFile,   \* .deleted_files_list: does it exist, its lines, and its last
                \* line if that has no end
    handler,    \* handler[c]: where the thread of connection c is
    status      \* "running", or what ended the process

store == <<syncRoot, mContent, listFile>>
serverVars == <<store, handler, status, now>>
vars == <<serverVars, connVars>>

IsResponse(r) ==
    \/ r \in [type : {"FileFromClient"}]
    \/ r \in [type : {"ServerTime"}, time : Nat]
    \/ /\ DOMAIN r = {"type", "files"}
       /\ r.type = "ServerFileList"
       /\ IsSnapshot(r.files)
    \/ r \in [type : {"FileFromServer"}, status : {0, 1}, data : Nat]
    \/ r \in [type : {"ServerDeletedList"}, paths : SUBSET Path]
    \/ r \in [type : {"ServerDeletedResponse"}, status : {0, 1}]

\* A handler is idle, has ended, or is about to take a step of the action that
\* serves its request; the first step has the name of the request's type.
Step == {"idle", "ended", "GetTime", "GetFileList", "statFiles",
         "GetFileByPath", "checkFile", "readFile",
         "SendFileToServer", "writeFile", "setTime",
         "checkList", "unlinkList", "rewriteList",
         "GetDeletedList", "MarkAsDeleted", "checkMark", "mark", "saveMark",
         "findFile", "checkGone", "unlinkFile", "answerDeleted"}

\* The request a handler works on while it is at a step.
Serves(step) ==
    CASE step \in {"GetTime"} -> "GetTime"
      [] step \in {"GetFileList", "statFiles"} -> "GetFileList"
      [] step \in {"GetFileByPath", "checkFile", "readFile"} -> "GetFileByPath"
      [] step \in {"SendFileToServer", "writeFile", "setTime",
                   "checkList", "unlinkList", "rewriteList"} ->
             "SendFileToServer"
      [] step \in {"GetDeletedList"} -> "GetDeletedList"
      [] OTHER -> "MarkAsDeleted"

\* names: what is left of the listing it works through, list: the times it has
\* read; linked: the file it holds open is still the one the directory names.
IsHandler(h) ==
    /\ h \in [pc : Step, names : SUBSET Path, list : {h.list}, linked : BOOLEAN]
    /\ IsSnapshot(h.list)

Idle == [pc |-> "idle", names |-> {}, list |-> Nothing, linked |-> TRUE]

Busy(c) == handler[c].pc \notin {"idle", "ended"}

At(c, step) == status = "running" /\ handler[c].pc = step

Goto(c, step) == handler' = [handler EXCEPT ![c].pc = step]

Requested(c) == Head(inbox[c]).path

Exists(c) == Requested(c) \in DOMAIN syncRoot

\* ptr->send(response), the last thing an action does.
Finish(c, response) ==
    /\ handler' = [handler EXCEPT ![c] = Idle]
    /\ Answer(c, response)

\* c goes to step; the streams of the handlers in others lose their file.
GotoUnlinking(c, step, others) ==
    handler' = [d \in Client |->
        IF d = c THEN [handler[d] EXCEPT !.pc = step]
        ELSE IF d \in others THEN [handler[d] EXCEPT !.linked = FALSE]
        ELSE handler[d]]

Abort(reason) ==
    /\ status' = reason
    /\ UNCHANGED <<store, handler, now, connVars>>

\* A false assert(ok) ends the process.
Assert(c, ok, step) ==
    /\ IF ok THEN Goto(c, step) /\ UNCHANGED status
             ELSE status' = "assertion" /\ UNCHANGED handler
    /\ UNCHANGED <<store, now, connVars>>

-----------------------------------------------------------------------------
\* ClientHandler::handleLoop and ActionsContainer::resolve.
Resolve(c) ==
    /\ At(c, "idle")
    /\ inbox[c] # <<>>
    /\ Goto(c, Head(inbox[c]).type)
    /\ UNCHANGED <<store, status, now, connVars>>

\* The loop ends after maxEmptyRequests polls in a row that find no request.
Leave(c) ==
    /\ At(c, "idle")
    /\ inbox[c] = <<>>
    /\ Goto(c, "ended")
    /\ UNCHANGED <<store, status, now, connVars>>

SendTimeStamp(c) ==
    /\ At(c, "GetTime")
    /\ Finish(c, [type |-> "ServerTime", time |-> now])
    /\ UNCHANGED <<store, status, now>>
-----------------------------------------------------------------------------
\* SendFileList: FileScanner(path) lists the directory, ...
ListFiles(c) ==
    /\ At(c, "GetFileList")
    /\ handler' = [handler EXCEPT ![c].pc = "statFiles",
                                  ![c].names = DOMAIN syncRoot]
    /\ UNCHANGED <<store, status, now, connVars>>

\* ... and reads the time of one file after the other.  A file that is gone is
\* no regular file and left out, but if it was still there for that test
\* last_write_time throws.
StatFile(c) ==
    /\ At(c, "statFiles")
    /\ \E p \in handler[c].names :
          \/ /\ handler' = [handler EXCEPT ![c].names = @ \ {p},
                   ![c].list = IF p \in DOMAIN syncRoot
                               THEN Put(@, p, syncRoot[p].ts) ELSE @]
             /\ UNCHANGED <<store, status, now, connVars>>
          \/ p \notin DOMAIN syncRoot /\ Abort("exception")

SendFileList(c) ==
    /\ At(c, "statFiles")
    /\ handler[c].names = {}
    /\ Finish(c, [type |-> "ServerFileList", files |-> handler[c].list])
    /\ UNCHANGED <<store, status, now>>
-----------------------------------------------------------------------------
\* Mutation: the early return without the answer.
FindRequestedSilently(c) ==
    /\ At(c, "GetFileByPath")
    /\ IF Exists(c)
       THEN Goto(c, "checkFile") /\ UNCHANGED inbox
       ELSE /\ handler' = [handler EXCEPT ![c] = Idle]
            /\ inbox' = [inbox EXCEPT ![c] = Tail(@)]
    /\ UNCHANGED <<store, status, now, waiting, reply>>

\* SendFile: the early return when the file is not there.
FindRequested(c) ==
    /\ At(c, "GetFileByPath")
    /\ IF Exists(c)
       THEN Goto(c, "checkFile") /\ UNCHANGED connVars
       ELSE Finish(c, [type |-> "FileFromServer", status |-> 1, data |-> Torn])
    /\ UNCHANGED <<store, status, now>>

\* The assertions of FileFromServer and getFileAsBytes.
CheckRequested(c) ==
    /\ At(c, "checkFile")
    /\ Assert(c, Exists(c), "readFile")

\* A file that is gone by now reads as empty.
ReadRequested(c) ==
    /\ At(c, "readFile")
    /\ Finish(c, [type |-> "FileFromServer", status |-> 0,
                  data |-> IF Exists(c) THEN syncRoot[Requested(c)].data ELSE Torn])
    /\ UNCHANGED <<store, status, now>>
-----------------------------------------------------------------------------
\* ReceiveFileFromClient.  saveBytesAsFile: opening the stream truncates.
TruncateFile(c) ==
    /\ At(c, "SendFileToServer")
    /\ syncRoot' = Put(syncRoot, Requested(c), [ts |-> now, data |-> Torn])
    /\ handler' = [handler EXCEPT ![c].pc = "writeFile", ![c].linked = TRUE]
    /\ UNCHANGED <<mContent, listFile, status, now, connVars>>

\* Mutation: bytes older than the file, which is truncated by now, are not
\* written.
WriteFileIfNewer(c) ==
    /\ At(c, "writeFile")
    /\ IF syncRoot[Requested(c)].ts <= Head(inbox[c]).ts
       THEN syncRoot' = Put(syncRoot, Requested(c),
                            [ts |-> now, data |-> Head(inbox[c]).data])
       ELSE UNCHANGED syncRoot
    /\ Goto(c, "setTime")
    /\ UNCHANGED <<mContent, listFile, status, now, connVars>>

\* The bytes reach the file.  On top of what another handler wrote since the
\* truncation, they may leave the end of the longer content behind them.
WriteFile(c) ==
    /\ At(c, "writeFile")
    /\ IF handler[c].linked
       THEN \E d \in {Head(inbox[c]).data, Torn} :
               /\ d = Torn => \/ syncRoot[Requested(c)].data # Torn
                              \/ Head(inbox[c]).data = Torn
               /\ syncRoot' =
                     Put(syncRoot, Requested(c), [ts |-> now, data |-> d])
       ELSE UNCHANGED syncRoot
    /\ Goto(c, "setTime")
    /\ UNCHANGED <<mContent, listFile, status, now, connVars>>

\* Mutation: the client's time is not set.
SetTimeSkipped(c) ==
    /\ At(c, "setTime")
    /\ Goto(c, "checkList")
    /\ UNCHANGED <<store, status, now, connVars>>

\* Mutation: the server's time instead of the client's.
SetTimeToNow(c) ==
    /\ At(c, "setTime")
    /\ IF Exists(c)
       THEN /\ syncRoot' = [syncRoot EXCEPT ![Requested(c)].ts = now]
            /\ Goto(c, "checkList")
            /\ UNCHANGED <<mContent, listFile, status, now, connVars>>
       ELSE Abort("assertion")

\* setModificationTime, with its assertion.
SetTime(c) ==
    /\ At(c, "setTime")
    /\ IF Exists(c)
       THEN /\ syncRoot' = [syncRoot EXCEPT ![Requested(c)].ts = Head(inbox[c]).ts]
            /\ Goto(c, "checkList")
            /\ UNCHANGED <<mContent, listFile, status, now, connVars>>
       ELSE Abort("assertion")

\* Mutation: markAsDeleted where markAsExistent is meant.
CheckListMarking(c) ==
    /\ At(c, "checkList")
    /\ IF listFile.exists
       THEN /\ mContent' = mContent \cup {Requested(c)}
            /\ Goto(c, "unlinkList")
            /\ UNCHANGED <<syncRoot, listFile, status, now, connVars>>
       ELSE Abort("assertion")

\* markAsExistent({path}) erases path, which is the joined one, from mContent;
\* FileScanner::remove asserts that the list file exists ...
CheckList(c) ==
    /\ At(c, "checkList")
    /\ IF listFile.exists
       THEN /\ mContent' = mContent \ {fullPath(Requested(c))}
            /\ Goto(c, "unlinkList")
            /\ UNCHANGED <<syncRoot, listFile, status, now, connVars>>
       ELSE Abort("assertion")

\* ... and removes it;
UnlinkList(c) ==
    /\ At(c, "unlinkList")
    /\ listFile' = [exists |-> FALSE, lines |-> {}, tail |-> {}]
    /\ GotoUnlinking(c, "rewriteList",
          {d \in Client : handler[d].pc \in {"checkMark", "mark", "saveMark"}})
    /\ UNCHANGED <<syncRoot, mContent, status, now, connVars>>

\* Mutation: the new file is opened only if there is something to write.
RewriteListLazily(c) ==
    /\ At(c, "rewriteList")
    /\ listFile' = [listFile EXCEPT !.exists = @ \/ mContent # {},
                                    !.lines = @ \cup mContent]
    /\ Finish(c, [type |-> "FileFromClient"])
    /\ UNCHANGED <<syncRoot, mContent, status, now>>

\* then the list is appended to a new file.
RewriteList(c) ==
    /\ At(c, "rewriteList")
    /\ listFile' = [listFile EXCEPT !.exists = TRUE, !.lines = @ \cup mContent]
    /\ Finish(c, [type |-> "FileFromClient"])
    /\ UNCHANGED <<syncRoot, mContent, status, now>>
-----------------------------------------------------------------------------
GetServerDeletedList(c) ==
    /\ At(c, "GetDeletedList")
    /\ Finish(c, [type |-> "ServerDeletedList", paths |-> mContent])
    /\ UNCHANGED <<store, status, now>>
-----------------------------------------------------------------------------
\* Mutation: MarkAsDeletedAction without the call of markAsDeleted.
OpenListOnly(c) ==
    /\ At(c, "MarkAsDeleted")
    /\ Goto(c, "findFile")
    /\ UNCHANGED <<store, status, now, connVars>>

\* MarkAsDeletedAction.  markAsDeleted opens the list file for appending, ...
OpenList(c) ==
    /\ At(c, "MarkAsDeleted")
    /\ listFile' = [listFile EXCEPT !.exists = TRUE]
    /\ handler' = [handler EXCEPT ![c].pc = "checkMark", ![c].linked = TRUE]
    /\ UNCHANGED <<syncRoot, mContent, status, now, connVars>>

\* ... asks isMarkedAsDeleted, ...
CheckMark(c) ==
    /\ At(c, "checkMark")
    /\ Goto(c, IF Requested(c) \in mContent THEN "findFile" ELSE "mark")
    /\ UNCHANGED <<store, status, now, connVars>>

\* Mutation: the joined path is marked.
MarkJoined(c) ==
    /\ At(c, "mark")
    /\ mContent' = mContent \cup {fullPath(Requested(c))}
    /\ Goto(c, "saveMark")
    /\ UNCHANGED <<syncRoot, listFile, status, now, connVars>>

\* ... adds the path to mContent, ...
Mark(c) ==
    /\ At(c, "mark")
    /\ mContent' = mContent \cup {Requested(c)}
    /\ Goto(c, "saveMark")
    /\ UNCHANGED <<syncRoot, listFile, status, now, connVars>>

\* Mutation: the mark is not written to the list file.
SaveNoMark(c) ==
    /\ At(c, "saveMark")
    /\ Goto(c, "findFile")
    /\ UNCHANGED <<store, status, now, connVars>>

\* The lines that p appended to the list file becomes: with a last line that
\* has no end it makes one path, if any.
Appended(p) ==
    IF listFile.tail = {} THEN {{p}}
    ELSE {{}} \cup {{q} : q \in {r \in Path : listFile.tail \subseteq Cut[r]}}

\* ... and to that file, where it arrives when the stream is closed.
SaveMark(c) ==
    /\ At(c, "saveMark")
    /\ IF handler[c].linked
       THEN \E lines \in Appended(Requested(c)) :
               listFile' = [listFile EXCEPT !.lines = @ \cup lines, !.tail = {}]
       ELSE UNCHANGED listFile
    /\ Goto(c, "findFile")
    /\ UNCHANGED <<syncRoot, mContent, status, now, connVars>>

\* Mutation: the file is not looked for.
FindMarkedUntested(c) ==
    /\ At(c, "findFile")
    /\ Goto(c, "checkGone")
    /\ UNCHANGED <<store, status, now, connVars>>

FindMarked(c) ==
    /\ At(c, "findFile")
    /\ IF Exists(c)
       THEN Goto(c, "checkGone") /\ UNCHANGED connVars
       ELSE Finish(c, [type |-> "ServerDeletedResponse", status |-> 1])
    /\ UNCHANGED <<store, status, now>>

\* The assertion of FileScanner::remove.
CheckMarked(c) ==
    /\ At(c, "checkGone")
    /\ Assert(c, Exists(c), "unlinkFile")

UnlinkFile(c) ==
    /\ At(c, "unlinkFile")
    /\ syncRoot' = Drop(syncRoot, Requested(c))
    /\ GotoUnlinking(c, "answerDeleted",
          {d \in Client : handler[d].pc = "writeFile" /\ Requested(d) = Requested(c)})
    /\ UNCHANGED <<mContent, listFile, status, now, connVars>>

AnswerDeleted(c) ==
    /\ At(c, "answerDeleted")
    /\ Finish(c, [type |-> "ServerDeletedResponse", status |-> 0])
    /\ UNCHANGED <<store, status, now>>
-----------------------------------------------------------------------------
\* Two threads in mContent at once, one of them in push_back: a data race.  The
\* steps above are the outcomes in which one comes after the other.  Or both of
\* two push_back write to the same place, and the later path is there alone;
Overwritten(c) ==
    /\ At(c, "mark")
    /\ \E d \in Client \ {c} :
          /\ handler[d].pc = "mark"
          /\ mContent' = mContent \cup {Requested(d)}
    /\ Goto(c, "saveMark")
    /\ UNCHANGED <<syncRoot, listFile, status, now, connVars>>

\* or a thread uses the memory that another one has freed.
Race(c) ==
    /\ At(c, "mark")
    /\ \E d \in Client \ {c} : handler[d].pc \in
          {"checkMark", "mark", "checkList", "rewriteList", "GetDeletedList"}
    /\ Abort("race")

Handle(c) ==
    \/ Resolve(c) \/ SendTimeStamp(c)
    \/ ListFiles(c) \/ StatFile(c) \/ SendFileList(c)
    \/ FindRequested(c) \/ CheckRequested(c) \/ ReadRequested(c)
    \/ TruncateFile(c) \/ WriteFile(c) \/ SetTime(c)
    \/ CheckList(c) \/ UnlinkList(c) \/ RewriteList(c)
    \/ GetServerDeletedList(c)
    \/ OpenList(c) \/ CheckMark(c) \/ Mark(c) \/ SaveMark(c)
    \/ FindMarked(c) \/ CheckMarked(c) \/ UnlinkFile(c) \/ AnswerDeleted(c)
    \/ Overwritten(c) \/ Race(c)

\* server.cpp main, over a directory that may already hold files.
ServerInit ==
    /\ mContent = {}
    /\ listFile = [exists |-> TRUE, lines |-> {}, tail |-> {}]
    /\ handler = [c \in Client |-> Idle]
    /\ status = "running"
=============================================================================
