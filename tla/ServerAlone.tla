---------------------------- MODULE ServerAlone ----------------------------
(***************************************************************************)
(* The server under every sequence of requests the protocol allows: each   *)
(* client sends any request of common/client_api, waits for its answer or  *)
(* gives up on it and goes on.  The process may be killed between any two  *)
(* steps of its threads, or end by an assertion, and be started again;     *)
(* what is between its end and its next start nobody sees.                 *)
(* Nothing else writes to syncRoot (README: the server's directory is not  *)
(* to be modified).                                                        *)
(***************************************************************************)
EXTENDS SyncServer, ClientApi

CONSTANT MaxPending   \* bound: requests of one client the server has not answered

\* What the properties remember of the past; the program keeps none of it.
VARIABLES
    cutOff,     \* paths whose upload the end of a process cut off, and that
                \* have not been written whole since
    cutList,    \* has the end of a process left a line of the list file
                \* without its end, and the file not been written anew since?
    lost,       \* paths whose marks were overwritten in mContent
    overtaken   \* handlers that rely on a file another one has removed since

ghosts == <<cutOff, cutList, lost, overtaken>>
aloneVars == <<vars, ghosts>>

Submit(c) ==
    /\ status = "running"
    /\ ~waiting[c]
    /\ Len(inbox[c]) < MaxPending
    /\ \E r \in Request : Send(c, r)
    /\ UNCHANGED <<serverVars, ghosts>>

Collect(c) == Receive(c) /\ UNCHANGED <<serverVars, ghosts>>

TimeOut(c) == GiveUp(c) /\ UNCHANGED <<serverVars, ghosts>>

\* The files a handler has tested, or listed, and has still to use.
Relying(c) ==
    CASE handler[c].pc \in {"checkFile", "writeFile", "setTime", "checkGone"} ->
           {Requested(c)}
      [] handler[c].pc = "statFiles" -> handler[c].names
      [] OTHER -> {}

Overtakes(c, d) ==
    c # d /\ At(c, "unlinkFile") /\ Requested(c) \in Relying(d)

Serve(c) ==
    /\ Handle(c)
    /\ cutOff' = {p \in cutOff : p \in DOMAIN syncRoot' /\ syncRoot'[p].data = Torn}
    /\ cutList' = (cutList /\ ~At(c, "unlinkList"))
    /\ lost' = (IF At(c, "mark") THEN lost \cup {Requested(c)} ELSE lost) \ mContent'
    /\ overtaken' = {d \in Client : /\ d \in overtaken \/ Overtakes(c, d)
                                    /\ Relying(d)' # {}}

Expire(c) == Leave(c) /\ UNCHANGED ghosts

Tick == TimePasses /\ UNCHANGED <<store, handler, status, connVars, ghosts>>
-----------------------------------------------------------------------------
Rewriting == \E c \in Client : handler[c].pc = "rewriteList"

\* What may be at the end of the list file when the paths in rest are still to
\* be written: nothing, or the beginning of one of them.
LastLine(rest) == {{}} \cup {{p} : p \in UNION {Cut[q] : q \in rest}}

\* What the end of the process may have left of the list file: a list that was
\* being written anew is there in part.
Left ==
    IF Rewriting
    THEN UNION {[exists : {TRUE}, lines : {listFile.lines \cup written},
                 tail : LastLine(mContent \ written)] :
                    written \in SUBSET mContent}
    ELSE {[listFile EXCEPT !.exists = TRUE]}

\* The process has ended, or is killed now, and there is a new one on the same
\* directory, with new connections.
NewProcess ==
    /\ status' = "running"
    /\ handler' = [c \in Client |-> Idle]
    /\ inbox' = [c \in Client |-> <<>>]
    /\ waiting' = [c \in Client |-> FALSE]
    /\ reply' = [c \in Client |-> NoReply]
    /\ cutOff' = cutOff \cup
          {Requested(c) : c \in {d \in Client : handler[d].pc = "writeFile"}}
    /\ listFile' \in Left
    /\ cutList' = (cutList \/ listFile'.tail # {})
    /\ lost' = {}
    /\ overtaken' = {}
    /\ UNCHANGED <<syncRoot, now>>

\* Mutation: the constructor without rereadFile.
StartForgetting == NewProcess /\ mContent' = {}

\* rereadFile creates the list file if need be and reads it back: at the list's
\* first use, but nobody touches the file before that.
Start == NewProcess /\ mContent' = listFile'.lines \cup listFile'.tail
-----------------------------------------------------------------------------
Init ==
    /\ ServerInit
    /\ ConnInit
    /\ syncRoot = EmptyDir
    /\ now = 0
    /\ cutOff = {}
    /\ cutList = FALSE
    /\ lost = {}
    /\ overtaken = {}

Next ==
    \/ Tick \/ Start
    \/ \E c \in Client :
          Serve(c) \/ Expire(c) \/ Submit(c) \/ Collect(c) \/ TimeOut(c)

\* Each handler is a thread of its own; it is never blocked for ever.
Spec == Init /\ [][Next]_aloneVars /\ \A c \in Client : WF_vars(Handle(c))
-----------------------------------------------------------------------------
StoreOK ==
    /\ IsDir(syncRoot)
    /\ mContent \subseteq Path
    /\ listFile \in [exists : BOOLEAN, lines : SUBSET Path, tail : SUBSET Path]

ProcessOK ==
    /\ status \in {"running", "assertion", "exception", "race"}
    /\ now \in Nat

ThreadsOK ==
    /\ handler = [c \in Client |-> handler[c]]
    /\ \A c \in Client : IsHandler(handler[c])

ChannelsOK ==
    /\ inbox \in [Client -> Seq(Request)]
    /\ waiting \in [Client -> BOOLEAN]
    /\ reply = [c \in Client |-> reply[c]]
    /\ \A c \in Client : reply[c] = NoReply \/ IsResponse(reply[c])

ServerOK == StoreOK /\ ProcessOK /\ ThreadsOK /\ ChannelsOK

\* Every variable has a value of its kind; in particular the lists of deleted
\* paths, whose relative and joined paths are both strings in the code, hold
\* relative ones only.
TypeOK ==
    /\ ServerOK
    /\ cutOff \subseteq Path
    /\ cutList \in BOOLEAN
    /\ lost \subseteq Path
    /\ overtaken \subseteq Client

\* A thread in the middle of an action works on the oldest request it has not
\* answered, and that request has the type of the action.
Serving ==
    \A c \in Client : Busy(c) =>
        /\ inbox[c] # <<>>
        /\ Head(inbox[c]).type = Serves(handler[c].pc)

\* With one connection no assertion of the server's code fails, and no exception
\* leaves a thread.
NoAbort == status = "running"

\* An assertion or an exception ends the server only if another handler has
\* removed a file since this one tested or listed it (MarkAsDeletedAction,
\* SendFile, ReceiveFileFromClient, FileScanner), or if two uploads meet
\* between the removal of the list file and its rewriting.
OnlyCollisionsAbort ==
    status \in {"assertion", "exception"} =>
        \/ overtaken # {}
        \/ /\ \E c \in Client : handler[c].pc = "checkList"
           /\ \E c \in Client : handler[c].pc = "rewriteList"

\* What an acknowledgement promises holds when it is sent: an uploaded file
\* has the uploaded bytes and the client's time (ReceiveFileFromClient), and a
\* deleted one is gone and marked (MarkAsDeletedAction).
AcknowledgedHolds ==
    \A c \in Client :
        /\ handler[c].pc \in {"checkList", "unlinkList", "rewriteList"} =>
              /\ Exists(c)
              /\ syncRoot[Requested(c)] = [ts |-> Head(inbox[c]).ts,
                                           data |-> Head(inbox[c]).data]
        /\ handler[c].pc = "answerDeleted" =>
              ~Exists(c) /\ Requested(c) \in mContent

\* A file holds bytes nobody uploaded only while an upload of it is between
\* its truncation and its last byte (FileScanner::saveBytesAsFile), or after
\* the process ended just there.
WholeAtRest ==
    \A p \in DOMAIN syncRoot :
        syncRoot[p].data = Torn =>
            \/ \E c \in Client : handler[c].pc = "writeFile" /\ Requested(c) = p
            \/ p \in cutOff

\* Marks that are not in the list file yet (markAsDeleted).
Unsaved == {Requested(c) : c \in {d \in Client : handler[d].pc = "saveMark"}}

\* The list file says what mContent says, but for a mark that is on its way to
\* the file, while markAsExistent is writing it anew, or after the process ended
\* in the middle of a line.
ListPersisted ==
    ~Rewriting /\ ~cutList =>
        listFile = [exists |-> TRUE, lines |-> mContent \ Unsaved, tail |-> {}]

\* A file disappears only after its path was marked, so a client that misses
\* it in the file list finds it in the deleted list it asks for afterwards
\* (ClientLogic::onIncomingFileList asks in that order); or the mark was
\* overwritten by another handler's in the same moment.
MarkedBeforeGone ==
    [][\A p \in DOMAIN syncRoot \ DOMAIN syncRoot' :
          p \in mContent \cup lost]_aloneVars

\* A new process knows every deletion the one before it knew, unless that one
\* ended between the mark and its line in the list file, or while markAsExistent
\* had the list file removed; or an earlier one left a line without its end, to
\* which the next mark was appended (DeletedListManager).
MarksSurvive ==
    [][~Rewriting /\ ~cutList => mContent \ Unsaved \subseteq mContent']_aloneVars

\* Every request a client waits for is answered, whatever it gave up on
\* before, unless the process ends or the handler has ended because the client
\* was silent for too long.
Answered ==
    \A c \in Client :
        waiting[c] ~> \/ reply[c] # NoReply
                      \/ ~waiting[c]
                      \/ status # "running"
                      \/ handler[c].pc = "ended"

\* The assertion of FileScanner::remove when MarkAsDeletedAction calls it.
RemovedFileExists ==
    \A c \in Client : handler[c].pc = "checkGone" => Exists(c)
-----------------------------------------------------------------------------
\* How the server with one connection looks from outside.  An upload counts
\* from the truncation of its file, as the bytes and the time that are still
\* missing are seen by nobody; a deletion counts from the moment when its mark
\* is in the list file, where the end of the process does not undo it.
Storing == {"writeFile", "setTime", "checkList", "unlinkList", "rewriteList"}

Deleting == {"findFile", "checkGone", "unlinkFile", "answerDeleted"}

InStep(steps) == {c \in Client : handler[c].pc \in steps}

Incoming(p) == {c \in InStep({"writeFile", "setTime"}) : Requested(c) = p}

Settled ==
    [p \in DOMAIN syncRoot \ {Requested(c) : c \in InStep(Deleting)} |->
        IF Incoming(p) = {} THEN syncRoot[p]
        ELSE LET request == Head(inbox[CHOOSE c \in Incoming(p) : TRUE])
             IN  [ts |-> request.ts, data |-> request.data]]

Owed(c) ==
    IF handler[c].pc \in Storing THEN [type |-> "FileFromClient"]
    ELSE IF handler[c].pc \in Deleting
    THEN [type |-> "ServerDeletedResponse",
          status |-> IF handler[c].pc = "findFile" /\ ~Exists(c) THEN 1 ELSE 0]
    ELSE NoReply

Store == INSTANCE FileStore WITH
             files   <- Settled,
             marks   <- mContent \ Unsaved,
             frail   <- cutList /\ InStep(Storing) = {},
             confirm <- [c \in Client |-> Owed(c)]

\* With one connection the server is an atomic store that keeps what it has
\* confirmed, even over the end of the process: all its requests, with every
\* step of their actions, are single steps of FileStore.
ImplementsStore == Store!Spec
=============================================================================
