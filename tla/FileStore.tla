----------------------------- MODULE FileStore -----------------------------
(***************************************************************************)
(* What the server promises a client: a directory and a set of deletion    *)
(* marks that every request reads or changes in one step, at some moment   *)
(* between its arrival and its answer, and that outlive the process.       *)
(*                                                                         *)
(* The end of the process may leave anything under the path of a change it *)
(* has not confirmed yet.  While it is storing a file, it may spoil the    *)
(* marks, and those made after that, until a file is stored again.         *)
(***************************************************************************)
EXTENDS ClientApi, Connection

CONSTANT MaxPending    \* bound: requests of one client without an answer

VARIABLES
    files,      \* the directory
    marks,      \* the paths marked as deleted
    frail,      \* will the next end of the process spoil marks?
    confirm     \* confirm[c]: the answer to a change that has been made, or NoReply

storeVars == <<files, marks, frail, confirm>>
allVars == <<storeVars, connVars, now>>

Oldest(c) == Head(inbox[c])

\* There is an unanswered request of the given type, not yet acted on.
Asked(c, type) ==
    /\ confirm[c] = NoReply
    /\ inbox[c] # <<>>
    /\ Oldest(c).type = type

Submit(c) ==
    /\ ~waiting[c]
    /\ Len(inbox[c]) < MaxPending
    /\ \E r \in Request : Send(c, r)
    /\ UNCHANGED <<storeVars, now>>

Collect(c) == Receive(c) /\ UNCHANGED <<storeVars, now>>

TimeOut(c) == GiveUp(c) /\ UNCHANGED <<storeVars, now>>

Tick == TimePasses /\ UNCHANGED <<storeVars, connVars>>
-----------------------------------------------------------------------------
View(r) ==
    CASE r.type = "GetTime" -> [type |-> "ServerTime", time |-> now]
      [] r.type = "GetFileList" ->
           [type |-> "ServerFileList", files |-> Scan(files, DOMAIN files)]
      [] r.type = "GetDeletedList" ->
           [type |-> "ServerDeletedList", paths |-> marks]
      [] r.type = "GetFileByPath" ->
           IF r.path \in DOMAIN files
           THEN [type |-> "FileFromServer", status |-> 0, data |-> files[r.path].data]
           ELSE [type |-> "FileFromServer", status |-> 1, data |-> Torn]

\* A request that changes nothing is answered with the present state.
Look(c) ==
    /\ \E type \in {"GetTime", "GetFileList", "GetDeletedList", "GetFileByPath"} :
          Asked(c, type)
    /\ Answer(c, View(Oldest(c)))
    /\ UNCHANGED <<storeVars, now>>

StoreFile(c) ==
    /\ Asked(c, "SendFileToServer")
    /\ files' = Put(files, Oldest(c).path,
                    [ts |-> Oldest(c).ts, data |-> Oldest(c).data])
    /\ confirm' = [confirm EXCEPT ![c] = [type |-> "FileFromClient"]]
    /\ frail' = FALSE
    /\ UNCHANGED <<marks, connVars, now>>

Delete(c) ==
    /\ Asked(c, "MarkAsDeleted")
    /\ files' = Drop(files, Oldest(c).path)
    /\ marks' = marks \cup {Oldest(c).path}
    /\ confirm' = [confirm EXCEPT ![c] =
          [type |-> "ServerDeletedResponse",
           status |-> IF Oldest(c).path \in DOMAIN files THEN 0 ELSE 1]]
    /\ UNCHANGED <<frail, connVars, now>>

Confirm(c) ==
    /\ confirm[c] # NoReply
    /\ Answer(c, confirm[c])
    /\ confirm' = [confirm EXCEPT ![c] = NoReply]
    /\ UNCHANGED <<files, marks, frail, now>>
-----------------------------------------------------------------------------
InFlight(type) == {c \in Client : confirm[c] # NoReply /\ Oldest(c).type = type}

Unconfirmed ==
    {Oldest(c).path : c \in InFlight("SendFileToServer") \cup InFlight("MarkAsDeleted")}

\* The process ends and starts again, with new connections.
Recover ==
    /\ DOMAIN files \ Unconfirmed = DOMAIN files' \ Unconfirmed
    /\ \A p \in DOMAIN files \ Unconfirmed : files'[p] = files[p]
    /\ \/ marks' = marks /\ UNCHANGED frail
       \/ /\ frail \/ InFlight("SendFileToServer") # {}
          /\ marks' \subseteq Path
          /\ frail' \in BOOLEAN
    /\ confirm' = [c \in Client |-> NoReply]
    /\ inbox' = [c \in Client |-> <<>>]
    /\ waiting' = [c \in Client |-> FALSE]
    /\ reply' = [c \in Client |-> NoReply]
    /\ UNCHANGED now
-----------------------------------------------------------------------------
Init ==
    /\ ConnInit
    /\ files = EmptyDir
    /\ marks = {}
    /\ frail = FALSE
    /\ confirm = [c \in Client |-> NoReply]
    /\ now = 0

Next ==
    \/ Tick \/ Recover
    \/ \E c \in Client :
          \/ Submit(c) \/ Collect(c) \/ TimeOut(c)
          \/ Look(c) \/ StoreFile(c) \/ Delete(c) \/ Confirm(c)

Spec == Init /\ [][Next]_allVars
=============================================================================
