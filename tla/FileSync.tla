------------------------------ MODULE FileSync ------------------------------
(***************************************************************************)
(* The whole system: clients that synchronise their users' directories     *)
(* with one server.  The users write and delete files of their own         *)
(* directory at any time, between any two steps of the client and server   *)
(* processes; requests may time out, clients may be killed and restarted.  *)
(*                                                                         *)
(* A client that disconnects leaves its requests to be answered; the peer  *)
(* resets the connection then, and recv's error ends the server process    *)
(* (ClientSocket::receive).                                                *)
(***************************************************************************)
EXTENDS SyncServer, SyncClient

CONSTANTS
    Shared,        \* paths the server and every client hold at the start
    Remote,        \* paths only the server holds at the start
    MaxEdits,      \* bound: writes by the users
    MaxDeletes,    \* bound: deletions by the users
    MaxTimeouts,   \* bound: requests the clients give up on
    MaxCrashes,    \* bound: clients killed
    MaxRestarts,   \* bound: clients started again
    Recreate,      \* may users write a path again that was deleted?
    CoarseClock    \* may a user's write share its second with another one?

ASSUME SyncAssumption ==
    /\ Shared \cup Remote \subseteq Path
    /\ MaxTime >= 2    \* the second in which the users begin
    /\ Recreate \in BOOLEAN

VARIABLES
    spent,     \* how often each of the bounded things has happened
    edited,    \* when a user last wrote a file
    deleted,   \* deleted[c]: the paths the user of c ever deleted
    noticed,   \* noticed[c]: those c's last scan held at that time, without
               \* those that c skipped or a restart made it forget
    gone,      \* the paths whose last user action was a deletion
    fresh      \* fresh[c]: what the user of c wrote after the last scan read
               \* its time

history == <<edited, deleted, noticed, gone, fresh>>
userVars == <<spent, history>>
syncVars == <<serverVars, connVars, clientVars, userVars>>

Spend(what, bound) ==
    spent[what] < bound /\ spent' = [spent EXCEPT ![what] = @ + 1]

\* Contents are numbered in the order they are written; 1 is what the shared
\* and the remote files hold at the start.
UserWrite(c, p) ==
    /\ Spend("edits", MaxEdits)
    /\ Recreate \/ \A d \in Client : p \notin deleted[d]
    /\ CoarseClock \/ edited < now
    /\ local' = [local EXCEPT ![c] =
                    Put(@, p, [ts |-> now, data |-> spent["edits"] + 2])]
    /\ edited' = now
    /\ gone' = gone \ {p}
    /\ fresh' = [fresh EXCEPT ![c] = @ \cup {p}]
    /\ UNCHANGED <<serverVars, connVars, marked, mLast, pass, deleted, noticed>>

UserDelete(c, p) ==
    /\ Spend("deletes", MaxDeletes)
    /\ p \in DOMAIN local[c]
    /\ local' = [local EXCEPT ![c] = Drop(@, p)]
    /\ deleted' = [deleted EXCEPT ![c] = @ \cup {p}]
    /\ gone' = gone \cup {p}
    /\ noticed' = [noticed EXCEPT ![c] =
                      IF p \in DOMAIN mLast[c] THEN @ \cup {p} ELSE @ \ {p}]
    /\ fresh' = [fresh EXCEPT ![c] = @ \ {p}]
    /\ UNCHANGED <<serverVars, connVars, marked, mLast, pass, edited>>

ServerSteps(c) == Handle(c) /\ UNCHANGED <<clientVars, userVars>>

ClientSteps(c) ==
    /\ Synchronise(c)
    /\ fresh' = [fresh EXCEPT ![c] =
                    IF ClientAt(c, "stat") /\ ~LoopDone(c)
                    THEN @ \ {Current(c)} ELSE @]
    /\ UNCHANGED <<serverVars, spent, edited, deleted, noticed, gone>>

\* The deletions that are still to be sent are skipped, the one that has been
\* sent is in the queue.
TimesOut(c) ==
    /\ Spend("timeouts", MaxTimeouts)
    /\ NoAnswer(c)
    /\ noticed' = [noticed EXCEPT ![c] =
                      IF ClientAt(c, "awaitDeleted")
                      THEN @ \ (pass[c].todo \ {Current(c)}) ELSE @]
    /\ UNCHANGED <<serverVars, edited, deleted, gone, fresh>>

IsKilled(c) ==
    /\ Spend("crashes", MaxCrashes)
    /\ Crash(c)
    /\ UNCHANGED <<serverVars, history>>

StartsAgain(c) ==
    /\ Spend("restarts", MaxRestarts)
    /\ Restart(c)
    /\ noticed' = [noticed EXCEPT ![c] = @ \cap mContent]
    /\ UNCHANGED <<serverVars, edited, deleted, gone, fresh>>

\* An answer reached a closed socket.
Reset(c) ==
    /\ status = "running"
    /\ Len(inbox[c]) < pass[c].unanswered
    /\ status' = "exit"
    /\ UNCHANGED <<store, handler, now, connVars, clientVars, userVars>>

Tick ==
    /\ TimePasses
    /\ UNCHANGED <<store, handler, status, connVars, clientVars, userVars>>

Init ==
    /\ ServerInit
    /\ ConnInit
    /\ ClientInit
    /\ syncRoot = [p \in Shared \cup Remote |-> [ts |-> 1, data |-> 1]]
    /\ local = [c \in Client |-> [p \in Shared |-> [ts |-> 1, data |-> 1]]]
    /\ now = 2
    /\ spent = [edits |-> 0, deletes |-> 0, timeouts |-> 0, crashes |-> 0,
                restarts |-> 0]
    /\ edited = 1
    /\ deleted = [c \in Client |-> {}]
    /\ noticed = [c \in Client |-> {}]
    /\ gone = {}
    /\ fresh = [c \in Client |-> {}]

Next ==
    \/ Tick
    \/ \E c \in Client :
          \/ ServerSteps(c) \/ ClientSteps(c) \/ TimesOut(c)
          \/ IsKilled(c) \/ StartsAgain(c) \/ Reset(c)
          \/ \E p \in Path : UserWrite(c, p) \/ UserDelete(c, p)

\* The threads of both programs run; the 5 s timer keeps waking the client.
\* Users, clocks, timeouts, crashes and restarts are not obliged to anything.
Spec ==
    /\ Init /\ [][Next]_syncVars
    /\ \A c \in Client : WF_syncVars(ServerSteps(c)) /\ WF_syncVars(ClientSteps(c))
-----------------------------------------------------------------------------
SyncTypeOK ==
    /\ \A c \in Client : IsDir(local[c]) /\ IsSnapshot(mLast[c])
    /\ marked \in [Client -> SUBSET Path]
    /\ \A c \in Client :
          /\ pass[c].pc \in ClientPc
          /\ IsSnapshot(pass[c].remote) /\ IsSnapshot(pass[c].mine)
          /\ pass[c].todo \subseteq Path
          /\ pass[c].stamp \in 0 .. MaxTime

Up == /\ status = "running"
      /\ \A c \in Client : pass[c].pc \notin {"closed", "aborted"}

AtRest == /\ \A c \in Client : handler[c].pc = "idle" /\ inbox[c] = <<>>
          /\ \A c \in Client : pass[c].pc = "idle"

\* What a kill tore in the very second of the file's own time has that time at
\* once, and is taken for the file.
InAgreement ==
    \A c \in Client :
        /\ DOMAIN local[c] = DOMAIN syncRoot
        /\ \A p \in DOMAIN syncRoot :
              /\ local[c][p].ts = syncRoot[p].ts
              /\ \/ local[c][p].data = syncRoot[p].data
                 \/ local[c][p].data = Torn /\ spent["crashes"] > 0

\* README: the client synchronises the files with the server, and the server
\* with many clients.  When the users stop and every process runs, every
\* directory ends up holding the same files.
Converges == <>[](Up => InAgreement)

\* client_logic.cpp "Delete remote files if I also deleted them": a client
\* asks for a file's deletion only if its own user deleted it.
NoPhantomDelete ==
    \A c \in Client : \A i \in 1 .. Len(inbox[c]) :
        inbox[c][i].type = "MarkAsDeleted" => inbox[c][i].path \in deleted[c]

\* The client decides by the times alone whether a file has to be transferred:
\* what has the same time on both sides must have the same content, unless the
\* client was killed while it wrote a download.
SameTimeSameContent ==
    AtRest => \A c \in Client : \A p \in DOMAIN local[c] \cap DOMAIN syncRoot :
        local[c][p].ts = syncRoot[p].ts =>
            local[c][p].data \in {syncRoot[p].data, Torn}

GoneEverywhere(p) ==
    p \notin DOMAIN syncRoot /\ \A c \in Client : p \notin DOMAIN local[c]

\* client_logic.cpp "Delete remote files if I also deleted them": what a user
\* deleted and nobody wrote again is gone in the end, everywhere.  That is for
\* the files the client knew of from its last scan: it finds out what is
\* missing by comparison with it (DeletedFileList::mLast), and a new process
\* downloads again what was deleted before its first scan.  It is for the
\* deletions the client got to: when one of them is not answered in time,
\* sendDeleteRequests leaves out the others, and the next scan misses nothing.
NoticedStaysDeleted ==
    <>[](Up => \A c \in Client : \A p \in noticed[c] : GoneEverywhere(p))

\* The server loses no file that no user deleted, whatever the clients do.
UndeletedSurvives ==
    \A p \in Shared \cup Remote :
        (\A c \in Client : p \notin deleted[c]) => p \in DOMAIN syncRoot

\* README: the server's work ends when its operator types q, quit or exit.
ServerSurvives == status # "exit"

\* The program of c leaves the file p alone in this step, or takes the user's
\* file away in favour of a newer one or because its path was deleted.  At
\* "setTime" it is its own download that it changes.
Respects(c, p) ==
    \/ spent' # spent
    \/ p \in DOMAIN local'[c] /\ local'[c][p] = local[c][p]
    \/ p \in gone
    \/ p \in DOMAIN pass[c].remote /\ pass[c].remote[p] > local[c][p].ts
    \/ ClientAt(c, "setTime") /\ p = Current(c) /\ p \notin fresh[c]

\* The client program takes a file out of the user's directory, or replaces
\* it, only in favour of a newer one or because its path was deleted
\* (requestAndSaveNewFiles).  An edit counts from the moment a scan has read its
\* time: what the user writes between the scan and the download is lost, as
\* the pass decides by its scan.
SeenEditsKept ==
    [][\A c \in Client : \A p \in DOMAIN local[c] :
          p \in fresh[c] \/ Respects(c, p)]_syncVars

\* The same for every edit.
NoEditLost ==
    [][\A c \in Client : \A p \in DOMAIN local[c] : Respects(c, p)]_syncVars

\* client_logic.cpp "Delete remotely deleted files": the program removes a file
\* on that ground only if deleting it was the last thing a user did to it.
RemovedOnlyIfDeleted ==
    [][\A c \in Client :
          ClientAt(c, "unlinkGone") /\ spent' = spent /\ local'[c] # local[c]
              => Current(c) \in gone]_syncVars
=============================================================================
