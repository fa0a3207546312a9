----------------------------- MODULE SyncProofs -----------------------------
(***************************************************************************)
(* Proofs about FileSync, for any clients, users, faults and bounds: what  *)
(* the clients believe about deletions is true.                            *)
(***************************************************************************)
EXTENDS FileSync, SequenceTheorems, TLAPS

-----------------------------------------------------------------------------
(* The inductive invariant.                                                *)

Time == 0 .. MaxTime

Entry == [ts : Time, data : Nat]

Dir == UNION {[paths -> Entry] : paths \in SUBSET Path}

List == UNION {[paths -> Time] : paths \in SUBSET Path}

Asked ==
         [type : {"GetTime", "GetFileList", "GetDeletedList"}]
    \cup [type : {"GetFileByPath", "MarkAsDeleted"}, path : Path]
    \cup [type : {"SendFileToServer"}, path : Path, ts : Time, data : Nat]

Answered ==
         [type : {"FileFromClient"}]
    \cup [type : {"ServerTime"}, time : Time]
    \cup [type : {"ServerFileList"}, files : List]
    \cup [type : {"FileFromServer"}, status : {0, 1}, data : Nat]
    \cup [type : {"ServerDeletedList"}, paths : SUBSET Path]
    \cup [type : {"ServerDeletedResponse"}, status : {0, 1}]

Passes == [pc : ClientPc, remote : List, mine : List,
           deletedByUser : SUBSET Path, markedExistent : SUBSET Path,
           todo : SUBSET Path, stamp : Time, adds : {"first", "last"},
           data : Nat, unanswered : Nat]

\* What some user deleted, and what the server has or some user deleted: both
\* only ever grow.
Deleted == {p \in Path : \E c \in Client : p \in deleted[c]}

Known == DOMAIN syncRoot \cup Deleted

\* A thread and what it has read of the directory.
Worker == [pc : Step \ {"ended"}, names : SUBSET Path, list : List,
           linked : BOOLEAN]

Workers ==
    /\ handler \in [Client -> Worker]
    /\ \A c \in Client : DOMAIN handler[c].list \subseteq Known

\* The store, and the kinds of what belongs to each client.
Kinds ==
    /\ syncRoot \in Dir
    /\ mContent \subseteq Deleted
    /\ Shared \cup Remote \subseteq Known
    /\ now \in Time
    /\ Workers
    /\ inbox \in [Client -> Seq(Asked)]
    /\ waiting \in [Client -> BOOLEAN]
    /\ reply \in [Client -> Answered \cup {NoReply}]
    /\ local \in [Client -> Dir]
    /\ marked \in [Client -> SUBSET Path]
    /\ mLast \in [Client -> List]
    /\ pass \in [Client -> Passes]
    /\ spent \in [{"edits", "deletes", "timeouts", "crashes", "restarts"} -> Nat]
    /\ deleted \in [Client -> SUBSET Path]

\* A request for a deletion or for a file names what was deleted or is known.
Sincere(request) ==
    /\ request.type = "MarkAsDeleted" => request.path \in Deleted
    /\ request.type = "GetFileByPath" => request.path \in Known

\* An answer has the type that its request calls for, and is right about what
\* was deleted.
Answers(request, response) ==
    /\ request.type = "GetTime" => response.type = "ServerTime"
    /\ request.type = "GetFileList" =>
          response.type = "ServerFileList" /\ DOMAIN response.files \subseteq Known
    /\ request.type = "GetDeletedList" =>
          response.type = "ServerDeletedList" /\ response.paths \subseteq Deleted
    /\ request.type = "GetFileByPath" =>
          /\ response.type = "FileFromServer"
          /\ response.status # 0 => request.path \in Deleted

Awaiting == {"awaitTime", "awaitList", "awaitDeleted", "awaitAdded",
             "awaitDeletedList", "awaitFile"}

\* Does a client at pc that works on path wait for the answer to request?
Fits(pc, path, request) ==
    /\ pc = "awaitTime" => request.type = "GetTime"
    /\ pc = "awaitList" => request.type = "GetFileList"
    /\ pc = "awaitDeletedList" => request.type = "GetDeletedList"
    /\ pc = "awaitFile" => request.type = "GetFileByPath" /\ request.path = path

Expects(c, request) == Fits(pass[c].pc, Current(c), request)

\* The conversation of a client with its handler: the handler works on the
\* oldest request, the client waits for the answer to its newest one.
Talk(c) ==
    /\ handler[c].pc # "idle" =>
          inbox[c] # <<>> /\ Head(inbox[c]).type = Serves(handler[c].pc)
    /\ \A i \in 1 .. Len(inbox[c]) : Sincere(inbox[c][i])
    /\ waiting[c] = (pass[c].pc \in Awaiting)
    /\ waiting[c] =>
          IF reply[c] = NoReply
          THEN inbox[c] # <<>> /\ Expects(c, inbox[c][Len(inbox[c])])
          ELSE inbox[c] = <<>> /\
               \E request \in Asked : Expects(c, request) /\ Answers(request, reply[c])
    /\ ~waiting[c] => reply[c] = NoReply

\* Where the current loop is left in the middle.
HasOne == {"awaitDeleted", "stamp", "read", "awaitAdded", "unlinkGone",
           "unlinkOld", "request", "awaitFile", "save", "setTime"}

Fetching(c) ==
    IF pass[c].pc \in {"request", "awaitFile", "save"} THEN {Current(c)} ELSE {}

\* What a pass works through, and what it knows from the scan before.
Knows(c) ==
    /\ DOMAIN pass[c].remote \subseteq Known
    /\ pass[c].pc \in HasOne => pass[c].todo # {}
    /\ pass[c].pc \in {"sendDeletes", "awaitDeleted", "removeGone", "unlinkGone"}
          => pass[c].todo \subseteq Deleted
    /\ pass[c].pc \in {"download", "unlinkOld", "request", "awaitFile", "save",
                       "setTime"}
          => pass[c].todo \subseteq DOMAIN pass[c].remote
    /\ pass[c].pc = "stat" =>
          /\ DOMAIN mLast[c] \subseteq
                pass[c].todo \cup DOMAIN pass[c].mine \cup Deleted
          /\ DOMAIN pass[c].mine \subseteq DOMAIN local[c] \cup Deleted
    /\ pass[c].pc \notin {"closed", "aborted"} =>
          DOMAIN mLast[c] \subseteq DOMAIN local[c] \cup Deleted \cup Fetching(c)

SyncInv == Kinds /\ \A c \in Client : Talk(c) /\ Knows(c)

FinalIfNotRecreated == ~Recreate => Deleted \subseteq gone
-----------------------------------------------------------------------------
(* Directories and lists.                                                  *)

LEMMA DirFacts ==
    ASSUME NEW dir \in Dir
    PROVE  /\ DOMAIN dir \subseteq Path
           /\ \A p \in DOMAIN dir : dir[p] \in Entry
BY DEF Dir

LEMMA DirBuild ==
    ASSUME NEW paths \in SUBSET Path,
           NEW dir \in [paths -> Entry]
    PROVE  dir \in Dir
BY DEF Dir

LEMMA ListBuild ==
    ASSUME NEW paths \in SUBSET Path, NEW list \in [paths -> Time]
    PROVE  list \in List
BY DEF List

LEMMA ListFacts ==
    ASSUME NEW list \in List
    PROVE  /\ DOMAIN list \subseteq Path
           /\ \A p \in DOMAIN list : list[p] \in Time
BY DEF List

\* Writing a file leaves a directory,
LEMMA PutDir ==
    ASSUME NEW dir \in Dir, NEW p \in Path, NEW f \in Entry
    PROVE  Put(dir, p, f) \in Dir /\ DOMAIN Put(dir, p, f) = DOMAIN dir \cup {p}
<1>1. Put(dir, p, f) \in [DOMAIN dir \cup {p} -> Entry]
    BY DirFacts DEF Put
<1>2. QED
    BY <1>1, DirFacts, DirBuild

\* so does removing one,
LEMMA DropDir ==
    ASSUME NEW dir \in Dir, NEW p
    PROVE  Drop(dir, p) \in Dir /\ DOMAIN Drop(dir, p) = DOMAIN dir \ {p}
<1>1. Drop(dir, p) \in [DOMAIN dir \ {p} -> Entry]
    BY DirFacts DEF Drop
<1>2. QED
    BY <1>1, DirFacts, DirBuild

\* so does setting the time of one.
LEMMA StampDir ==
    ASSUME NEW dir \in Dir, NEW p \in DOMAIN dir, NEW t \in Time
    PROVE  /\ [dir EXCEPT ![p].ts = t] \in Dir
           /\ DOMAIN [dir EXCEPT ![p].ts = t] = DOMAIN dir
<1>1. [dir EXCEPT ![p].ts = t] \in [DOMAIN dir -> Entry]
    BY DirFacts DEF Entry
<1>2. QED
    BY <1>1, DirFacts, DirBuild

\* A scan that has read one more time is a list.
LEMMA PutList ==
    ASSUME NEW list \in List, NEW p \in Path, NEW t \in Time
    PROVE  Put(list, p, t) \in List /\ DOMAIN Put(list, p, t) = DOMAIN list \cup {p}
<1>1. Put(list, p, t) \in [DOMAIN list \cup {p} -> Time]
    BY ListFacts DEF Put
<1>2. QED
    BY <1>1, ListFacts, ListBuild

LEMMA NothingIsList == Nothing \in List /\ DOMAIN Nothing = {}
<1>1. Nothing \in [{} -> Time]
    BY DEF Nothing
<1>2. QED
    BY <1>1, ListBuild

\* Times are numbers, and the present is one of them.
LEMMA TimeFacts == Time \subseteq Nat /\ {0, 1, 2} \subseteq Time
BY MaxTimeAssumption, SyncAssumption DEF Time

\* The path a loop works on is one of those it still has to handle.
LEMMA CurrentIsDue ==
    ASSUME NEW c \in Client, pass[c].todo # {}
    PROVE  Current(c) \in pass[c].todo
BY DEF Current

\* It is the same as long as these are the same.
LEMMA CurrentStays ==
    ASSUME NEW c \in Client, pass'[c].todo = pass[c].todo
    PROVE  Current(c)' = Current(c)
BY DEF Current
-----------------------------------------------------------------------------
(* What a step leaves alone.                                               *)

\* The knowledge of a client outlives every step that leaves its pass alone.
LEMMA KnowsKept ==
    ASSUME SyncInv, NEW c \in Client, UNCHANGED <<pass[c], mLast[c]>>,
           DOMAIN local[c] \subseteq DOMAIN local'[c] \cup Deleted',
           Deleted \subseteq Deleted', Known \subseteq Known'
    PROVE  Knows(c)'
<1>1. Knows(c) /\ UNCHANGED <<Current(c), Fetching(c)>>
    BY CurrentStays DEF SyncInv, Fetching
<1>2. QED
    BY <1>1 DEF Knows

\* So does its conversation.
LEMMA TalkKept ==
    ASSUME SyncInv, NEW c \in Client,
           UNCHANGED <<pass[c], handler[c].pc, inbox[c], waiting[c], reply[c]>>,
           Deleted \subseteq Deleted', Known \subseteq Known'
    PROVE  Talk(c)'
<1>1. Talk(c) /\ UNCHANGED Current(c)
    BY CurrentStays DEF SyncInv
<1>2. ASSUME NEW request, Sincere(request)
      PROVE  Sincere(request)'
    BY <1>2 DEF Sincere
<1>3. ASSUME NEW request, Expects(c, request)
      PROVE  Expects(c, request)'
    BY <1>1, <1>3 DEF Expects
<1>4. ASSUME NEW request, NEW response, Answers(request, response)
      PROVE  Answers(request, response)'
    BY <1>4 DEF Answers
<1>5. QED
    BY <1>1, <1>2, <1>3, <1>4 DEF Talk
-----------------------------------------------------------------------------
(* The server's steps.                                                     *)

LEMMA ServesTable ==
    /\ Serves("GetTime") = "GetTime"
    /\ \A s \in {"GetFileList", "statFiles"} : Serves(s) = "GetFileList"
    /\ \A s \in {"GetFileByPath", "checkFile", "readFile"} :
          Serves(s) = "GetFileByPath"
    /\ \A s \in {"SendFileToServer", "writeFile", "setTime", "checkList",
                  "unlinkList", "rewriteList"} :
          Serves(s) = "SendFileToServer"
    /\ Serves("GetDeletedList") = "GetDeletedList"
    /\ \A s \in {"MarkAsDeleted", "checkMark", "mark", "saveMark", "findFile",
                  "checkGone", "unlinkFile", "answerDeleted"} :
          Serves(s) = "MarkAsDeleted"
BY DEF Serves

\* A queue without its first element.
LEMMA RestOfQueue ==
    ASSUME NEW S, NEW s \in Seq(S), s # <<>>
    PROVE  /\ Head(s) \in S /\ Head(s) = s[1] /\ Len(s) \in Nat \ {0}
           /\ Tail(s) \in Seq(S)
           /\ \A i \in 1 .. Len(Tail(s)) :
                 i + 1 \in 1 .. Len(s) /\ Tail(s)[i] = s[i + 1]
           /\ Len(s) = 1 => Tail(s) = <<>>
           /\ Len(s) # 1 => Tail(s) # <<>> /\ Tail(s)[Len(Tail(s))] = s[Len(s)]
<1>1. /\ Head(s) \in S /\ Tail(s) \in Seq(S) /\ Len(Tail(s)) = Len(s) - 1
      /\ \A i \in 1 .. Len(Tail(s)) : Tail(s)[i] = s[i + 1]
    BY HeadTailProperties
<1>2. Len(s) \in Nat \ {0}
    BY EmptySeq
<1>e. \A t \in Seq(S) : t = <<>> <=> Len(t) = 0
    BY EmptySeq
<1>3. Len(s) = 1 => Tail(s) = <<>>
  <2>1. Len(s) = 1 => Len(Tail(s)) = 0
    BY <1>1
  <2>2. QED
    BY <1>1, <1>e, <2>1, Zenon
<1>4. ASSUME Len(s) # 1
      PROVE  Tail(s) # <<>> /\ Tail(s)[Len(Tail(s))] = s[Len(s)]
  <2>1. Len(Tail(s)) \in 1 .. Len(Tail(s)) /\ Len(Tail(s)) + 1 = Len(s)
    BY <1>1, <1>2, <1>4
  <2>2. Len(Tail(s)) # 0
    BY <2>1
  <2>3. QED
    BY <1>1, <1>e, <2>1, <2>2, Zenon
<1>5. \A i \in 1 .. Len(Tail(s)) : i + 1 \in 1 .. Len(s)
    BY <1>1, <1>2
<1>6. Head(s) = s[1]
    OBVIOUS
<1>7. QED
    BY <1>1, <1>2, <1>3, <1>4, <1>5, <1>6

\* The request a thread works on has the fields that its step reads, and is
\* sincere.
LEMMA Serving ==
    ASSUME SyncInv, NEW c \in Client, handler[c].pc # "idle"
    PROVE  /\ inbox[c] \in Seq(Asked) /\ inbox[c] # <<>>
           /\ Head(inbox[c]) \in Asked
           /\ Head(inbox[c]).type = Serves(handler[c].pc)
           /\ Sincere(Head(inbox[c]))
           /\ Serves(handler[c].pc) \in {"GetFileByPath", "MarkAsDeleted",
                                         "SendFileToServer"}
                 => Requested(c) \in Path
           /\ Serves(handler[c].pc) = "SendFileToServer"
                 => Head(inbox[c]).ts \in Time /\ Head(inbox[c]).data \in Nat
<1>1. /\ inbox[c] \in Seq(Asked) /\ inbox[c] # <<>>
      /\ Head(inbox[c]).type = Serves(handler[c].pc)
      /\ \A i \in 1 .. Len(inbox[c]) : Sincere(inbox[c][i])
    BY DEF SyncInv, Kinds, Talk
<1>2. Head(inbox[c]) \in Asked /\ Sincere(Head(inbox[c]))
    BY <1>1
<1>3. QED
    BY <1>1, <1>2 DEF Requested, Asked

\* The users' history does not change in a step of the server.
LEMMA ServerKeepsDeleted ==
    ASSUME UNCHANGED userVars
    PROVE  UNCHANGED <<Deleted, deleted, spent>>
BY DEF userVars, history, Deleted

\* A step of one thread leaves the others alone,
LEMMA NewWorker ==
    ASSUME SyncInv, NEW c \in Client, NEW h \in Worker,
           handler' = [handler EXCEPT ![c] = h],
           Known \subseteq Known', DOMAIN h.list \subseteq Known'
    PROVE  /\ Workers' /\ handler'[c] = h
           /\ \A d \in Client \ {c} : handler'[d] = handler[d]
<1>1. Workers
    BY DEF SyncInv, Kinds
<1>2. /\ handler' \in [Client -> Worker] /\ handler'[c] = h
      /\ \A d \in Client \ {c} : handler'[d] = handler[d]
    BY <1>1 DEF Workers
<1>3. ASSUME NEW d \in Client
      PROVE  DOMAIN handler'[d].list \subseteq Known'
    BY <1>1, <1>2 DEF Workers
<1>4. QED
    BY <1>2, <1>3 DEF Workers

\* also when it goes to its next step, with a stream it has opened or has had
\* before,
LEMMA Moved ==
    ASSUME SyncInv, NEW c \in Client, NEW step \in Step \ {"ended"},
           \/ Goto(c, step)
           \/ handler' = [handler EXCEPT ![c].pc = step, ![c].linked = TRUE],
           Known \subseteq Known'
    PROVE  /\ Workers' /\ handler'[c].pc = step
           /\ \A d \in Client \ {c} : handler'[d] = handler[d]
<1>1. /\ handler \in [Client -> Worker] /\ handler[c] \in Worker
      /\ DOMAIN handler[c].list \subseteq Known
    BY DEF SyncInv, Kinds, Workers
<1>2. PICK linked \in BOOLEAN :
          handler' = [handler EXCEPT ![c] =
                         [handler[c] EXCEPT !.pc = step, !.linked = linked]]
  <2>1. CASE Goto(c, step)
    <3>1. [handler[c] EXCEPT !.pc = step]
             = [handler[c] EXCEPT !.pc = step, !.linked = handler[c].linked]
      BY <1>1 DEF Worker
    <3>2. handler[c].linked \in BOOLEAN
      BY <1>1 DEF Worker
    <3>3. handler' = [handler EXCEPT ![c] = [handler[c] EXCEPT !.pc = step]]
      BY <1>1, <2>1 DEF Goto
    <3>4. QED
      BY <3>1, <3>2, <3>3
  <2>2. CASE handler' = [handler EXCEPT ![c].pc = step, ![c].linked = TRUE]
    BY <1>1, <2>2
  <2>3. QED
    BY <2>1, <2>2
<1>3. DEFINE h == [handler[c] EXCEPT !.pc = step, !.linked = linked]
<1>4. h \in Worker /\ h.pc = step /\ h.list = handler[c].list
    BY <1>1 DEF Worker
<1>5. HIDE DEF h
<1>6. handler' = [handler EXCEPT ![c] = h]
    BY <1>2 DEF h
<1>7. QED
    BY <1>1, <1>4, <1>6, NewWorker

\* but for the streams that lose their file.
LEMMA Unlinked ==
    ASSUME SyncInv, NEW c \in Client, NEW step \in Step \ {"ended"}, NEW others,
           GotoUnlinking(c, step, others), Known \subseteq Known'
    PROVE  /\ Workers' /\ handler'[c].pc = step
           /\ \A d \in Client \ {c} : handler'[d].pc = handler[d].pc
<1>1. handler \in [Client -> Worker]
    BY DEF SyncInv, Kinds, Workers
<1>2. ASSUME NEW d \in Client
      PROVE  /\ handler'[d] \in Worker /\ handler'[d].list = handler[d].list
             /\ handler'[d].pc = IF d = c THEN step ELSE handler[d].pc
  <2>1. handler'[d] = IF d = c THEN [handler[d] EXCEPT !.pc = step]
                      ELSE IF d \in others THEN [handler[d] EXCEPT !.linked = FALSE]
                      ELSE handler[d]
    BY DEF GotoUnlinking
  <2>2. QED
    BY <1>1, <2>1 DEF Worker
<1>3. handler' \in [Client -> Worker]
    BY <1>2 DEF GotoUnlinking
<1>4. QED
    BY <1>2, <1>3 DEF SyncInv, Kinds, Workers

\* A step inside an action.
LEMMA InnerStep ==
    ASSUME SyncInv, NEW c \in Client,
           handler[c].pc # "idle", Workers',
           \A d \in Client \ {c} : handler'[d].pc = handler[d].pc,
           Serves(handler'[c].pc) = Serves(handler[c].pc),
           syncRoot' \in Dir, mContent' \subseteq Deleted, Known \subseteq Known',
           UNCHANGED <<now, connVars, clientVars, userVars>>
    PROVE  SyncInv'
<1>1. UNCHANGED <<Deleted, deleted, spent>>
    BY ServerKeepsDeleted
<1>2. Kinds'
    BY <1>1 DEF SyncInv, Kinds, connVars, clientVars
<1>3. ASSUME NEW d \in Client
      PROVE  Knows(d)'
    BY <1>1, KnowsKept DEF clientVars
<1>4. ASSUME NEW d \in Client \ {c}
      PROVE  Talk(d)'
    BY <1>1, TalkKept DEF clientVars, connVars
<1>5. Talk(c)'
  <2>1. Talk(c) /\ UNCHANGED Current(c)
    BY CurrentStays DEF SyncInv, clientVars
  <2>2. ASSUME NEW request, Sincere(request)
        PROVE  Sincere(request)'
    BY <1>1, <2>2 DEF Sincere
  <2>3. ASSUME NEW request
        PROVE  Expects(c, request)' = Expects(c, request)
    BY <2>1 DEF Expects, clientVars
  <2>4. ASSUME NEW request, NEW response, Answers(request, response)
        PROVE  Answers(request, response)'
    BY <1>1, <2>4 DEF Answers
  <2>5. UNCHANGED <<inbox, waiting, reply, pass>>
    BY DEF connVars, clientVars
  <2>6. QED
    BY <2>1, <2>2, <2>3, <2>4, <2>5 DEF Talk
<1>6. QED
    BY <1>2, <1>3, <1>4, <1>5 DEF SyncInv

\* The last step of an action, which answers the request.
LEMMA LastStep ==
    ASSUME SyncInv, NEW c \in Client, handler[c].pc # "idle",
           NEW response \in Answered, Answers(Head(inbox[c]), response),
           Finish(c, response),
           UNCHANGED <<syncRoot, mContent, now, clientVars, userVars>>
    PROVE  SyncInv'
<1>1. UNCHANGED <<Deleted, Known, deleted, spent>>
    BY ServerKeepsDeleted DEF Known
<1>2. /\ inbox[c] \in Seq(Asked) /\ inbox[c] # <<>> /\ Head(inbox[c]) \in Asked
      /\ Tail(inbox[c]) \in Seq(Asked)
    BY Serving, RestOfQueue
<1>i. Idle \in Worker /\ DOMAIN Idle.list = {} /\ Idle.pc = "idle"
    BY NothingIsList DEF Idle, Worker, Step
<1>3. /\ Workers' /\ handler'[c].pc = "idle"
      /\ \A d \in Client \ {c} : handler'[d] = handler[d]
    BY <1>1, <1>i, NewWorker DEF Finish
<1>4. /\ inbox' \in [Client -> Seq(Asked)] /\ inbox'[c] = Tail(inbox[c])
      /\ reply' \in [Client -> Answered \cup {NoReply}]
      /\ reply'[c] = IF waiting[c] /\ Len(inbox[c]) = 1 THEN response ELSE reply[c]
      /\ UNCHANGED waiting
      /\ \A d \in Client \ {c} : UNCHANGED <<inbox[d], reply[d]>>
    BY <1>2 DEF SyncInv, Kinds, Finish, Answer
<1>5. Kinds'
    BY <1>1, <1>3, <1>4 DEF SyncInv, Kinds, clientVars
<1>6. ASSUME NEW d \in Client
      PROVE  Knows(d)'
    BY <1>1, KnowsKept DEF clientVars
<1>7. ASSUME NEW d \in Client \ {c}
      PROVE  Talk(d)'
    BY <1>1, <1>3, <1>4, TalkKept DEF clientVars
<1>8. Talk(c)'
  <2>1. Talk(c) /\ UNCHANGED Current(c)
    BY CurrentStays DEF SyncInv, clientVars
  <2>2. ASSUME NEW request
        PROVE  /\ Sincere(request)' = Sincere(request)
               /\ Expects(c, request)' = Expects(c, request)
    BY <1>1, <2>1 DEF Sincere, Expects, clientVars
  <2>3. ASSUME NEW request, NEW r, Answers(request, r)
        PROVE  Answers(request, r)'
    BY <1>1, <2>3 DEF Answers
  <2>4. \A i \in 1 .. Len(inbox[c]) : Sincere(inbox[c][i])
    BY <2>1 DEF Talk
  <2>5. ASSUME NEW i \in 1 .. Len(inbox'[c])
        PROVE  Sincere(inbox[c][i])'
    <3>1. i + 1 \in 1 .. Len(inbox[c]) /\ inbox'[c][i] = inbox[c][i + 1]
      BY <1>2, <1>4, RestOfQueue, SMTT(30)
    <3>2. Sincere(inbox[c][i + 1])
      BY <2>4, <3>1
    <3>3. QED
      BY <2>2, <3>1, <3>2
  <2>6. UNCHANGED pass
    BY DEF clientVars
  <2>7. response # NoReply
    BY DEF Answered, NoReply
  <2>8. CASE waiting[c] /\ Len(inbox[c]) = 1
    <3>1. inbox'[c] = <<>> /\ reply'[c] = response
      BY <1>2, <1>4, <2>8, RestOfQueue
    <3>2. Head(inbox[c]) = inbox[c][Len(inbox[c])]
      BY <1>2, <2>8, RestOfQueue
    <3>3. Expects(c, Head(inbox[c])) /\ Answers(Head(inbox[c]), response)
      BY <1>2, <2>1, <2>8, <3>2 DEF Talk
    <3>4. QED
      BY <1>2, <1>3, <1>4, <2>1, <2>2, <2>3, <2>5, <2>6, <2>7, <2>8, <3>1, <3>3
         DEF Talk
  <2>9. CASE waiting[c] /\ Len(inbox[c]) # 1
    <3>1. /\ UNCHANGED reply[c] /\ inbox'[c] # <<>>
          /\ inbox'[c][Len(inbox'[c])] = inbox[c][Len(inbox[c])]
      BY <1>2, <1>4, <2>9, RestOfQueue, SMTT(30)
    <3>2. QED
      BY <1>2, <1>3, <1>4, <2>1, <2>2, <2>5, <2>6, <2>9, <3>1 DEF Talk
  <2>10. CASE ~waiting[c]
    BY <1>3, <1>4, <2>1, <2>5, <2>6, <2>10 DEF Talk
  <2>11. QED
    BY <2>8, <2>9, <2>10
<1>9. QED
    BY <1>5, <1>6, <1>7, <1>8 DEF SyncInv

\* The end of the process.
LEMMA AbortStep ==
    ASSUME SyncInv, NEW reason, Abort(reason), UNCHANGED <<clientVars, userVars>>
    PROVE  SyncInv'
<1>1. UNCHANGED <<Deleted, Known, deleted, spent>>
    BY ServerKeepsDeleted DEF Known, Abort, store
<1>2. Kinds'
    BY <1>1 DEF SyncInv, Kinds, Workers, Abort, store, connVars, clientVars
<1>3. ASSUME NEW d \in Client
      PROVE  Knows(d)' /\ Talk(d)'
    BY <1>1, KnowsKept, TalkKept DEF clientVars, connVars, Abort
<1>4. QED
    BY <1>2, <1>3 DEF SyncInv

\* A step inside an action that only moves on.
LEMMA MoveOn ==
    ASSUME SyncInv, NEW c \in Client, handler[c].pc # "idle",
           NEW step \in Step \ {"ended"}, Serves(step) = Serves(handler[c].pc),
           Goto(c, step), syncRoot' \in Dir, mContent' \subseteq Deleted,
           Known \subseteq Known',
           UNCHANGED <<now, connVars, clientVars, userVars>>
    PROVE  SyncInv'
<1>1. /\ Workers' /\ handler'[c].pc = step
      /\ \A d \in Client \ {c} : handler'[d].pc = handler[d].pc
    BY Moved
<1>2. QED
    BY <1>1, InnerStep

\* Assertions, whether they hold or not.
LEMMA AssertStep ==
    ASSUME SyncInv, NEW c \in Client, handler[c].pc # "idle", NEW ok,
           NEW step \in Step \ {"ended"}, Serves(step) = Serves(handler[c].pc),
           Assert(c, ok, step), UNCHANGED <<clientVars, userVars>>
    PROVE  SyncInv'
<1>1. CASE ok
  <2>1. Goto(c, step) /\ UNCHANGED <<store, now, connVars>>
    BY <1>1 DEF Assert
  <2>2. UNCHANGED <<syncRoot, mContent, Known>>
    BY <2>1, ServerKeepsDeleted DEF store, Known
  <2>3. syncRoot \in Dir /\ mContent \subseteq Deleted
    BY DEF SyncInv, Kinds
  <2>4. QED
    BY <2>1, <2>2, <2>3, MoveOn
<1>2. CASE ~ok
  <2>1. Abort("assertion")
    BY <1>2 DEF Assert, Abort
  <2>2. QED
    BY <2>1, AbortStep
<1>3. QED
    BY <1>1, <1>2

\* What a new file on the server does to what is known.
LEMMA KnownGrows ==
    ASSUME UNCHANGED userVars, DOMAIN syncRoot \subseteq DOMAIN syncRoot' \cup Deleted
    PROVE  Known \subseteq Known'
BY ServerKeepsDeleted DEF Known

\* Every step of the server keeps the invariant.
LEMMA ServerKeepsSyncInv ==
    ASSUME SyncInv, NEW c \in Client, ServerSteps(c)
    PROVE  SyncInv'
<1> USE DEF At
<1>k. /\ syncRoot \in Dir /\ mContent \subseteq Deleted /\ now \in Time
      /\ handler \in [Client -> Worker]
      /\ handler[c] \in Worker /\ DOMAIN handler[c].list \subseteq Known
    BY DEF SyncInv, Kinds, Workers
<1>u. UNCHANGED <<clientVars, userVars>> /\ UNCHANGED <<Deleted, deleted>>
    BY ServerKeepsDeleted DEF ServerSteps
<1>i. ASSUME handler[c].pc # "idle"
      PROVE  /\ Head(inbox[c]).type = Serves(handler[c].pc)
             /\ Sincere(Head(inbox[c]))
             /\ Serves(handler[c].pc) \in {"GetFileByPath", "MarkAsDeleted",
                                           "SendFileToServer"}
                   => Requested(c) \in Path
             /\ Serves(handler[c].pc) = "SendFileToServer"
                   => Head(inbox[c]).ts \in Time /\ Head(inbox[c]).data \in Nat
    BY <1>i, Serving
<1>s. UNCHANGED store => /\ UNCHANGED <<syncRoot, mContent>>
                         /\ Known \subseteq Known'
    BY <1>u DEF store, Known
<1>1. CASE Resolve(c)
  <2>1. Head(inbox[c]) \in Asked /\ inbox[c] # <<>>
    BY <1>1 DEF Resolve, SyncInv, Kinds
  <2>2. /\ Head(inbox[c]).type \in Step \ {"idle", "ended"}
        /\ Serves(Head(inbox[c]).type) = Head(inbox[c]).type
    BY <2>1, ServesTable DEF Asked, Step
  <2>3. /\ Workers'
        /\ \A d \in Client \ {c} : handler'[d] = handler[d]
        /\ handler'[c].pc = Head(inbox[c]).type
        /\ UNCHANGED <<store, status, now, connVars>>
    BY <1>1, <1>s, <2>2, Moved DEF Resolve
  <2>4. Kinds'
    BY <1>u, <1>s, <2>3 DEF SyncInv, Kinds, connVars, clientVars, userVars
  <2>5. ASSUME NEW d \in Client
        PROVE  Knows(d)'
    BY <1>u, <1>s, <2>3, KnowsKept DEF clientVars
  <2>6. ASSUME NEW d \in Client \ {c}
        PROVE  Talk(d)'
    BY <1>u, <1>s, <2>3, TalkKept DEF clientVars, connVars
  <2>7. Talk(c)'
    <3>1. Talk(c) /\ UNCHANGED Current(c) /\ UNCHANGED <<connVars, pass, Known>>
      BY <1>u, <1>s, <2>3, CurrentStays DEF SyncInv, clientVars, store, Known
    <3>2. ASSUME NEW request
          PROVE  /\ Sincere(request)' = Sincere(request)
                 /\ Expects(c, request)' = Expects(c, request)
      BY <1>u, <3>1 DEF Sincere, Expects
    <3>3. ASSUME NEW request, NEW r
          PROVE  Answers(request, r)' = Answers(request, r)
      BY <1>u, <3>1 DEF Answers
    <3>4. QED
      BY <2>1, <2>2, <2>3, <3>1, <3>2, <3>3 DEF Talk, connVars
  <2>8. QED
    BY <2>4, <2>5, <2>6, <2>7 DEF SyncInv
<1>2. CASE SendTimeStamp(c)
  <2>1. [type |-> "ServerTime", time |-> now] \in Answered
    BY <1>k DEF Answered
  <2>2. Answers(Head(inbox[c]), [type |-> "ServerTime", time |-> now])
    BY <1>2, <1>i, ServesTable DEF SendTimeStamp, Answers
  <2>3. QED
    BY <1>2, <1>u, <1>s, <2>1, <2>2, LastStep DEF SendTimeStamp
<1>3. CASE ListFiles(c)
  <2>1. DEFINE h == [handler[c] EXCEPT !.pc = "statFiles", !.names = DOMAIN syncRoot]
  <2>2. h \in Worker /\ h.pc = "statFiles" /\ h.list = handler[c].list
    BY <1>k, DirFacts DEF Worker, Step
  <2>3. handler' = [handler EXCEPT ![c] = h]
    BY <1>3, <1>k DEF ListFiles
  <2>4. HIDE DEF h
  <2>5. Known \subseteq Known'
    BY <1>3, <1>s DEF ListFiles
  <2>6. /\ Workers' /\ handler'[c].pc = "statFiles"
        /\ \A d \in Client \ {c} : handler'[d].pc = handler[d].pc
    BY <1>k, <2>2, <2>3, <2>5, NewWorker
  <2>7. QED
    BY <1>3, <1>k, <1>u, <1>s, <2>6, InnerStep, ServesTable DEF ListFiles
<1>4. CASE StatFile(c)
  <2>1. CASE \E reason : Abort(reason)
    BY <1>u, <2>1, AbortStep
  <2>2. ASSUME NEW p \in handler[c].names,
               handler' = [handler EXCEPT ![c].names = @ \ {p},
                              ![c].list = IF p \in DOMAIN syncRoot
                                          THEN Put(@, p, syncRoot[p].ts) ELSE @],
               UNCHANGED <<store, status, now, connVars>>
        PROVE  SyncInv'
    <3>1. DEFINE list == IF p \in DOMAIN syncRoot
                         THEN Put(handler[c].list, p, syncRoot[p].ts)
                         ELSE handler[c].list
                 h == [handler[c] EXCEPT !.names = @ \ {p}, !.list = list]
    <3>2. list \in List /\ DOMAIN list \subseteq Known
      <4>1. handler[c].list \in List /\ p \in Path
        BY <1>k DEF Worker
      <4>2. p \in DOMAIN syncRoot => syncRoot[p].ts \in Time
        BY <1>k, DirFacts DEF Entry
      <4>3. CASE p \in DOMAIN syncRoot
        <5>1. /\ Put(handler[c].list, p, syncRoot[p].ts) \in List
              /\ DOMAIN Put(handler[c].list, p, syncRoot[p].ts)
                    = DOMAIN handler[c].list \cup {p}
          BY <4>1, <4>2, <4>3, PutList
        <5>2. p \in Known
          BY <4>3 DEF Known
        <5>3. QED
          BY <1>k, <4>3, <5>1, <5>2
      <4>4. CASE p \notin DOMAIN syncRoot
        BY <1>k, <4>1, <4>4
      <4>5. QED
        BY <4>3, <4>4
    <3>3. h \in Worker /\ h.pc = handler[c].pc /\ h.list = list
      <4>1. HIDE DEF list
      <4>2. QED
        BY <1>k, <3>2 DEF Worker
    <3>4. handler' = [handler EXCEPT ![c] = h]
      BY <1>k, <2>2
    <3>5. HIDE DEF list, h
    <3>6. Known \subseteq Known'
      BY <1>s, <2>2
    <3>7. /\ Workers' /\ handler'[c].pc = handler[c].pc
          /\ \A d \in Client \ {c} : handler'[d].pc = handler[d].pc
      BY <3>2, <3>3, <3>4, <3>6, NewWorker
    <3>8. handler[c].pc # "idle"
      BY <1>4 DEF StatFile
    <3>9. QED
      BY <1>k, <1>u, <1>s, <2>2, <3>7, <3>8, InnerStep
  <2>3. QED
    BY <1>4, <2>1, <2>2 DEF StatFile
<1>4s. CASE SendFileList(c)
  <2>1. DEFINE r == [type |-> "ServerFileList", files |-> handler[c].list]
  <2>2. handler[c].list \in List
    BY <1>k DEF Worker
  <2>3. r \in Answered
    BY <2>2 DEF Answered
  <2>4. Answers(Head(inbox[c]), r)
    BY <1>4s, <1>i, <1>k, ServesTable DEF SendFileList, Answers
  <2>5. QED
    BY <1>4s, <1>u, <1>s, <2>3, <2>4, LastStep DEF SendFileList
<1>5. CASE FindRequested(c)
  <2>1. CASE Exists(c)
    BY <1>5, <1>k, <1>u, <1>s, <2>1, MoveOn, ServesTable DEF FindRequested, Step
  <2>2. CASE ~Exists(c)
    <3>1. DEFINE r == [type |-> "FileFromServer", status |-> 1, data |-> Torn]
    <3>2. r \in Answered
      BY DEF Answered, Torn
    <3>3. Head(inbox[c]).type = "GetFileByPath" /\ Head(inbox[c]).path \in Deleted
      BY <1>5, <1>i, <2>2, ServesTable
         DEF FindRequested, Sincere, Known, Exists, Requested
    <3>4. Answers(Head(inbox[c]), r)
      BY <3>3 DEF Answers
    <3>5. QED
      BY <1>5, <1>u, <1>s, <2>2, <3>2, <3>4, LastStep DEF FindRequested
  <2>3. QED
    BY <2>1, <2>2
<1>6. CASE CheckRequested(c)
    BY <1>6, <1>u, AssertStep, ServesTable DEF CheckRequested, Step
<1>7. CASE ReadRequested(c)
  <2>1. DEFINE r == [type |-> "FileFromServer", status |-> 0,
                     data |-> IF Exists(c) THEN syncRoot[Requested(c)].data ELSE Torn]
  <2>2. r \in Answered
    BY <1>k, DirFacts DEF Answered, Exists, Entry, Torn
  <2>3. Answers(Head(inbox[c]), r)
    BY <1>7, <1>i, ServesTable DEF ReadRequested, Answers
  <2>4. QED
    BY <1>7, <1>u, <1>s, <2>2, <2>3, LastStep DEF ReadRequested
<1>8. CASE TruncateFile(c)
  <2>2. Requested(c) \in Path /\ [ts |-> now, data |-> Torn] \in Entry
    BY <1>8, <1>i, <1>k, ServesTable DEF TruncateFile, Entry, Torn
  <2>3. syncRoot' \in Dir /\ DOMAIN syncRoot \subseteq DOMAIN syncRoot'
    <3>1. PICK f \in Entry :
              syncRoot' = Put(syncRoot, Requested(c), f)
      BY <1>8, <2>2 DEF TruncateFile
    <3>2. syncRoot' \in Dir
      BY <1>k, <2>2, <3>1, PutDir
    <3>3. DOMAIN syncRoot' = DOMAIN syncRoot \cup {Requested(c)}
      BY <1>k, <2>2, <3>1, PutDir
    <3>4. QED
      BY <3>2, <3>3
  <2>4. Known \subseteq Known'
    BY <1>u, <2>3, KnownGrows
  <2>5. /\ Workers' /\ handler'[c].pc = "writeFile"
        /\ \A d \in Client \ {c} : handler'[d].pc = handler[d].pc
    BY <1>8, <2>4, Moved DEF TruncateFile, Step
  <2>6. QED
    BY <1>8, <1>k, <1>u, <2>3, <2>4, <2>5, InnerStep, ServesTable DEF TruncateFile
<1>9. CASE WriteFile(c)
  <2>1. Requested(c) \in Path /\ Head(inbox[c]).data \in Nat /\ Torn \in Nat
    BY <1>9, <1>i, ServesTable DEF WriteFile, Torn
  <2>2. syncRoot' \in Dir /\ DOMAIN syncRoot \subseteq DOMAIN syncRoot'
    <3>1. CASE handler[c].linked
      <4>1. PICK d \in {Head(inbox[c]).data, Torn} :
                syncRoot' = Put(syncRoot, Requested(c), [ts |-> now, data |-> d])
        BY <1>9, <3>1 DEF WriteFile
      <4>2. PICK f \in Entry :
                syncRoot' = Put(syncRoot, Requested(c), f)
        BY <1>k, <2>1, <4>1 DEF Entry
      <4>3. syncRoot' \in Dir
        BY <1>k, <2>1, <4>2, PutDir
      <4>4. DOMAIN syncRoot' = DOMAIN syncRoot \cup {Requested(c)}
        BY <1>k, <2>1, <4>2, PutDir
      <4>5. QED
        BY <4>3, <4>4
    <3>2. CASE ~handler[c].linked
      BY <1>9, <1>k, <3>2 DEF WriteFile
    <3>3. QED
      BY <3>1, <3>2
  <2>3. QED
    BY <1>9, <1>k, <1>u, <2>2, KnownGrows, MoveOn, ServesTable DEF WriteFile, Step
<1>10. CASE SetTime(c)
  <2>1. CASE Exists(c)
    <3>1. Head(inbox[c]).ts \in Time
      BY <1>10, <1>i, ServesTable DEF SetTime
    <3>2. syncRoot' \in Dir /\ Known \subseteq Known'
      BY <1>10, <1>k, <1>u, <2>1, <3>1, StampDir, KnownGrows DEF SetTime, Exists
    <3>3. QED
      BY <1>10, <1>k, <1>u, <2>1, <3>2, MoveOn, ServesTable DEF SetTime, Step
  <2>2. CASE ~Exists(c)
    BY <1>10, <1>u, <2>2, AbortStep DEF SetTime
  <2>3. QED
    BY <2>1, <2>2
<1>11. CASE CheckList(c)
  <2>1. CASE listFile.exists
    BY <1>11, <1>k, <1>u, <2>1, MoveOn, ServesTable DEF CheckList, Step, Known
  <2>2. CASE ~listFile.exists
    BY <1>11, <1>u, <2>2, AbortStep DEF CheckList
  <2>3. QED
    BY <2>1, <2>2
<1>12. CASE UnlinkList(c)
  <2>1. Known \subseteq Known'
    BY <1>12, <1>u DEF UnlinkList, Known
  <2>2. /\ Workers' /\ handler'[c].pc = "rewriteList"
        /\ \A d \in Client \ {c} : handler'[d].pc = handler[d].pc
    BY <1>12, <2>1, Unlinked DEF UnlinkList, Step
  <2>3. QED
    BY <1>12, <1>k, <1>u, <2>1, <2>2, InnerStep, ServesTable DEF UnlinkList
<1>13. CASE RewriteList(c)
  <2>1. Answers(Head(inbox[c]), [type |-> "FileFromClient"])
    BY <1>13, <1>i, ServesTable DEF RewriteList, Answers
  <2>2. [type |-> "FileFromClient"] \in Answered
    BY DEF Answered
  <2>3. QED
    BY <1>13, <1>u, <2>1, <2>2, LastStep DEF RewriteList
<1>14. CASE GetServerDeletedList(c)
  <2>1. DEFINE r == [type |-> "ServerDeletedList", paths |-> mContent]
  <2>2. r \in Answered
    BY <1>k DEF Answered, Deleted
  <2>3. Answers(Head(inbox[c]), r)
    BY <1>14, <1>k, <1>i, ServesTable DEF GetServerDeletedList, Answers
  <2>4. QED
    BY <1>14, <1>u, <1>s, <2>2, <2>3, LastStep DEF GetServerDeletedList
<1>15. CASE OpenList(c)
  <2>1. Known \subseteq Known'
    BY <1>15, <1>u DEF OpenList, Known
  <2>2. /\ Workers' /\ handler'[c].pc = "checkMark"
        /\ \A d \in Client \ {c} : handler'[d].pc = handler[d].pc
    BY <1>15, <2>1, Moved DEF OpenList, Step
  <2>3. QED
    BY <1>15, <1>k, <1>u, <2>1, <2>2, InnerStep, ServesTable DEF OpenList
<1>15c. CASE CheckMark(c)
  <2>1. PICK step \in {"findFile", "mark"} : Goto(c, step)
    BY <1>15c DEF CheckMark
  <2>2. QED
    BY <1>15c, <1>k, <1>u, <1>s, <2>1, MoveOn, ServesTable DEF CheckMark, Step
<1>16. CASE Mark(c)
  <2>1. Requested(c) \in Deleted
    BY <1>16, <1>i, ServesTable DEF Mark, Sincere, Requested
  <2>2. QED
    BY <1>16, <1>k, <1>u, <2>1, MoveOn, ServesTable DEF Mark, Step, Known
<1>16o. CASE Overwritten(c)
  <2>1. PICK d \in Client \ {c} :
            handler[d].pc = "mark" /\ mContent' = mContent \cup {Requested(d)}
    BY <1>16o DEF Overwritten
  <2>2. Requested(d) \in Deleted
    BY <2>1, Serving, ServesTable DEF Sincere, Requested
  <2>3. QED
    BY <1>16o, <1>k, <1>u, <2>1, <2>2, MoveOn, ServesTable
       DEF Overwritten, Step, Known
<1>16s. CASE SaveMark(c)
    BY <1>16s, <1>k, <1>u, MoveOn, ServesTable DEF SaveMark, Step, Known
<1>17. CASE FindMarked(c)
  <2>1. CASE Exists(c)
    BY <1>17, <1>k, <1>u, <1>s, <2>1, MoveOn, ServesTable DEF FindMarked, Step
  <2>2. CASE ~Exists(c)
    <3>1. DEFINE r == [type |-> "ServerDeletedResponse", status |-> 1]
    <3>2. r \in Answered
      BY DEF Answered
    <3>3. Answers(Head(inbox[c]), r)
      BY <1>17, <1>i, ServesTable DEF FindMarked, Answers
    <3>4. QED
      BY <1>17, <1>u, <1>s, <2>2, <3>2, <3>3, LastStep DEF FindMarked
  <2>3. QED
    BY <2>1, <2>2
<1>18. CASE CheckMarked(c)
    BY <1>18, <1>u, AssertStep, ServesTable DEF CheckMarked, Step
<1>19. CASE UnlinkFile(c)
  <2>2. Requested(c) \in Deleted
    BY <1>19, <1>i, ServesTable DEF UnlinkFile, Sincere, Requested
  <2>3. syncRoot' \in Dir /\ Known \subseteq Known'
    BY <1>19, <1>k, <1>u, <2>2, DropDir, KnownGrows DEF UnlinkFile
  <2>4. /\ Workers' /\ handler'[c].pc = "answerDeleted"
        /\ \A d \in Client \ {c} : handler'[d].pc = handler[d].pc
    BY <1>19, <2>3, Unlinked DEF UnlinkFile, Step
  <2>5. QED
    BY <1>19, <1>k, <1>u, <2>3, <2>4, InnerStep, ServesTable DEF UnlinkFile
<1>20. CASE AnswerDeleted(c)
  <2>1. DEFINE r == [type |-> "ServerDeletedResponse", status |-> 0]
  <2>2. r \in Answered
    BY DEF Answered
  <2>3. Answers(Head(inbox[c]), r)
    BY <1>20, <1>i, ServesTable DEF AnswerDeleted, Answers
  <2>4. QED
    BY <1>20, <1>u, <1>s, <2>2, <2>3, LastStep DEF AnswerDeleted
<1>21. CASE Race(c)
    BY <1>21, <1>u, AbortStep DEF Race
<1>22. QED
    BY <1>1, <1>2, <1>3, <1>4, <1>5, <1>6, <1>7, <1>8, <1>9, <1>10, <1>11,
       <1>12, <1>13, <1>14, <1>15, <1>16, <1>17, <1>18, <1>19, <1>20, <1>21,
       <1>4s, <1>15c, <1>16o, <1>16s DEF ServerSteps, Handle
-----------------------------------------------------------------------------
(* The clients' steps.                                                     *)

\* A step of one client leaves the others and the server alone.
LEMMA ClientStep ==
    ASSUME SyncInv, NEW c \in Client, UNCHANGED <<serverVars, deleted>>,
           spent' \in [DOMAIN spent -> Nat],
           inbox' \in [Client -> Seq(Asked)], waiting' \in [Client -> BOOLEAN],
           reply' \in [Client -> Answered \cup {NoReply}],
           local' \in [Client -> Dir], marked' \in [Client -> SUBSET Path],
           mLast' \in [Client -> List], pass' \in [Client -> Passes],
           \A d \in Client \ {c} :
               UNCHANGED <<inbox[d], waiting[d], reply[d], local[d], mLast[d], pass[d]>>,
           Talk(c)', Knows(c)'
    PROVE  SyncInv'
<1>1. UNCHANGED <<Deleted, Known>>
    BY DEF Deleted, Known, serverVars, store
<1>2. Kinds'
    BY <1>1 DEF SyncInv, Kinds, Workers, serverVars, store
<1>3. ASSUME NEW d \in Client \ {c}
      PROVE  Talk(d)' /\ Knows(d)'
    BY <1>1, TalkKept, KnowsKept DEF serverVars
<1>4. QED
    BY <1>2, <1>3 DEF SyncInv

\* What does not change with the clients.
LEMMA ClientsKeepDeleted ==
    ASSUME UNCHANGED <<serverVars, deleted>>
    PROVE  /\ UNCHANGED <<Deleted, Known, handler, syncRoot, now>>
           /\ \A request : Sincere(request)' = Sincere(request)
BY DEF serverVars, store, Deleted, Known, Sincere

\* A step in which the client neither waits before nor after.
LEMMA QuietTalk ==
    ASSUME SyncInv, NEW c \in Client, UNCHANGED <<serverVars, deleted, connVars>>,
           pass[c].pc \notin Awaiting, pass'[c].pc \notin Awaiting
    PROVE  Talk(c)'
<1>1. Talk(c) /\ UNCHANGED <<inbox, waiting, reply>>
    BY DEF SyncInv, connVars
<1>2. ~waiting[c] /\ reply[c] = NoReply
    BY <1>1 DEF Talk
<1>3. QED
    BY <1>1, <1>2, ClientsKeepDeleted DEF Talk

\* A step that sends a request.
LEMMA AskTalk ==
    ASSUME SyncInv, NEW c \in Client, UNCHANGED <<serverVars, deleted>>,
           NEW request \in Asked, Sincere(request), Send(c, request),
           pass[c].pc \notin Awaiting, pass'[c].pc \in Awaiting,
           Fits(pass'[c].pc, Current(c)', request)
    PROVE  /\ Talk(c)'
           /\ inbox' \in [Client -> Seq(Asked)] /\ waiting' \in [Client -> BOOLEAN]
           /\ reply' \in [Client -> Answered \cup {NoReply}]
           /\ \A d \in Client \ {c} : UNCHANGED <<inbox[d], waiting[d], reply[d]>>
<1>1. Talk(c) /\ inbox[c] \in Seq(Asked)
    BY DEF SyncInv, Kinds
<1>2. /\ inbox' \in [Client -> Seq(Asked)] /\ waiting' \in [Client -> BOOLEAN]
      /\ reply' \in [Client -> Answered \cup {NoReply}]
      /\ inbox'[c] = Append(inbox[c], request) /\ waiting'[c] /\ UNCHANGED reply
      /\ \A d \in Client \ {c} : UNCHANGED <<inbox[d], waiting[d], reply[d]>>
    BY DEF SyncInv, Kinds, Send
<1>3. /\ Len(inbox'[c]) = Len(inbox[c]) + 1 /\ inbox'[c] # <<>>
      /\ inbox'[c][Len(inbox'[c])] = request
      /\ \A i \in 1 .. Len(inbox[c]) : inbox'[c][i] = inbox[c][i]
      /\ inbox[c] # <<>> => Head(inbox'[c]) = Head(inbox[c])
    BY <1>1, <1>2
<1>4. \A i \in 1 .. Len(inbox'[c]) : Sincere(inbox[c][i])'
  <2>1. Len(inbox[c]) \in Nat
    BY <1>1
  <2>2. ASSUME NEW i \in 1 .. Len(inbox'[c])
        PROVE  i \in 1 .. Len(inbox[c]) \/ i = Len(inbox'[c])
    BY <1>3, <2>1, <2>2
  <2>3. QED
    BY <1>1, <1>3, <2>2, ClientsKeepDeleted DEF Talk
<1>5. ~waiting[c] /\ reply'[c] = NoReply
    BY <1>1, <1>2 DEF Talk
<1>6. Talk(c)'
    BY <1>1, <1>2, <1>3, <1>4, <1>5, ClientsKeepDeleted DEF Talk, Expects
<1>7. QED
    BY <1>2, <1>6

\* A step that takes an answer, or one that does without it: the client waits
\* no longer.
LEMMA HangUpTalk ==
    ASSUME SyncInv, NEW c \in Client, UNCHANGED <<serverVars, deleted>>,
           HangUp(c), pass'[c].pc \notin Awaiting
    PROVE  /\ Talk(c)'
           /\ inbox' \in [Client -> Seq(Asked)] /\ waiting' \in [Client -> BOOLEAN]
           /\ reply' \in [Client -> Answered \cup {NoReply}]
           /\ \A d \in Client \ {c} : UNCHANGED <<inbox[d], waiting[d], reply[d]>>
<1>1. Talk(c)
    BY DEF SyncInv
<1>2. /\ inbox' \in [Client -> Seq(Asked)] /\ waiting' \in [Client -> BOOLEAN]
      /\ reply' \in [Client -> Answered \cup {NoReply}]
      /\ UNCHANGED inbox /\ ~waiting'[c] /\ reply'[c] = NoReply
      /\ \A d \in Client \ {c} : UNCHANGED <<inbox[d], waiting[d], reply[d]>>
    BY DEF SyncInv, Kinds, HangUp
<1>3. Talk(c)'
    BY <1>1, <1>2, ClientsKeepDeleted DEF Talk
<1>4. QED
    BY <1>2, <1>3

\* The answer a client can take is the one it waited for.
LEMMA ArrivedAnswer ==
    ASSUME SyncInv, NEW c \in Client, Arrived(c)
    PROVE  /\ pass[c].pc \in Awaiting
           /\ reply[c] \in Answered
           /\ pass[c].pc = "awaitTime" => reply[c].type = "ServerTime"
           /\ pass[c].pc = "awaitList" =>
                 reply[c].type = "ServerFileList" /\ DOMAIN reply[c].files \subseteq Known
           /\ pass[c].pc = "awaitDeletedList" =>
                 reply[c].type = "ServerDeletedList" /\ reply[c].paths \subseteq Deleted
           /\ pass[c].pc = "awaitFile" =>
                 /\ reply[c].type = "FileFromServer"
                 /\ reply[c].status # 0 => Current(c) \in Deleted
<1>1. Talk(c) /\ waiting[c] /\ reply[c] # NoReply
    BY DEF SyncInv, Arrived
<1>2. PICK request \in Asked : Expects(c, request) /\ Answers(request, reply[c])
    BY <1>1 DEF Talk
<1>3. reply[c] \in Answered /\ pass[c].pc \in Awaiting
    BY <1>1 DEF SyncInv, Kinds, Talk
<1>4. QED
    BY <1>1, <1>2, <1>3 DEF Expects, Fits, Answers

LEMMA TakenAnswer ==
    ASSUME SyncInv, NEW c \in Client, Receive(c)
    PROVE  /\ HangUp(c) /\ pass[c].pc \in Awaiting
           /\ reply[c] \in Answered
           /\ pass[c].pc = "awaitTime" => reply[c].type = "ServerTime"
           /\ pass[c].pc = "awaitList" =>
                 reply[c].type = "ServerFileList" /\ DOMAIN reply[c].files \subseteq Known
           /\ pass[c].pc = "awaitDeletedList" =>
                 reply[c].type = "ServerDeletedList" /\ reply[c].paths \subseteq Deleted
           /\ pass[c].pc = "awaitFile" =>
                 /\ reply[c].type = "FileFromServer"
                 /\ reply[c].status # 0 => Current(c) \in Deleted
<1>1. Arrived(c) /\ HangUp(c)
    BY DEF Receive, HangUp
<1>2. QED
    BY <1>1, ArrivedAnswer

\* What belongs to a client besides its connection has its kind.
ClientKinds ==
    /\ local \in [Client -> Dir]
    /\ marked \in [Client -> SUBSET Path]
    /\ mLast \in [Client -> List]
    /\ pass \in [Client -> Passes]

OthersRest(c) == \A d \in Client \ {c} : UNCHANGED <<local[d], mLast[d], pass[d]>>

\* The three kinds of steps a client makes.
LEMMA QuietStep ==
    ASSUME SyncInv, NEW c \in Client,
           UNCHANGED <<serverVars, deleted, spent, connVars>>,
           pass[c].pc \notin Awaiting, pass'[c].pc \notin Awaiting,
           ClientKinds', OthersRest(c), Knows(c)'
    PROVE  SyncInv'
<1>1. /\ inbox' \in [Client -> Seq(Asked)] /\ waiting' \in [Client -> BOOLEAN]
      /\ reply' \in [Client -> Answered \cup {NoReply}]
      /\ spent' \in [DOMAIN spent -> Nat] /\ UNCHANGED <<inbox, waiting, reply>>
    BY DEF SyncInv, Kinds, connVars
<1>2. QED
    BY <1>1, QuietTalk, ClientStep DEF ClientKinds, OthersRest

LEMMA AskStep ==
    ASSUME SyncInv, NEW c \in Client, UNCHANGED <<serverVars, deleted, spent>>,
           NEW request \in Asked, Sincere(request), Send(c, request),
           pass[c].pc \notin Awaiting, pass'[c].pc \in Awaiting,
           Fits(pass'[c].pc, Current(c)', request),
           ClientKinds', OthersRest(c), Knows(c)'
    PROVE  SyncInv'
<1>1. spent' \in [DOMAIN spent -> Nat]
    BY DEF SyncInv, Kinds
<1>2. QED
    BY <1>1, AskTalk, ClientStep DEF ClientKinds, OthersRest

LEMMA TakeStep ==
    ASSUME SyncInv, NEW c \in Client, UNCHANGED <<serverVars, deleted>>,
           spent' \in [DOMAIN spent -> Nat], HangUp(c),
           pass'[c].pc \notin Awaiting, ClientKinds', OthersRest(c), Knows(c)'
    PROVE  SyncInv'
BY HangUpTalk, ClientStep DEF ClientKinds, OthersRest

\* What a client's step may make of its pass.
LEMMA PassKinds ==
    ASSUME SyncInv, NEW c \in Client
    PROVE  pass \in [Client -> Passes] /\ pass[c] \in Passes
BY DEF SyncInv, Kinds

LEMMA LoopPass ==
    ASSUME SyncInv, NEW c \in Client, NEW pc \in ClientPc, NEW todo \in SUBSET Path,
           Loop(c, pc, todo)
    PROVE  /\ pass' \in [Client -> Passes]
           /\ pass'[c].pc = pc /\ pass'[c].todo = todo
           /\ pass'[c].remote = pass[c].remote
           /\ \A d \in Client \ {c} : pass'[d] = pass[d]
<1>1. pass \in [Client -> Passes] /\ pass[c] \in Passes
    BY PassKinds
<1>2. DEFINE p == [pass[c] EXCEPT !.pc = pc, !.todo = todo]
<1>3. p \in Passes /\ p.pc = pc /\ p.todo = todo /\ p.remote = pass[c].remote
    BY <1>1 DEF Passes
<1>4. pass' = [pass EXCEPT ![c] = p]
    BY <1>1 DEF Loop
<1>5. QED
    BY <1>1, <1>3, <1>4

LEMMA MovePass ==
    ASSUME SyncInv, NEW c \in Client, NEW pc \in ClientPc, Move(c, pc)
    PROVE  /\ pass' \in [Client -> Passes]
           /\ pass'[c].pc = pc /\ pass'[c].todo = pass[c].todo
           /\ pass'[c].remote = pass[c].remote
           /\ Current(c)' = Current(c)
           /\ \A d \in Client \ {c} : pass'[d] = pass[d]
<1>1. pass \in [Client -> Passes] /\ pass[c] \in Passes
    BY PassKinds
<1>2. DEFINE p == [pass[c] EXCEPT !.pc = pc]
<1>3. /\ p \in Passes /\ p.pc = pc /\ p.todo = pass[c].todo
      /\ p.remote = pass[c].remote
    BY <1>1 DEF Passes
<1>4. pass' = [pass EXCEPT ![c] = p]
    BY <1>1 DEF Move
<1>5. /\ pass' \in [Client -> Passes] /\ pass'[c] = p
      /\ \A d \in Client \ {c} : pass'[d] = pass[d]
    BY <1>1, <1>3, <1>4
<1>6. QED
    BY <1>3, <1>5, CurrentStays

\* A pass that has just begun, or that is over.
LEMMA NewPassKnows ==
    ASSUME NEW pc \in {"start", "idle", "closed", "aborted"}, NEW n \in Nat
    PROVE  LET p == [NewPass EXCEPT !.pc = pc, !.unanswered = n]
           IN  p \in Passes /\ p.pc = pc /\ p.todo = {} /\ DOMAIN p.remote = {}
BY NothingIsList, TimeFacts DEF NewPass, Passes, ClientPc, Torn

LEMMA ExitPass ==
    ASSUME SyncInv, NEW c \in Client, NEW pc \in {"closed", "aborted"}, Exit(c, pc)
    PROVE  /\ pass' \in [Client -> Passes] /\ pass'[c].pc = pc
           /\ \A d \in Client \ {c} : pass'[d] = pass[d]
           /\ Knows(c)'
<1>1. Len(inbox[c]) \in Nat /\ pass \in [Client -> Passes]
    BY DEF SyncInv, Kinds
<1>2. /\ Disconnected(pc, inbox[c]) \in Passes
      /\ Disconnected(pc, inbox[c]).pc = pc
      /\ Disconnected(pc, inbox[c]).todo = {}
      /\ DOMAIN Disconnected(pc, inbox[c]).remote = {}
    BY <1>1, NewPassKnows DEF Disconnected
<1>3. /\ pass' \in [Client -> Passes] /\ pass'[c] = Disconnected(pc, inbox[c])
      /\ \A d \in Client \ {c} : pass'[d] = pass[d]
    BY <1>1, <1>2 DEF Exit
<1>4. QED
    BY <1>2, <1>3 DEF Knows, HasOne

\* The knowledge of a client that goes on with its pass and leaves its
\* directory alone.
LEMMA KnowsNext ==
    ASSUME SyncInv, NEW c \in Client,
           UNCHANGED <<serverVars, deleted, local[c], mLast[c]>>,
           pass[c].pc \notin {"closed", "aborted"},
           Fetching(c) \subseteq Fetching(c)',
           pass'[c].remote = pass[c].remote,
           pass'[c].pc \in HasOne => pass'[c].todo # {},
           pass'[c].pc \in {"sendDeletes", "awaitDeleted", "removeGone", "unlinkGone"}
              => pass'[c].todo \subseteq Deleted,
           pass'[c].pc \in {"download", "unlinkOld", "request", "awaitFile",
                            "save", "setTime"}
              => pass'[c].todo \subseteq DOMAIN pass[c].remote,
           pass'[c].pc = "stat" =>
              /\ DOMAIN mLast[c] \subseteq
                    pass'[c].todo \cup DOMAIN pass'[c].mine \cup Deleted
              /\ DOMAIN pass'[c].mine \subseteq DOMAIN local[c] \cup Deleted
    PROVE  Knows(c)'
BY ClientsKeepDeleted DEF SyncInv, Knows

\* A client in the middle of a loop works on a path of the right kind.
LEMMA CurrentFacts ==
    ASSUME SyncInv, NEW c \in Client
    PROVE  /\ pass[c].pc \in ClientPc
           /\ pass[c].todo \in SUBSET Path
           /\ pass[c].remote \in List
           /\ pass[c].todo \ {Current(c)} \in SUBSET Path
           /\ pass[c].todo # {} => Current(c) \in Path /\ Current(c) \in pass[c].todo
           /\ HasCurrent(c) => local[c][Current(c)] \in Entry
<1>1. pass[c] \in Passes /\ local[c] \in Dir
    BY DEF SyncInv, Kinds
<1>2. /\ pass[c].pc \in ClientPc /\ pass[c].todo \in SUBSET Path
      /\ pass[c].remote \in List
    BY <1>1 DEF Passes
<1>3. HasCurrent(c) => local[c][Current(c)] \in Entry
    BY <1>1, DirFacts DEF HasCurrent
<1>4. QED
    BY <1>2, <1>3, CurrentIsDue

\* A step that sends a request leaves the rest of the client alone.
LEMMA AskMove ==
    ASSUME SyncInv, NEW c \in Client,
           UNCHANGED <<serverVars, deleted, spent, local, marked, mLast>>,
           NEW request \in Asked, Sincere(request), NEW pc \in Awaiting,
           Ask(c, request, pc), Fits(pc, Current(c), request),
           pass[c].pc \notin Awaiting \cup {"closed", "aborted", "save"},
           pass[c].pc = "request" => pc = "awaitFile",
           pc \in HasOne => pass[c].todo # {},
           pc = "awaitDeleted" => pass[c].todo \subseteq Deleted,
           pc = "awaitFile" => pass[c].todo \subseteq DOMAIN pass[c].remote
    PROVE  SyncInv'
<1>1. pc \in ClientPc /\ Move(c, pc) /\ Send(c, request)
    BY DEF Ask, Awaiting, ClientPc
<1>2. /\ pass' \in [Client -> Passes]
      /\ pass'[c].pc = pc /\ pass'[c].todo = pass[c].todo
      /\ pass'[c].remote = pass[c].remote
      /\ Current(c)' = Current(c)
      /\ \A d \in Client \ {c} : pass'[d] = pass[d]
    BY <1>1, MovePass
<1>3. Knows(c)'
  <2>1. Fetching(c) \subseteq Fetching(c)'
    BY <1>2 DEF Fetching, Awaiting
  <2>2. QED
    BY <1>2, <2>1, KnowsNext DEF Awaiting
<1>4. ClientKinds' /\ OthersRest(c)
    BY <1>2 DEF ClientKinds, OthersRest, SyncInv, Kinds
<1>5. QED
    BY <1>1, <1>2, <1>3, <1>4, AskStep

\* A quiet step that only moves on in the pass.
LEMMA QuietMove ==
    ASSUME SyncInv, NEW c \in Client,
           UNCHANGED <<serverVars, deleted, spent, connVars, local, mLast>>,
           marked' \in [Client -> SUBSET Path],
           pass[c].pc \notin Awaiting \cup {"closed", "aborted", "request", "save"},
           pass' \in [Client -> Passes], pass'[c].pc \notin Awaiting,
           \A d \in Client \ {c} : pass'[d] = pass[d],
           pass'[c].remote = pass[c].remote,
           pass'[c].pc \in HasOne => pass'[c].todo # {},
           pass'[c].pc \in {"sendDeletes", "awaitDeleted", "removeGone", "unlinkGone"}
              => pass'[c].todo \subseteq Deleted,
           pass'[c].pc \in {"download", "unlinkOld", "request", "awaitFile",
                            "save", "setTime"}
              => pass'[c].todo \subseteq DOMAIN pass[c].remote,
           pass'[c].pc = "stat" =>
              /\ DOMAIN mLast[c] \subseteq
                    pass'[c].todo \cup DOMAIN pass'[c].mine \cup Deleted
              /\ DOMAIN pass'[c].mine \subseteq DOMAIN local[c] \cup Deleted
    PROVE  SyncInv'
<1>1. Fetching(c) \subseteq Fetching(c)'
    BY DEF Fetching, Awaiting
<1>2. Knows(c)'
    BY <1>1, KnowsNext
<1>3. ClientKinds' /\ OthersRest(c)
    BY DEF ClientKinds, OthersRest, SyncInv, Kinds
<1>4. QED
    BY <1>2, <1>3, QuietStep

\* A step that ends the client.
LEMMA QuietExit ==
    ASSUME SyncInv, NEW c \in Client,
           UNCHANGED <<serverVars, deleted, spent, connVars, local, marked, mLast>>,
           pass[c].pc \notin Awaiting, NEW pc \in {"closed", "aborted"}, Exit(c, pc)
    PROVE  SyncInv'
<1>1. /\ pass' \in [Client -> Passes] /\ pass'[c].pc \notin Awaiting
      /\ \A d \in Client \ {c} : pass'[d] = pass[d]
      /\ Knows(c)'
    BY ExitPass DEF Awaiting
<1>2. ClientKinds' /\ OthersRest(c)
    BY <1>1 DEF ClientKinds, OthersRest, SyncInv, Kinds
<1>3. QED
    BY <1>1, <1>2, QuietStep

\* A step that takes an answer, or does without one, and goes on.
LEMMA TakeMove ==
    ASSUME SyncInv, NEW c \in Client,
           UNCHANGED <<serverVars, deleted, local, mLast>>,
           spent' \in [DOMAIN spent -> Nat], HangUp(c),
           marked' \in [Client -> SUBSET Path],
           pass[c].pc \in Awaiting,
           pass' \in [Client -> Passes], pass'[c].pc \notin Awaiting,
           \A d \in Client \ {c} : pass'[d] = pass[d],
           Knows(c)'
    PROVE  SyncInv'
<1>1. ClientKinds' /\ OthersRest(c)
    BY DEF ClientKinds, OthersRest, SyncInv, Kinds
<1>2. QED
    BY <1>1, TakeStep

\* Replacing the pass of one client.
LEMMA NewPassOf ==
    ASSUME SyncInv, NEW c \in Client, NEW p \in Passes,
           pass' = [pass EXCEPT ![c] = p]
    PROVE  /\ pass' \in [Client -> Passes] /\ pass'[c] = p
           /\ \A d \in Client \ {c} : pass'[d] = pass[d]
BY PassKinds

\* Replacing the directory of one client.
LEMMA NewDirOf ==
    ASSUME SyncInv, NEW c \in Client, NEW dir \in Dir,
           local' = [local EXCEPT ![c] = dir]
    PROVE  /\ local' \in [Client -> Dir] /\ local'[c] = dir
           /\ \A d \in Client \ {c} : local'[d] = local[d]
BY DEF SyncInv, Kinds

LEMMA ClientKeepsSyncInv ==
    ASSUME SyncInv, NEW c \in Client, ClientSteps(c)
    PROVE  SyncInv'
<1>u. /\ UNCHANGED <<serverVars, deleted, spent>>
      /\ spent' \in [DOMAIN spent -> Nat]
    BY DEF ClientSteps, userVars, history, SyncInv, Kinds
<1>k. /\ pass \in [Client -> Passes] /\ pass[c] \in Passes
      /\ local \in [Client -> Dir] /\ local[c] \in Dir
      /\ mLast \in [Client -> List] /\ mLast[c] \in List
      /\ marked \in [Client -> SUBSET Path]
      /\ now \in Time /\ Knows(c)
    BY PassKinds DEF SyncInv, Kinds
<1>c. /\ pass[c].pc \in ClientPc
      /\ pass[c].todo \in SUBSET Path
      /\ pass[c].remote \in List
      /\ pass[c].todo \ {Current(c)} \in SUBSET Path
      /\ pass[c].todo # {} => Current(c) \in Path /\ Current(c) \in pass[c].todo
      /\ HasCurrent(c) => local[c][Current(c)] \in Entry
    BY CurrentFacts
<1>d. UNCHANGED <<Deleted, Known>>
    BY <1>u, ClientsKeepDeleted
<1>1. CASE AskTime(c)
  <2>1. DEFINE p == [pass[c] EXCEPT !.pc = "awaitTime", !.stamp = now]
  <2>2. /\ p \in Passes /\ p.pc = "awaitTime" /\ p.todo = pass[c].todo
        /\ p.remote = pass[c].remote
    BY <1>k DEF Passes, ClientPc
  <2>3. pass' = [pass EXCEPT ![c] = p]
    BY <1>1, <1>k DEF AskTime
  <2>4. /\ pass' \in [Client -> Passes] /\ pass'[c] = p
        /\ \A d \in Client \ {c} : pass'[d] = pass[d]
    BY <2>2, <2>3, NewPassOf
  <2>5. Knows(c)'
    <3>1. Fetching(c) \subseteq Fetching(c)'
      BY <1>1 DEF AskTime, ClientAt, Fetching
    <3>2. QED
      BY <1>1, <1>u, <2>2, <2>4, <3>1, KnowsNext DEF AskTime, ClientAt, HasOne
  <2>6. DEFINE r == [type |-> "GetTime"]
  <2>7. r \in Asked /\ Sincere(r) /\ Fits(pass'[c].pc, Current(c)', r)
    BY <2>2, <2>4 DEF Asked, Sincere, Fits
  <2>8. ClientKinds' /\ OthersRest(c)
    BY <1>1, <1>k, <2>4 DEF AskTime, ClientKinds, OthersRest
  <2>9. QED
    BY <1>1, <1>u, <2>2, <2>4, <2>5, <2>7, <2>8, AskStep
       DEF AskTime, ClientAt, Awaiting
<1>2. CASE CheckTimeDiff(c)
  <2>1. HangUp(c)
    BY <1>2, TakenAnswer DEF CheckTimeDiff
  <2>2. CASE reply[c].time - pass[c].stamp > MaxTimeOffset
    <3>1. Exit(c, "closed")
      BY <1>2, <2>2 DEF CheckTimeDiff
    <3>2. /\ pass' \in [Client -> Passes] /\ pass'[c].pc = "closed"
          /\ \A d \in Client \ {c} : pass'[d] = pass[d]
          /\ Knows(c)'
      BY <3>1, ExitPass
    <3>3. QED
      BY <1>2, <1>u, <1>k, <2>1, <3>2, TakeMove DEF CheckTimeDiff, ClientAt, Awaiting
  <2>3. CASE ~(reply[c].time - pass[c].stamp > MaxTimeOffset)
    <3>1. DEFINE p == [pass[c] EXCEPT !.pc = "top", !.stamp = 0]
    <3>2. /\ p \in Passes /\ p.pc = "top" /\ p.todo = pass[c].todo
          /\ p.remote = pass[c].remote
      BY <1>k, TimeFacts DEF Passes, ClientPc
    <3>3. pass' = [pass EXCEPT ![c] = p]
      BY <1>2, <1>k, <2>3 DEF CheckTimeDiff
    <3>4. /\ pass' \in [Client -> Passes] /\ pass'[c] = p
          /\ \A d \in Client \ {c} : pass'[d] = pass[d]
      BY <3>2, <3>3, NewPassOf
    <3>5. Fetching(c) \subseteq Fetching(c)'
      BY <1>2 DEF CheckTimeDiff, ClientAt, Fetching
    <3>6. Knows(c)'
      BY <1>2, <1>u, <3>2, <3>4, <3>5, KnowsNext DEF CheckTimeDiff, ClientAt, HasOne
    <3>7. QED
      BY <1>2, <1>u, <1>k, <2>1, <3>2, <3>4, <3>6, TakeMove
         DEF CheckTimeDiff, ClientAt, Awaiting
  <2>4. QED
    BY <2>2, <2>3
<1>3. CASE AskFileList(c)
  <2>1. DEFINE r == [type |-> "GetFileList"]
  <2>2. r \in Asked /\ Sincere(r) /\ Fits("awaitList", Current(c), r)
    BY DEF Asked, Sincere, Fits
  <2>3. QED
    BY <1>3, <1>u, <2>2, AskMove DEF AskFileList, ClientAt, Awaiting, HasOne
<1>4. CASE TakeFileList(c)
  <2>1. /\ HangUp(c) /\ reply[c].type = "ServerFileList"
        /\ DOMAIN reply[c].files \subseteq Known /\ reply[c] \in Answered
    BY <1>4, TakenAnswer DEF TakeFileList, ClientAt
  <2>2. reply[c].files \in List
    BY <2>1 DEF Answered
  <2>3. DEFINE p == [pass[c] EXCEPT !.pc = "scan", !.remote = reply[c].files]
  <2>4. /\ p \in Passes /\ p.pc = "scan" /\ p.todo = pass[c].todo
        /\ p.remote = reply[c].files
    BY <1>k, <2>2 DEF Passes, ClientPc
  <2>5. pass' = [pass EXCEPT ![c] = p]
    BY <1>4, <1>k DEF TakeFileList
  <2>6. /\ pass' \in [Client -> Passes] /\ pass'[c] = p
        /\ \A d \in Client \ {c} : pass'[d] = pass[d]
    BY <2>4, <2>5, NewPassOf
  <2>7. Fetching(c) = {}
    BY <1>4 DEF TakeFileList, ClientAt, Fetching
  <2>8. Knows(c)'
    BY <1>4, <1>d, <1>k, <2>1, <2>4, <2>6, <2>7
       DEF TakeFileList, ClientAt, Knows, HasOne
  <2>9. QED
    BY <1>4, <1>u, <1>k, <2>1, <2>4, <2>6, <2>8, TakeMove
       DEF TakeFileList, ClientAt, Awaiting
<1>5. CASE ScanNames(c)
  <2>1. DOMAIN local[c] \in SUBSET Path
    BY <1>k, DirFacts
  <2>2. DEFINE p == [pass[c] EXCEPT !.pc = "stat", !.todo = DOMAIN local[c],
                                    !.mine = Nothing]
  <2>3. /\ p \in Passes /\ p.pc = "stat" /\ p.todo = DOMAIN local[c]
        /\ p.remote = pass[c].remote /\ DOMAIN p.mine = {}
    BY <1>k, <2>1, NothingIsList DEF Passes, ClientPc
  <2>4. pass' = [pass EXCEPT ![c] = p]
    BY <1>5, <1>k DEF ScanNames
  <2>5. HIDE DEF p
  <2>6. /\ pass' \in [Client -> Passes] /\ pass'[c] = p
        /\ \A d \in Client \ {c} : pass'[d] = pass[d]
    BY <2>3, <2>4, NewPassOf
  <2>7. DOMAIN mLast[c] \subseteq DOMAIN local[c] \cup Deleted
    BY <1>5, <1>k DEF ScanNames, ClientAt, Knows, Fetching
  <2>8. QED
    BY <1>5, <1>u, <1>k, <2>3, <2>6, <2>7, QuietMove
       DEF ScanNames, ClientAt, Awaiting, HasOne
<1>6. CASE ScanTime(c)
  <2>1. CASE Exit(c, "aborted")
    BY <1>6, <1>u, <2>1, QuietExit DEF ScanTime, ClientAt, Awaiting
  <2>2. CASE ~Exit(c, "aborted")
    <3>1. DEFINE mine == IF HasCurrent(c)
                         THEN Put(pass[c].mine, Current(c), local[c][Current(c)].ts)
                         ELSE pass[c].mine
                 p == [pass[c] EXCEPT !.todo = @ \ {Current(c)}, !.mine = mine]
    <3>2. Current(c) \in Path /\ Current(c) \in pass[c].todo
      BY <1>6, <1>c DEF ScanTime, LoopDone
    <3>3. /\ mine \in List
          /\ DOMAIN mine = IF HasCurrent(c) THEN DOMAIN pass[c].mine \cup {Current(c)}
                           ELSE DOMAIN pass[c].mine
      <4>1. pass[c].mine \in List
        BY <1>k DEF Passes
      <4>2. HasCurrent(c) => local[c][Current(c)].ts \in Time
        BY <1>c DEF Entry
      <4>3. QED
        BY <3>2, <4>1, <4>2, PutList
    <3>4. /\ p \in Passes /\ p.pc = "stat" /\ p.remote = pass[c].remote
          /\ p.todo = pass[c].todo \ {Current(c)} /\ p.mine = mine
      <4>1. HIDE DEF mine
      <4>2. QED
        BY <1>6, <1>k, <1>c, <3>3 DEF ScanTime, ClientAt, Passes
    <3>5. pass' = [pass EXCEPT ![c] = p]
      BY <1>6, <1>k, <2>2 DEF ScanTime
    <3>6. HIDE DEF mine, p
    <3>7. /\ pass' \in [Client -> Passes] /\ pass'[c] = p
          /\ \A d \in Client \ {c} : pass'[d] = pass[d]
      BY <3>4, <3>5, NewPassOf
    <3>8. /\ DOMAIN mLast[c] \subseteq
                pass[c].todo \cup DOMAIN pass[c].mine \cup Deleted
          /\ DOMAIN pass[c].mine \subseteq DOMAIN local[c] \cup Deleted
          /\ DOMAIN mLast[c] \subseteq DOMAIN local[c] \cup Deleted
      BY <1>6, <1>k DEF ScanTime, ClientAt, Knows, Fetching
    <3>9. /\ DOMAIN mLast[c] \subseteq p.todo \cup DOMAIN p.mine \cup Deleted
          /\ DOMAIN p.mine \subseteq DOMAIN local[c] \cup Deleted
      BY <3>3, <3>4, <3>8 DEF HasCurrent
    <3>10. QED
      BY <1>6, <1>u, <1>k, <3>4, <3>7, <3>9, QuietMove
         DEF ScanTime, ClientAt, Awaiting, HasOne
  <2>3. QED
    BY <2>1, <2>2
<1>6c. CASE CompareScans(c)
  <2>1. DEFINE lost     == markAsDeleted(c, getDeletedSince(pass[c].mine, mLast[c]))
               existent == markAsExistent(c, getAddedSince(pass[c].mine, mLast[c]))
               p == [pass[c] EXCEPT
                       !.pc = "sendDeletes",
                       !.deletedByUser = lost, !.markedExistent = existent,
                       !.todo = lost \cap DOMAIN pass[c].remote]
  <2>2. pass[c].mine \in List /\ pass[c].todo = {}
    BY <1>6c, <1>k DEF CompareScans, LoopDone, Passes
  <2>3. /\ DOMAIN mLast[c] \subseteq DOMAIN pass[c].mine \cup Deleted
        /\ DOMAIN pass[c].mine \subseteq DOMAIN local[c] \cup Deleted
    BY <1>6c, <1>k, <2>2 DEF CompareScans, ClientAt, Knows
  <2>4. lost \subseteq Deleted /\ lost \in SUBSET Path
    BY <2>3 DEF markAsDeleted, getDeletedSince, Deleted
  <2>5. existent \in SUBSET Path
    BY <1>k DEF markAsExistent
  <2>6. /\ p \in Passes /\ p.pc = "sendDeletes" /\ p.remote = pass[c].remote
        /\ p.todo = lost \cap DOMAIN pass[c].remote
    <3>1. lost \cap DOMAIN pass[c].remote \in SUBSET Path
      BY <2>4
    <3>2. HIDE DEF lost, existent
    <3>3. QED
      BY <1>k, <2>4, <2>5, <3>1 DEF Passes, ClientPc
  <2>7. /\ pass' = [pass EXCEPT ![c] = p]
        /\ mLast' = [mLast EXCEPT ![c] = pass[c].mine]
        /\ marked' = [marked EXCEPT ![c] = (@ \cup lost) \ existent]
    BY <1>6c, <1>k DEF CompareScans
  <2>8. HIDE DEF lost, existent, p
  <2>9. /\ pass' \in [Client -> Passes] /\ pass'[c] = p
        /\ \A d \in Client \ {c} : pass'[d] = pass[d]
    BY <2>6, <2>7, NewPassOf
  <2>10. /\ mLast' \in [Client -> List] /\ mLast'[c] = pass[c].mine
         /\ \A d \in Client \ {c} : mLast'[d] = mLast[d]
    BY <1>k, <2>2, <2>7
  <2>11. marked' \in [Client -> SUBSET Path]
    BY <1>k, <2>4, <2>7
  <2>12. Knows(c)'
    <3>1. DOMAIN mLast'[c] \subseteq DOMAIN local'[c] \cup Deleted
      BY <1>6c, <2>3, <2>10 DEF CompareScans
    <3>2. pass'[c].pc = "sendDeletes" /\ pass'[c].todo \subseteq Deleted
      BY <2>4, <2>6, <2>9
    <3>3. DOMAIN pass'[c].remote \subseteq Known
      BY <1>k, <2>6, <2>9 DEF Knows
    <3>4. QED
      BY <1>d, <3>1, <3>2, <3>3 DEF Knows, HasOne
  <2>13. ClientKinds' /\ OthersRest(c)
    BY <1>6c, <1>k, <2>9, <2>10, <2>11 DEF CompareScans, ClientKinds, OthersRest
  <2>14. QED
    BY <1>6c, <1>u, <2>6, <2>9, <2>12, <2>13, QuietStep
       DEF CompareScans, ClientAt, Awaiting
<1>7. CASE SendDelete(c)
  <2>1. CASE LoopDone(c)
    <3>1. /\ pass' \in [Client -> Passes] /\ pass'[c].pc = "addBack"
          /\ pass'[c].remote = pass[c].remote
          /\ \A d \in Client \ {c} : pass'[d] = pass[d]
      BY <1>7, <2>1, MovePass DEF SendDelete, ClientPc
    <3>2. QED
      BY <1>7, <1>u, <1>k, <2>1, <3>1, QuietMove
         DEF SendDelete, ClientAt, Awaiting, HasOne
  <2>2. CASE ~LoopDone(c)
    <3>1. /\ pass[c].todo # {} /\ pass[c].todo \subseteq Deleted
      BY <1>7, <1>k, <2>2 DEF SendDelete, ClientAt, LoopDone, Knows
    <3>2. DEFINE r == [type |-> "MarkAsDeleted", path |-> Current(c)]
    <3>3. r \in Asked /\ Sincere(r)
      BY <1>c, <3>1 DEF Asked, Sincere
    <3>4. Fits("awaitDeleted", Current(c), r)
      BY DEF Fits
    <3>5. Ask(c, r, "awaitDeleted")
      BY <1>7, <2>2 DEF SendDelete
    <3>6. HIDE DEF r
    <3>7. QED
      BY <1>7, <1>u, <3>1, <3>3, <3>4, <3>5, AskMove
         DEF SendDelete, ClientAt, Awaiting
  <2>3. QED
    BY <2>1, <2>2
<1>8. CASE TakeDeleted(c)
  <2>1. HangUp(c)
    BY <1>8, TakenAnswer DEF TakeDeleted
  <2>2. /\ pass' \in [Client -> Passes]
        /\ pass'[c].pc = "sendDeletes"
        /\ pass'[c].todo = pass[c].todo \ {Current(c)}
        /\ pass'[c].remote = pass[c].remote
        /\ \A d \in Client \ {c} : pass'[d] = pass[d]
    BY <1>8, <1>c, LoopPass DEF TakeDeleted, NextPath, ClientPc
  <2>3. pass[c].todo \subseteq Deleted /\ Fetching(c) = {}
    BY <1>8, <1>k DEF TakeDeleted, ClientAt, Knows, Fetching
  <2>4. Knows(c)'
    BY <1>8, <1>u, <2>2, <2>3, KnowsNext DEF TakeDeleted, ClientAt, HasOne
  <2>5. QED
    BY <1>8, <1>u, <1>k, <2>1, <2>2, <2>4, TakeMove
       DEF TakeDeleted, ClientAt, Awaiting
<1>9. CASE AddBack(c)
  <2>1. pass[c].markedExistent \in SUBSET Path
    BY <1>k DEF Passes
  <2>2. /\ pass' \in [Client -> Passes] /\ pass'[c].pc = "sendAdds"
        /\ pass'[c].remote = pass[c].remote
        /\ \A d \in Client \ {c} : pass'[d] = pass[d]
    BY <1>9, <2>1, LoopPass DEF AddBack, ClientPc
  <2>3. QED
    BY <1>9, <1>u, <1>k, <2>2, QuietMove DEF AddBack, ClientAt, Awaiting, HasOne
<1>10. CASE FindAdd(c)
  <2>1. CASE LoopDone(c) /\ pass[c].adds = "first"
    <3>1. /\ pass' \in [Client -> Passes] /\ pass'[c].pc = "askDeleted"
          /\ pass'[c].remote = pass[c].remote
          /\ \A d \in Client \ {c} : pass'[d] = pass[d]
      BY <1>10, <2>1, MovePass DEF FindAdd, AfterAdds, ClientPc
    <3>2. QED
      BY <1>10, <1>u, <1>k, <2>1, <3>1, QuietMove
         DEF FindAdd, ClientAt, Awaiting, HasOne
  <2>2. CASE LoopDone(c) /\ pass[c].adds # "first"
    <3>1. DEFINE p == [NewPass EXCEPT !.pc = "idle"]
    <3>2. p \in Passes /\ p.pc = "idle" /\ p.todo = {} /\ DOMAIN p.remote = {}
      BY NothingIsList, TimeFacts DEF NewPass, Passes, ClientPc, Torn
    <3>3. pass' = [pass EXCEPT ![c] = p]
      BY <1>10, <2>2 DEF FindAdd, AfterAdds
    <3>4. HIDE DEF p
    <3>5. /\ pass' \in [Client -> Passes] /\ pass'[c] = p
          /\ \A d \in Client \ {c} : pass'[d] = pass[d]
      BY <3>2, <3>3, NewPassOf
    <3>6. Knows(c)'
      BY <1>10, <1>d, <1>k, <3>2, <3>5
         DEF FindAdd, ClientAt, Knows, HasOne, Fetching
    <3>7. ClientKinds' /\ OthersRest(c)
      BY <1>10, <1>k, <3>5 DEF FindAdd, ClientKinds, OthersRest
    <3>8. QED
      BY <1>10, <1>u, <3>2, <3>5, <3>6, <3>7, QuietStep
         DEF FindAdd, ClientAt, Awaiting
  <2>3. CASE ~LoopDone(c) /\ HasCurrent(c)
    <3>1. /\ pass' \in [Client -> Passes] /\ pass'[c].pc = "stamp"
          /\ pass'[c].todo = pass[c].todo
          /\ pass'[c].remote = pass[c].remote
          /\ \A d \in Client \ {c} : pass'[d] = pass[d]
      BY <1>10, <2>3, MovePass DEF FindAdd, ClientPc
    <3>2. QED
      BY <1>10, <1>u, <1>k, <2>3, <3>1, QuietMove
         DEF FindAdd, ClientAt, Awaiting, LoopDone
  <2>4. CASE ~LoopDone(c) /\ ~HasCurrent(c)
    <3>1. /\ pass' \in [Client -> Passes] /\ pass'[c].pc = "sendAdds"
          /\ pass'[c].remote = pass[c].remote
          /\ \A d \in Client \ {c} : pass'[d] = pass[d]
      BY <1>10, <1>c, <2>4, LoopPass DEF FindAdd, NextPath, ClientPc
    <3>2. QED
      BY <1>10, <1>u, <1>k, <3>1, QuietMove
         DEF FindAdd, ClientAt, Awaiting, HasOne
  <2>5. QED
    BY <2>1, <2>2, <2>3, <2>4
<1>11. CASE StampAdd(c)
  <2>1. CASE ~HasCurrent(c)
    BY <1>11, <1>u, <2>1, QuietExit DEF StampAdd, ClientAt, Awaiting
  <2>2. CASE HasCurrent(c)
    <3>1. DEFINE stamp == local[c][Current(c)].ts
                 p == [pass[c] EXCEPT !.pc = "read", !.stamp = stamp]
    <3>2. stamp \in Time
      BY <1>c, <2>2 DEF Entry
    <3>3. /\ p \in Passes /\ p.pc = "read" /\ p.todo = pass[c].todo
          /\ p.remote = pass[c].remote
      <4>1. HIDE DEF stamp
      <4>2. QED
        BY <1>k, <3>2 DEF Passes, ClientPc
    <3>4. pass[c].todo # {}
      BY <1>11, <1>k DEF StampAdd, ClientAt, Knows, HasOne
    <3>5. CASE pass' = [pass EXCEPT ![c] = p]
      <4>1. HIDE DEF p
      <4>2. /\ pass' \in [Client -> Passes] /\ pass'[c] = p
            /\ \A d \in Client \ {c} : pass'[d] = pass[d]
        BY <3>3, <3>5, NewPassOf
      <4>3. QED
        BY <1>11, <1>u, <1>k, <3>3, <3>4, <4>2, QuietMove
           DEF StampAdd, ClientAt, Awaiting
    <3>6. CASE NextPath(c, "sendAdds")
      <4>1. /\ pass' \in [Client -> Passes] /\ pass'[c].pc = "sendAdds"
            /\ pass'[c].remote = pass[c].remote
            /\ \A d \in Client \ {c} : pass'[d] = pass[d]
        BY <1>c, <3>6, LoopPass DEF NextPath, ClientPc
      <4>2. QED
        BY <1>11, <1>u, <1>k, <4>1, QuietMove
           DEF StampAdd, ClientAt, Awaiting, HasOne
    <3>7. pass' = [pass EXCEPT ![c] = p] \/ NextPath(c, "sendAdds")
      BY <1>11, <1>k, <2>2 DEF StampAdd
    <3>8. QED
      BY <3>5, <3>6, <3>7
  <2>3. QED
    BY <2>1, <2>2
<1>12. CASE ReadAdd(c)
  <2>1. CASE ~HasCurrent(c)
    BY <1>12, <1>u, <2>1, QuietExit DEF ReadAdd, ClientAt, Awaiting
  <2>2. CASE HasCurrent(c)
    <3>1. DEFINE r == [type |-> "SendFileToServer", path |-> Current(c),
                       ts |-> pass[c].stamp, data |-> local[c][Current(c)].data]
    <3>2. pass[c].todo # {}
      BY <1>12, <1>k DEF ReadAdd, ClientAt, Knows, HasOne
    <3>3. pass[c].stamp \in Time /\ local[c][Current(c)].data \in Nat
      BY <1>k, <1>c, <2>2 DEF Passes, Entry
    <3>4. r \in Asked
      BY <1>c, <3>2, <3>3 DEF Asked
    <3>5. Sincere(r)
      BY DEF Sincere
    <3>6. Fits("awaitAdded", Current(c), r)
      BY DEF Fits
    <3>7. Ask(c, r, "awaitAdded")
      BY <1>12, <2>2 DEF ReadAdd
    <3>8. HIDE DEF r
    <3>9. QED
      BY <1>12, <1>u, <3>2, <3>4, <3>5, <3>6, <3>7, AskMove
         DEF ReadAdd, ClientAt, Awaiting
  <2>3. QED
    BY <2>1, <2>2
<1>13. CASE TakeAdded(c)
  <2>1. HangUp(c)
    BY <1>13, TakenAnswer DEF TakeAdded
  <2>2. DEFINE p == [pass[c] EXCEPT !.pc = "sendAdds", !.stamp = 0,
                                    !.todo = pass[c].todo \ {Current(c)}]
  <2>3. p \in Passes /\ p.pc = "sendAdds" /\ p.remote = pass[c].remote
    BY <1>k, <1>c, TimeFacts DEF Passes, ClientPc
  <2>4. pass' = [pass EXCEPT ![c] = p]
    BY <1>13, <1>k DEF TakeAdded
  <2>5. HIDE DEF p
  <2>6. /\ pass' \in [Client -> Passes] /\ pass'[c] = p
        /\ \A d \in Client \ {c} : pass'[d] = pass[d]
    BY <2>3, <2>4, NewPassOf
  <2>7. Fetching(c) = {}
    BY <1>13 DEF TakeAdded, ClientAt, Fetching
  <2>8. Knows(c)'
    BY <1>13, <1>u, <2>3, <2>6, <2>7, KnowsNext DEF TakeAdded, ClientAt, HasOne
  <2>9. QED
    BY <1>13, <1>u, <1>k, <2>1, <2>3, <2>6, <2>8, TakeMove
       DEF TakeAdded, ClientAt, Awaiting
<1>14. CASE AskDeletedList(c)
  <2>1. DEFINE r == [type |-> "GetDeletedList"]
  <2>2. r \in Asked /\ Sincere(r) /\ Fits("awaitDeletedList", Current(c), r)
    BY DEF Asked, Sincere, Fits
  <2>3. QED
    BY <1>14, <1>u, <2>2, AskMove DEF AskDeletedList, ClientAt, Awaiting, HasOne
<1>15. CASE TakeDeletedList(c)
  <2>1. /\ HangUp(c) /\ reply[c].type = "ServerDeletedList"
        /\ reply[c].paths \subseteq Deleted /\ reply[c] \in Answered
    BY <1>15, TakenAnswer DEF TakeDeletedList, ClientAt
  <2>2. reply[c].paths \in SUBSET Path
    BY <2>1 DEF Deleted
  <2>3. DEFINE todo == markAsDeleted(c, reply[c].paths)
  <2>4. todo \in SUBSET Path /\ todo \subseteq Deleted
    BY <2>1, <2>2 DEF markAsDeleted
  <2>5. marked' \in [Client -> SUBSET Path]
    BY <1>15, <1>k, <2>2 DEF TakeDeletedList
  <2>6. Loop(c, "removeGone", todo)
    BY <1>15 DEF TakeDeletedList
  <2>7. HIDE DEF todo
  <2>8. /\ pass' \in [Client -> Passes] /\ pass'[c].pc = "removeGone"
        /\ pass'[c].todo = todo /\ pass'[c].remote = pass[c].remote
        /\ \A d \in Client \ {c} : pass'[d] = pass[d]
    BY <2>4, <2>6, LoopPass DEF ClientPc
  <2>9. Fetching(c) = {}
    BY <1>15 DEF TakeDeletedList, ClientAt, Fetching
  <2>10. Knows(c)'
    BY <1>15, <1>u, <2>4, <2>8, <2>9, KnowsNext
       DEF TakeDeletedList, ClientAt, HasOne
  <2>11. QED
    BY <1>15, <1>u, <1>k, <2>1, <2>5, <2>8, <2>10, TakeMove
       DEF TakeDeletedList, ClientAt, Awaiting
<1>16. CASE FindGone(c)
  <2>1. pass[c].todo \subseteq Deleted
    BY <1>16, <1>k DEF FindGone, ClientAt, Knows
  <2>2. CASE LoopDone(c)
    <3>1. DEFINE todo == ModifiedOrAdded(c) \ pass[c].deletedByUser
    <3>2. todo \subseteq DOMAIN pass[c].remote /\ todo \in SUBSET Path
      BY <1>c, ListFacts DEF ModifiedOrAdded, getModifiedOrAdded
    <3>3. Loop(c, "download", todo)
      BY <1>16, <2>2 DEF FindGone
    <3>4. HIDE DEF todo
    <3>5. /\ pass' \in [Client -> Passes] /\ pass'[c].pc = "download"
          /\ pass'[c].todo = todo /\ pass'[c].remote = pass[c].remote
          /\ \A d \in Client \ {c} : pass'[d] = pass[d]
      BY <3>2, <3>3, LoopPass DEF ClientPc
    <3>6. QED
      BY <1>16, <1>u, <1>k, <3>2, <3>5, QuietMove
         DEF FindGone, ClientAt, Awaiting, HasOne
  <2>3. CASE ~LoopDone(c) /\ HasCurrent(c)
    <3>1. /\ pass' \in [Client -> Passes] /\ pass'[c].pc = "unlinkGone"
          /\ pass'[c].todo = pass[c].todo
          /\ pass'[c].remote = pass[c].remote
          /\ \A d \in Client \ {c} : pass'[d] = pass[d]
      BY <1>16, <2>3, MovePass DEF FindGone, ClientPc
    <3>2. QED
      BY <1>16, <1>u, <1>k, <2>1, <2>3, <3>1, QuietMove
         DEF FindGone, ClientAt, Awaiting, LoopDone
  <2>4. CASE ~LoopDone(c) /\ ~HasCurrent(c)
    <3>1. /\ pass' \in [Client -> Passes] /\ pass'[c].pc = "removeGone"
          /\ pass'[c].todo = pass[c].todo \ {Current(c)}
          /\ pass'[c].remote = pass[c].remote
          /\ \A d \in Client \ {c} : pass'[d] = pass[d]
      BY <1>16, <1>c, <2>4, LoopPass DEF FindGone, NextPath, ClientPc
    <3>2. QED
      BY <1>16, <1>u, <1>k, <2>1, <3>1, QuietMove
         DEF FindGone, ClientAt, Awaiting, HasOne
  <2>5. QED
    BY <2>2, <2>3, <2>4
<1>17. CASE UnlinkGone(c)
  <2>1. CASE HasCurrent(c)
    <3>1. /\ pass[c].todo \subseteq Deleted /\ pass[c].todo # {}
          /\ Fetching(c) = {}
      BY <1>17, <1>k DEF UnlinkGone, ClientAt, Knows, HasOne, Fetching
    <3>2. /\ pass' \in [Client -> Passes] /\ pass'[c].pc = "removeGone"
          /\ pass'[c].todo = pass[c].todo \ {Current(c)}
          /\ pass'[c].remote = pass[c].remote
          /\ \A d \in Client \ {c} : pass'[d] = pass[d]
      BY <1>17, <1>c, <2>1, LoopPass DEF UnlinkGone, NextPath, ClientPc
    <3>3. DEFINE dir == Drop(local[c], Current(c))
    <3>4. dir \in Dir /\ DOMAIN dir = DOMAIN local[c] \ {Current(c)}
      BY <1>k, DropDir
    <3>5. local' = [local EXCEPT ![c] = dir]
      BY <1>17, <1>k, <2>1 DEF UnlinkGone
    <3>6. HIDE DEF dir
    <3>7. /\ local' \in [Client -> Dir] /\ local'[c] = dir
          /\ \A d \in Client \ {c} : local'[d] = local[d]
      BY <3>4, <3>5, NewDirOf
    <3>8. Knows(c)'
      BY <1>17, <1>c, <1>d, <1>k, <3>1, <3>2, <3>4, <3>7
         DEF UnlinkGone, ClientAt, Knows, HasOne
    <3>9. ClientKinds' /\ OthersRest(c)
      BY <1>17, <1>k, <3>2, <3>7 DEF UnlinkGone, ClientKinds, OthersRest
    <3>10. QED
      BY <1>17, <1>u, <3>2, <3>8, <3>9, QuietStep
         DEF UnlinkGone, ClientAt, Awaiting
  <2>2. CASE ~HasCurrent(c)
    BY <1>17, <1>u, <2>2, QuietExit DEF UnlinkGone, ClientAt, Awaiting
  <2>3. QED
    BY <2>1, <2>2
<1>18. CASE FindDownload(c)
  <2>1. pass[c].todo \subseteq DOMAIN pass[c].remote
    BY <1>18, <1>k DEF FindDownload, ClientAt, Knows
  <2>2. CASE LoopDone(c)
    <3>1. DEFINE todo == getModifiedOrAdded(pass[c].remote, pass[c].mine)
                 p == [pass[c] EXCEPT !.pc = "sendAdds", !.adds = "last",
                                      !.todo = todo]
    <3>2. todo \in SUBSET Path
      <4>1. pass[c].mine \in List
        BY <1>k DEF Passes
      <4>2. QED
        BY <4>1, ListFacts DEF getModifiedOrAdded
    <3>3. p \in Passes /\ p.pc = "sendAdds" /\ p.remote = pass[c].remote
      <4>1. HIDE DEF todo
      <4>2. QED
        BY <1>k, <3>2 DEF Passes, ClientPc
    <3>4. pass' = [pass EXCEPT ![c] = p]
      BY <1>18, <1>k, <2>2 DEF FindDownload
    <3>5. HIDE DEF p
    <3>6. /\ pass' \in [Client -> Passes] /\ pass'[c] = p
          /\ \A d \in Client \ {c} : pass'[d] = pass[d]
      BY <3>3, <3>4, NewPassOf
    <3>7. marked' \in [Client -> SUBSET Path]
      BY <1>18, <1>k, <2>2 DEF FindDownload
    <3>8. QED
      BY <1>18, <1>u, <3>3, <3>6, <3>7, QuietMove
         DEF FindDownload, ClientAt, Awaiting, HasOne
  <2>3. CASE ~LoopDone(c)
    <3>1. PICK pc \in {"unlinkOld", "request"} : Move(c, pc)
      BY <1>18, <2>3 DEF FindDownload
    <3>2. /\ pass' \in [Client -> Passes] /\ pass'[c].pc = pc
          /\ pass'[c].todo = pass[c].todo
          /\ pass'[c].remote = pass[c].remote
          /\ \A d \in Client \ {c} : pass'[d] = pass[d]
      BY <3>1, MovePass DEF ClientPc
    <3>3. QED
      BY <1>18, <1>u, <1>k, <2>1, <2>3, <3>1, <3>2, QuietMove
         DEF FindDownload, ClientAt, Awaiting, LoopDone
  <2>4. QED
    BY <2>2, <2>3
<1>19. CASE UnlinkOld(c)
  <2>1. CASE HasCurrent(c)
    <3>1. /\ pass[c].todo \subseteq DOMAIN pass[c].remote /\ pass[c].todo # {}
          /\ Fetching(c) = {}
      BY <1>19, <1>k DEF UnlinkOld, ClientAt, Knows, HasOne, Fetching
    <3>2. /\ pass' \in [Client -> Passes] /\ pass'[c].pc = "request"
          /\ pass'[c].todo = pass[c].todo
          /\ pass'[c].remote = pass[c].remote
          /\ Current(c)' = Current(c)
          /\ \A d \in Client \ {c} : pass'[d] = pass[d]
      BY <1>19, <2>1, MovePass DEF UnlinkOld, ClientPc
    <3>3. DEFINE dir == Drop(local[c], Current(c))
    <3>4. dir \in Dir /\ DOMAIN dir = DOMAIN local[c] \ {Current(c)}
      BY <1>k, DropDir
    <3>5. local' = [local EXCEPT ![c] = dir]
      BY <1>19, <1>k, <2>1 DEF UnlinkOld
    <3>6. HIDE DEF dir
    <3>7. /\ local' \in [Client -> Dir] /\ local'[c] = dir
          /\ \A d \in Client \ {c} : local'[d] = local[d]
      BY <3>4, <3>5, NewDirOf
    <3>8. Fetching(c)' = {Current(c)}
      BY <3>2 DEF Fetching
    <3>9. Knows(c)'
      BY <1>19, <1>d, <1>k, <3>1, <3>2, <3>4, <3>7, <3>8
         DEF UnlinkOld, ClientAt, Knows
    <3>10. ClientKinds' /\ OthersRest(c)
      BY <1>19, <1>k, <3>2, <3>7 DEF UnlinkOld, ClientKinds, OthersRest
    <3>11. QED
      BY <1>19, <1>u, <3>2, <3>9, <3>10, QuietStep
         DEF UnlinkOld, ClientAt, Awaiting
  <2>2. CASE ~HasCurrent(c)
    BY <1>19, <1>u, <2>2, QuietExit DEF UnlinkOld, ClientAt, Awaiting
  <2>3. QED
    BY <2>1, <2>2
<1>20. CASE RequestFile(c)
  <2>1. /\ pass[c].todo \subseteq DOMAIN pass[c].remote /\ pass[c].todo # {}
        /\ DOMAIN pass[c].remote \subseteq Known
    BY <1>20, <1>k DEF RequestFile, ClientAt, Knows, HasOne
  <2>2. DEFINE r == [type |-> "GetFileByPath", path |-> Current(c)]
  <2>3. r \in Asked /\ Sincere(r)
    BY <1>c, <2>1 DEF Asked, Sincere
  <2>4. Fits("awaitFile", Current(c), r)
    BY DEF Fits
  <2>5. Ask(c, r, "awaitFile")
    BY <1>20 DEF RequestFile
  <2>6. HIDE DEF r
  <2>7. QED
    BY <1>20, <1>u, <2>1, <2>3, <2>4, <2>5, AskMove
       DEF RequestFile, ClientAt, Awaiting
<1>21. CASE TakeFile(c)
  <2>1. /\ HangUp(c) /\ reply[c].type = "FileFromServer"
        /\ reply[c].status # 0 => Current(c) \in Deleted
        /\ reply[c] \in Answered
    BY <1>21, TakenAnswer DEF TakeFile, ClientAt
  <2>2. /\ pass[c].todo \subseteq DOMAIN pass[c].remote /\ pass[c].todo # {}
        /\ Fetching(c) = {Current(c)}
    BY <1>21, <1>k DEF TakeFile, ClientAt, Knows, HasOne, Fetching
  <2>3. CASE reply[c].status = 0
    <3>1. DEFINE p == [pass[c] EXCEPT !.pc = "save", !.data = reply[c].data]
    <3>2. reply[c].data \in Nat
      BY <2>1 DEF Answered
    <3>3. /\ p \in Passes /\ p.pc = "save" /\ p.todo = pass[c].todo
          /\ p.remote = pass[c].remote
      BY <1>k, <3>2 DEF Passes, ClientPc
    <3>4. pass' = [pass EXCEPT ![c] = p]
      BY <1>21, <1>k, <2>3 DEF TakeFile
    <3>5. HIDE DEF p
    <3>6. /\ pass' \in [Client -> Passes] /\ pass'[c] = p
          /\ \A d \in Client \ {c} : pass'[d] = pass[d]
      BY <3>3, <3>4, NewPassOf
    <3>7. Current(c)' = Current(c)
      BY <3>3, <3>6, CurrentStays
    <3>8. Fetching(c)' = {Current(c)}
      BY <3>3, <3>6, <3>7 DEF Fetching
    <3>9. Knows(c)'
      BY <1>21, <1>u, <2>2, <3>3, <3>6, <3>8, KnowsNext DEF TakeFile, ClientAt
    <3>10. QED
      BY <1>21, <1>u, <1>k, <2>1, <3>3, <3>6, <3>9, TakeMove
         DEF TakeFile, ClientAt, Awaiting
  <2>4. CASE reply[c].status # 0
    <3>1. /\ pass' \in [Client -> Passes] /\ pass'[c].pc = "download"
          /\ pass'[c].todo = pass[c].todo \ {Current(c)}
          /\ pass'[c].remote = pass[c].remote
          /\ \A d \in Client \ {c} : pass'[d] = pass[d]
      BY <1>21, <1>c, <2>4, LoopPass DEF TakeFile, NextPath, ClientPc
    <3>2. Knows(c)'
      BY <1>21, <1>d, <1>k, <2>1, <2>2, <2>4, <3>1
         DEF TakeFile, ClientAt, Knows, HasOne
    <3>3. QED
      BY <1>21, <1>u, <1>k, <2>1, <3>1, <3>2, TakeMove
         DEF TakeFile, ClientAt, Awaiting
  <2>5. QED
    BY <2>3, <2>4
<1>22. CASE SaveFile(c)
  <2>1. /\ pass[c].todo \subseteq DOMAIN pass[c].remote /\ pass[c].todo # {}
        /\ Fetching(c) = {Current(c)}
    BY <1>22, <1>k DEF SaveFile, ClientAt, Knows, HasOne, Fetching
  <2>2. DEFINE f == [ts |-> now, data |-> pass[c].data]
               dir == Put(local[c], Current(c), f)
               p == [pass[c] EXCEPT !.pc = "setTime", !.data = Torn]
  <2>3. f \in Entry
    BY <1>k DEF Entry, Passes
  <2>4. dir \in Dir /\ DOMAIN dir = DOMAIN local[c] \cup {Current(c)}
    <3>1. HIDE DEF f
    <3>2. QED
      BY <1>k, <1>c, <2>1, <2>3, PutDir
  <2>5. /\ p \in Passes /\ p.pc = "setTime" /\ p.todo = pass[c].todo
        /\ p.remote = pass[c].remote
    BY <1>k DEF Passes, ClientPc, Torn
  <2>6. local' = [local EXCEPT ![c] = dir] /\ pass' = [pass EXCEPT ![c] = p]
    BY <1>22, <1>k DEF SaveFile
  <2>7. HIDE DEF f, dir, p
  <2>8. /\ pass' \in [Client -> Passes] /\ pass'[c] = p
        /\ \A d \in Client \ {c} : pass'[d] = pass[d]
    BY <2>5, <2>6, NewPassOf
  <2>9. /\ local' \in [Client -> Dir] /\ local'[c] = dir
        /\ \A d \in Client \ {c} : local'[d] = local[d]
    BY <2>4, <2>6, NewDirOf
  <2>10. Knows(c)'
    BY <1>22, <1>d, <1>k, <2>1, <2>4, <2>5, <2>8, <2>9
       DEF SaveFile, ClientAt, Knows
  <2>11. ClientKinds' /\ OthersRest(c)
    BY <1>22, <1>k, <2>8, <2>9 DEF SaveFile, ClientKinds, OthersRest
  <2>12. QED
    BY <1>22, <1>u, <2>5, <2>8, <2>10, <2>11, QuietStep
       DEF SaveFile, ClientAt, Awaiting
<1>23. CASE SetFileTime(c)
  <2>1. CASE HasCurrent(c)
    <3>1. /\ pass[c].todo \subseteq DOMAIN pass[c].remote /\ pass[c].todo # {}
          /\ Fetching(c) = {}
      BY <1>23, <1>k DEF SetFileTime, ClientAt, Knows, HasOne, Fetching
    <3>2. /\ pass' \in [Client -> Passes] /\ pass'[c].pc = "download"
          /\ pass'[c].todo = pass[c].todo \ {Current(c)}
          /\ pass'[c].remote = pass[c].remote
          /\ \A d \in Client \ {c} : pass'[d] = pass[d]
      BY <1>23, <1>c, <2>1, LoopPass DEF SetFileTime, NextPath, ClientPc
    <3>3. DEFINE t == pass[c].remote[Current(c)]
                 dir == [local[c] EXCEPT ![Current(c)].ts = t]
    <3>4. t \in Time
      BY <1>c, <3>1, ListFacts
    <3>5. dir \in Dir /\ DOMAIN dir = DOMAIN local[c]
      <4>1. Current(c) \in DOMAIN local[c]
        BY <2>1 DEF HasCurrent
      <4>2. HIDE DEF t
      <4>3. QED
        BY <1>k, <3>4, <4>1, StampDir
    <3>6. local' = [local EXCEPT ![c] = dir]
      BY <1>23, <1>k, <2>1 DEF SetFileTime
    <3>7. HIDE DEF t, dir
    <3>8. /\ local' \in [Client -> Dir] /\ local'[c] = dir
          /\ \A d \in Client \ {c} : local'[d] = local[d]
      BY <3>5, <3>6, NewDirOf
    <3>9. Knows(c)'
      BY <1>23, <1>d, <1>k, <3>1, <3>2, <3>5, <3>8
         DEF SetFileTime, ClientAt, Knows, HasOne
    <3>10. ClientKinds' /\ OthersRest(c)
      BY <1>23, <1>k, <3>2, <3>8 DEF SetFileTime, ClientKinds, OthersRest
    <3>11. QED
      BY <1>23, <1>u, <3>2, <3>9, <3>10, QuietStep
         DEF SetFileTime, ClientAt, Awaiting
  <2>2. CASE ~HasCurrent(c)
    BY <1>23, <1>u, <2>2, QuietExit DEF SetFileTime, ClientAt, Awaiting
  <2>3. QED
    BY <2>1, <2>2
<1>24. CASE Wake(c)
  <2>1. /\ pass' \in [Client -> Passes] /\ pass'[c].pc = "top"
        /\ pass'[c].remote = pass[c].remote
        /\ \A d \in Client \ {c} : pass'[d] = pass[d]
    BY <1>24, MovePass DEF Wake, ClientPc
  <2>2. QED
    BY <1>24, <1>u, <1>k, <2>1, QuietMove DEF Wake, ClientAt, Awaiting, HasOne
<1>25. QED
    BY <1>1, <1>2, <1>3, <1>4, <1>5, <1>6, <1>7, <1>8, <1>9, <1>10, <1>11,
       <1>12, <1>13, <1>14, <1>15, <1>16, <1>17, <1>18, <1>19, <1>20, <1>21,
       <1>22, <1>23, <1>24, <1>6c
       DEF ClientSteps, Synchronise
-----------------------------------------------------------------------------
(* Faults, users and clocks.                                               *)

LEMMA SpendKind ==
    ASSUME SyncInv, NEW bound, Spend("edits", bound) \/ Spend("deletes", bound)
               \/ Spend("timeouts", bound) \/ Spend("crashes", bound)
               \/ Spend("restarts", bound)
    PROVE  spent' \in [DOMAIN spent -> Nat]
BY DEF SyncInv, Kinds, Spend

LEMMA TimeoutKeepsSyncInv ==
    ASSUME SyncInv, NEW c \in Client, TimesOut(c)
    PROVE  SyncInv'
<1>u. /\ UNCHANGED <<serverVars, deleted, local, marked, mLast>> /\ HangUp(c)
      /\ spent' \in [DOMAIN spent -> Nat]
      /\ marked' \in [Client -> SUBSET Path]
    BY SpendKind DEF TimesOut, NoAnswer, GiveUp, history, SyncInv, Kinds
<1>k. /\ pass \in [Client -> Passes] /\ pass[c] \in Passes
    BY PassKinds
<1>w. pass[c].pc \in Awaiting
    BY DEF TimesOut, NoAnswer, GiveUp, SyncInv, Talk
<1>1. CASE ClientAt(c, "awaitDeleted")
  <2>1. Loop(c, "addBack", {})
    BY <1>1 DEF TimesOut, NoAnswer
  <2>2. /\ pass' \in [Client -> Passes] /\ pass'[c].pc = "addBack"
        /\ pass'[c].remote = pass[c].remote
        /\ \A d \in Client \ {c} : pass'[d] = pass[d]
    BY <2>1, LoopPass DEF ClientPc
  <2>3. Fetching(c) = {}
    BY <1>1 DEF ClientAt, Fetching
  <2>4. Knows(c)'
    BY <1>1, <1>u, <2>2, <2>3, KnowsNext DEF ClientAt, HasOne
  <2>5. QED
    BY <1>u, <1>w, <2>2, <2>4, TakeMove DEF Awaiting
<1>2. CASE ClientAt(c, "awaitAdded") /\ pass[c].adds = "first"
  <2>1. DEFINE p == [pass[c] EXCEPT !.pc = "askDeleted", !.stamp = 0, !.todo = {}]
  <2>2. p \in Passes /\ p.pc = "askDeleted" /\ p.remote = pass[c].remote
    BY <1>k, TimeFacts DEF Passes, ClientPc
  <2>3. pass' = [pass EXCEPT ![c] = p]
    BY <1>2, <1>k DEF TimesOut, NoAnswer, ClientAt
  <2>4. HIDE DEF p
  <2>5. /\ pass' \in [Client -> Passes] /\ pass'[c] = p
        /\ \A d \in Client \ {c} : pass'[d] = pass[d]
    BY <2>2, <2>3, NewPassOf
  <2>6. Fetching(c) = {}
    BY <1>2 DEF ClientAt, Fetching
  <2>7. Knows(c)'
    BY <1>2, <1>u, <2>2, <2>5, <2>6, KnowsNext DEF ClientAt, HasOne
  <2>8. QED
    BY <1>u, <1>w, <2>2, <2>5, <2>7, TakeMove DEF Awaiting
<1>3. CASE Exit(c, "closed")
  <2>1. /\ pass' \in [Client -> Passes] /\ pass'[c].pc = "closed"
        /\ \A d \in Client \ {c} : pass'[d] = pass[d]
        /\ Knows(c)'
    BY <1>3, ExitPass
  <2>2. QED
    BY <1>u, <1>w, <2>1, TakeMove DEF Awaiting
<1>4. QED
    BY <1>1, <1>2, <1>3 DEF TimesOut, NoAnswer

LEMMA CrashKeepsSyncInv ==
    ASSUME SyncInv, NEW c \in Client, IsKilled(c)
    PROVE  SyncInv'
<1>u. /\ UNCHANGED <<serverVars, deleted, mLast>> /\ HangUp(c)
      /\ spent' \in [DOMAIN spent -> Nat]
    BY SpendKind DEF IsKilled, Crash, history
<1>m. marked' \in [Client -> SUBSET Path]
  <2>1. PICK marks \in LeftMarks(c) : marked' = [marked EXCEPT ![c] = marks]
    BY DEF IsKilled, Crash
  <2>2. marked \in [Client -> SUBSET Path] /\ DOMAIN mLast[c] \subseteq Path
    BY ListFacts DEF SyncInv, Kinds
  <2>3. ClientAt(c, "awaitDeletedList") /\ Arrived(c) => reply[c].paths \subseteq Path
    BY ArrivedAnswer DEF ClientAt, Deleted
  <2>4. marks \subseteq Path
    BY <2>1, <2>2, <2>3 DEF LeftMarks, getDeletedSince
  <2>5. QED
    BY <2>1, <2>2, <2>4
<1>1. /\ pass' \in [Client -> Passes] /\ pass'[c].pc = "closed"
      /\ \A d \in Client \ {c} : pass'[d] = pass[d]
      /\ Knows(c)'
    BY ExitPass DEF IsKilled, Crash
<1>2. /\ local' \in [Client -> Dir]
      /\ \A d \in Client \ {c} : local'[d] = local[d]
  <2>1. CASE UNCHANGED local
    BY <2>1 DEF SyncInv, Kinds
  <2>2. CASE ~UNCHANGED local
    <3>1. DEFINE f == [ts |-> now, data |-> Torn]
                 dir == Put(local[c], Current(c), f)
    <3>2. ClientAt(c, "save") /\ local' = [local EXCEPT ![c] = dir]
      BY <2>2 DEF IsKilled, Crash, SyncInv, Kinds
    <3>3. Current(c) \in Path
      BY <3>2, CurrentFacts DEF SyncInv, Knows, ClientAt, HasOne
    <3>4. f \in Entry /\ local[c] \in Dir
      BY DEF SyncInv, Kinds, Entry, Torn
    <3>5. dir \in Dir
      <4>1. HIDE DEF f
      <4>2. QED
        BY <3>3, <3>4, PutDir
    <3>6. HIDE DEF dir
    <3>7. QED
      BY <3>2, <3>5, NewDirOf
  <2>3. QED
    BY <2>1, <2>2
<1>3. ClientKinds' /\ OthersRest(c)
    BY <1>u, <1>m, <1>1, <1>2 DEF ClientKinds, OthersRest, SyncInv, Kinds
<1>4. QED
    BY <1>u, <1>1, <1>3, TakeStep DEF Awaiting

LEMMA RestartKeepsSyncInv ==
    ASSUME SyncInv, NEW c \in Client, StartsAgain(c)
    PROVE  SyncInv'
<1>u. /\ UNCHANGED <<serverVars, deleted, local, marked, connVars>>
      /\ UNCHANGED <<inbox, waiting, reply>>
      /\ spent' \in [DOMAIN spent -> Nat]
      /\ pass[c].pc \in {"closed", "aborted"}
    BY SpendKind DEF StartsAgain, Restart, connVars, serverVars, store
<1>1. /\ NewPass \in Passes /\ NewPass.pc = "start" /\ NewPass.todo = {}
      /\ DOMAIN NewPass.remote = {}
    BY NothingIsList, TimeFacts DEF NewPass, Passes, ClientPc, Torn
<1>2. /\ pass' \in [Client -> Passes] /\ pass'[c] = NewPass
      /\ \A d \in Client \ {c} : pass'[d] = pass[d]
    BY <1>1, NewPassOf DEF StartsAgain, Restart
<1>3. /\ mLast' \in [Client -> List] /\ mLast'[c] = Nothing
      /\ \A d \in Client \ {c} : mLast'[d] = mLast[d]
    BY NothingIsList DEF StartsAgain, Restart, SyncInv, Kinds
<1>4. Knows(c)'
    BY <1>1, <1>2, <1>3, NothingIsList DEF Knows, HasOne
<1>5. Talk(c)'
    BY <1>u, <1>1, <1>2, QuietTalk DEF Awaiting
<1>6. /\ inbox' \in [Client -> Seq(Asked)] /\ waiting' \in [Client -> BOOLEAN]
      /\ reply' \in [Client -> Answered \cup {NoReply}]
      /\ local' \in [Client -> Dir] /\ marked' \in [Client -> SUBSET Path]
    BY <1>u DEF SyncInv, Kinds
<1>7. QED
    BY <1>u, <1>2, <1>3, <1>4, <1>5, <1>6, ClientStep

\* A step of the users or of the clock: the programs rest.
LEMMA OutsideStep ==
    ASSUME SyncInv, UNCHANGED <<store, handler, connVars, marked, mLast, pass>>,
           now' \in Time, local' \in [Client -> Dir],
           spent' \in [DOMAIN spent -> Nat],
           deleted' \in [Client -> SUBSET Path],
           \A d \in Client : deleted[d] \subseteq deleted'[d],
           \A d \in Client : DOMAIN local[d] \subseteq DOMAIN local'[d] \cup Deleted'
    PROVE  SyncInv'
<1>1. /\ Deleted \subseteq Deleted' /\ Known \subseteq Known'
    BY DEF Deleted, Known, store
<1>2. Kinds'
    BY <1>1 DEF SyncInv, Kinds, Workers, store, connVars
<1>3. ASSUME NEW d \in Client
      PROVE  Talk(d)' /\ Knows(d)'
    BY <1>1, <1>3, TalkKept, KnowsKept DEF connVars
<1>4. QED
    BY <1>2, <1>3 DEF SyncInv

LEMMA WriteKeepsSyncInv ==
    ASSUME SyncInv, NEW c \in Client, NEW p \in Path, UserWrite(c, p)
    PROVE  SyncInv'
<1>1. /\ local[c] \in Dir /\ now \in Time /\ spent["edits"] \in Nat
      /\ deleted \in [Client -> SUBSET Path]
    BY DEF SyncInv, Kinds
<1>2. DEFINE f == [ts |-> now, data |-> spent["edits"] + 2]
             dir == Put(local[c], p, f)
<1>3. f \in Entry
    BY <1>1 DEF Entry
<1>4. dir \in Dir /\ DOMAIN dir = DOMAIN local[c] \cup {p}
  <2>1. HIDE DEF f
  <2>2. QED
    BY <1>1, <1>3, PutDir
<1>5. local' = [local EXCEPT ![c] = dir]
    BY DEF UserWrite, SyncInv, Kinds
<1>6. HIDE DEF dir
<1>7. /\ local' \in [Client -> Dir] /\ local'[c] = dir
      /\ \A d \in Client \ {c} : local'[d] = local[d]
    BY <1>4, <1>5, NewDirOf
<1>8. spent' \in [DOMAIN spent -> Nat]
    BY SpendKind DEF UserWrite
<1>9. QED
    BY <1>1, <1>4, <1>7, <1>8, OutsideStep DEF UserWrite, serverVars

LEMMA DeleteKeepsSyncInv ==
    ASSUME SyncInv, NEW c \in Client, NEW p \in Path, UserDelete(c, p)
    PROVE  SyncInv'
<1>1. /\ local[c] \in Dir /\ now \in Time
      /\ deleted \in [Client -> SUBSET Path]
    BY DEF SyncInv, Kinds
<1>2. DEFINE dir == Drop(local[c], p)
<1>3. dir \in Dir /\ DOMAIN dir = DOMAIN local[c] \ {p}
    BY <1>1, DropDir
<1>4. local' = [local EXCEPT ![c] = dir]
    BY DEF UserDelete, SyncInv, Kinds
<1>5. HIDE DEF dir
<1>6. /\ local' \in [Client -> Dir] /\ local'[c] = dir
      /\ \A d \in Client \ {c} : local'[d] = local[d]
    BY <1>3, <1>4, NewDirOf
<1>7. spent' \in [DOMAIN spent -> Nat]
    BY SpendKind DEF UserDelete
<1>8. /\ deleted' \in [Client -> SUBSET Path]
      /\ \A d \in Client : deleted[d] \subseteq deleted'[d]
      /\ p \in deleted'[c]
    BY <1>1 DEF UserDelete
<1>9. p \in Deleted'
    BY <1>8 DEF Deleted
<1>10. QED
    BY <1>1, <1>3, <1>6, <1>7, <1>8, <1>9, OutsideStep
       DEF UserDelete, serverVars
-----------------------------------------------------------------------------
(* The invariant holds.                                                    *)

LEMMA InitSyncInv == Init => SyncInv
<1>1. SUFFICES ASSUME Init PROVE SyncInv
    OBVIOUS
<1>2. DEFINE first == [ts |-> 1, data |-> 1]
<1>3. first \in Entry
    BY TimeFacts DEF Entry
<1>4. ASSUME NEW paths \in SUBSET Path
      PROVE  [p \in paths |-> first] \in Dir
    BY <1>3, <1>4, DirBuild
<1>5. syncRoot \in Dir /\ local \in [Client -> Dir]
    BY <1>1, <1>4, SyncAssumption DEF Init
<1>6. /\ NewPass \in Passes /\ NewPass.pc = "start" /\ NewPass.todo = {}
      /\ DOMAIN NewPass.remote = {}
    BY NothingIsList, TimeFacts DEF NewPass, Passes, ClientPc, Torn
<1>7. /\ mLast \in [Client -> List] /\ pass \in [Client -> Passes]
      /\ marked \in [Client -> SUBSET Path]
    BY <1>1, <1>6, NothingIsList DEF Init, ClientInit
<1>w. Idle \in Worker /\ DOMAIN Idle.list = {}
    BY NothingIsList DEF Idle, Worker, Step
<1>8. /\ mContent \subseteq Deleted /\ Shared \cup Remote \subseteq Known
      /\ Workers
    BY <1>1, <1>w DEF Init, ServerInit, Known, Workers
<1>9. /\ inbox \in [Client -> Seq(Asked)] /\ waiting \in [Client -> BOOLEAN]
      /\ reply \in [Client -> Answered \cup {NoReply}]
    BY <1>1 DEF Init, ConnInit
<1>10. /\ spent \in [{"edits", "deletes", "timeouts", "crashes", "restarts"} -> Nat]
       /\ deleted \in [Client -> SUBSET Path] /\ now \in Time
    BY <1>1, TimeFacts DEF Init
<1>11. Kinds
    BY <1>5, <1>7, <1>8, <1>9, <1>10 DEF Kinds
<1>12. ASSUME NEW c \in Client
       PROVE  Talk(c) /\ Knows(c)
  <2>1. /\ handler[c].pc = "idle" /\ inbox[c] = <<>> /\ waiting[c] = FALSE
        /\ reply[c] = NoReply /\ pass[c] = NewPass /\ mLast[c] = Nothing
    BY <1>1, <1>12 DEF Init, ServerInit, ConnInit, ClientInit, Idle
  <2>2. Talk(c)
    <3>1. 1 .. Len(inbox[c]) = {} /\ pass[c].pc \notin Awaiting
      BY <1>6, <2>1 DEF Awaiting
    <3>2. waiting[c] = (pass[c].pc \in Awaiting)
      <4>1. (pass[c].pc \in Awaiting) = FALSE
        BY <3>1
      <4>2. QED
        BY <2>1, <4>1
    <3>3. \A i \in 1 .. Len(inbox[c]) : Sincere(inbox[c][i])
      BY <3>1
    <3>4. QED
      BY <2>1, <3>2, <3>3, Zenon DEF Talk
  <2>3. Knows(c)
    BY <1>6, <2>1, NothingIsList DEF Knows, HasOne
  <2>4. QED
    BY <2>2, <2>3
<1>13. QED
    BY <1>11, <1>12 DEF SyncInv

LEMMA NextKeepsSyncInv == SyncInv /\ [Next]_syncVars => SyncInv'
<1>1. SUFFICES ASSUME SyncInv, [Next]_syncVars PROVE SyncInv'
    OBVIOUS
<1>2. ASSUME UNCHANGED <<store, handler, connVars, clientVars, userVars>>,
             now' \in Time
      PROVE  SyncInv'
  <2>1. /\ local \in [Client -> Dir] /\ deleted \in [Client -> SUBSET Path]
        /\ spent \in [DOMAIN spent -> Nat]
    BY <1>1 DEF SyncInv, Kinds
  <2>2. UNCHANGED <<local, marked, mLast, pass, spent, deleted>>
    BY <1>2 DEF clientVars, userVars, history
  <2>3. QED
    BY <1>1, <1>2, <2>1, <2>2, OutsideStep
<1>3. CASE UNCHANGED syncVars
    BY <1>1, <1>2, <1>3 DEF syncVars, serverVars, SyncInv, Kinds
<1>4. CASE Tick
  <2>1. now' \in Time
    BY <1>1, <1>4, MaxTimeAssumption DEF Tick, TimePasses, SyncInv, Kinds, Time
  <2>2. QED
    BY <1>2, <1>4, <2>1 DEF Tick
<1>5. ASSUME NEW c \in Client, Reset(c)
      PROVE  SyncInv'
    BY <1>1, <1>2, <1>5 DEF Reset, SyncInv, Kinds
<1>6. QED
    BY <1>1, <1>3, <1>4, <1>5, ServerKeepsSyncInv, ClientKeepsSyncInv,
       TimeoutKeepsSyncInv, CrashKeepsSyncInv, RestartKeepsSyncInv,
       WriteKeepsSyncInv, DeleteKeepsSyncInv DEF Next

LEMMA SyncInvariant == Spec => []SyncInv
BY InitSyncInv, NextKeepsSyncInv, PTL DEF Spec

\* Every state variable keeps its type.
THEOREM SyncTypeCorrect == Spec => []SyncTypeOK
<1>1. SyncInv => SyncTypeOK
  <2>1. SUFFICES ASSUME SyncInv PROVE SyncTypeOK
    OBVIOUS
  <2>2. ASSUME NEW list \in List PROVE IsSnapshot(list)
    BY TimeFacts DEF List, IsSnapshot
  <2>3. ASSUME NEW dir \in Dir PROVE IsDir(dir)
    BY TimeFacts DEF Dir, IsDir, Entry, File
  <2>4. ASSUME NEW c \in Client
        PROVE  /\ IsDir(local[c]) /\ IsSnapshot(mLast[c])
               /\ pass[c].pc \in ClientPc
               /\ IsSnapshot(pass[c].remote) /\ IsSnapshot(pass[c].mine)
               /\ pass[c].todo \subseteq Path
               /\ pass[c].stamp \in 0 .. MaxTime
    <3>1. local[c] \in Dir /\ mLast[c] \in List /\ pass[c] \in Passes
      BY <2>1 DEF SyncInv, Kinds
    <3>2. /\ pass[c].remote \in List /\ pass[c].mine \in List
          /\ pass[c].pc \in ClientPc /\ pass[c].todo \subseteq Path
          /\ pass[c].stamp \in Time
      BY <3>1 DEF Passes
    <3>3. QED
      BY <2>2, <2>3, <3>1, <3>2 DEF Time
  <2>5. QED
    BY <2>1, <2>4 DEF SyncTypeOK, SyncInv, Kinds
<1>2. QED
    BY <1>1, SyncInvariant, PTL

\* However many clients synchronise, crash, give up and start again, the server
\* keeps every file of the start that no user deleted.
THEOREM UndeletedKept == Spec => []UndeletedSurvives
<1>1. SyncInv => UndeletedSurvives
    BY SyncAssumption DEF SyncInv, Kinds, Known, Deleted, UndeletedSurvives
<1>2. QED
    BY <1>1, SyncInvariant, PTL

\* Whatever is marked as deleted on the server, or asked to be, some user
\* deleted.
DeletionsAreMeant ==
    /\ mContent \subseteq Deleted
    /\ \A c \in Client : \A i \in 1 .. Len(inbox[c]) :
          inbox[c][i].type = "MarkAsDeleted" => inbox[c][i].path \in Deleted

\* The server's list of deleted files and the requests on their way to it name
\* only what a user deleted: an empty first scan after a restart, an aborted
\* download or a file another client removed is never taken for a deletion of
\* a file that everybody kept.
THEOREM NothingDeletedUnasked == Spec => []DeletionsAreMeant
<1>1. SyncInv => DeletionsAreMeant
    BY DEF SyncInv, Kinds, Talk, Sincere, DeletionsAreMeant
<1>2. QED
    BY <1>1, SyncInvariant, PTL

\* A client that has the server for itself asks for the deletion of its own
\* user's deletions only.
THEOREM SoleClientHonest ==
    ASSUME NEW c0, Client = {c0}
    PROVE  Spec => []NoPhantomDelete
<1>1. SyncInv => NoPhantomDelete
    BY DEF SyncInv, Talk, Sincere, Deleted, NoPhantomDelete
<1>2. QED
    BY <1>1, SyncInvariant, PTL
-----------------------------------------------------------------------------
(* Users who do not write again what was deleted.                          *)

LEMMA FinalDeletions == Spec => []FinalIfNotRecreated
<1>1. Init => FinalIfNotRecreated
    BY DEF Init, FinalIfNotRecreated, Deleted
<1>2. FinalIfNotRecreated /\ [Next]_syncVars => FinalIfNotRecreated'
  <2>1. SUFFICES ASSUME FinalIfNotRecreated, [Next]_syncVars, ~Recreate
                 PROVE  Deleted' \subseteq gone'
    BY DEF FinalIfNotRecreated
  <2>2. Deleted \subseteq gone
    BY <2>1 DEF FinalIfNotRecreated
  <2>3. ASSUME NEW c \in Client, NEW p \in Path, UserWrite(c, p)
        PROVE  Deleted' \subseteq gone'
    BY <2>1, <2>2, <2>3 DEF UserWrite, Deleted
  <2>4. ASSUME NEW c \in Client, NEW p \in Path, UserDelete(c, p)
        PROVE  Deleted' \subseteq gone'
    <3>1. \A d \in Client : deleted'[d] \subseteq deleted[d] \cup {p}
      BY <2>4 DEF UserDelete
    <3>2. QED
      BY <2>2, <2>4, <3>1 DEF UserDelete, Deleted
  <2>5. CASE UNCHANGED <<deleted, gone>>
    BY <2>2, <2>5 DEF Deleted
  <2>6. QED
    BY <2>1, <2>3, <2>4, <2>5
       DEF Next, Tick, ServerSteps, ClientSteps, TimesOut, IsKilled, StartsAgain,
           Reset, userVars, history, syncVars
<1>3. QED
    BY <1>1, <1>2, PTL DEF Spec

\* The program removes a file because its path was deleted only if deleting it
\* was the last thing a user did to it, provided that nobody writes a deleted
\* path again.
THEOREM RemovalsAreMeant ==
    ASSUME ~Recreate
    PROVE  Spec => RemovedOnlyIfDeleted
<1>1. ASSUME SyncInv, FinalIfNotRecreated, NEW c \in Client,
             ClientAt(c, "unlinkGone")
      PROVE  Current(c) \in gone
  <2>1. pass[c].todo # {} /\ pass[c].todo \subseteq Deleted
    BY <1>1 DEF SyncInv, Knows, HasOne, ClientAt
  <2>2. QED
    BY <1>1, <2>1, CurrentIsDue DEF FinalIfNotRecreated
<1>2. SyncInv /\ FinalIfNotRecreated /\ [Next]_syncVars
         => [\A c \in Client :
                ClientAt(c, "unlinkGone") /\ spent' = spent /\ local'[c] # local[c]
                    => Current(c) \in gone]_syncVars
    BY <1>1
<1>3. QED
    BY <1>2, SyncInvariant, FinalDeletions, PTL DEF Spec, RemovedOnlyIfDeleted
=============================================================================
