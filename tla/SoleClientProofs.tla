-------------------------- MODULE SoleClientProofs --------------------------
(***************************************************************************)
(* Proofs about ServerAlone with a single connection: what the actions of  *)
(* server/Actions promise when no other thread runs beside them.  With a   *)
(* second connection these fail (see the run server_two and the            *)
(* configuration server_remove.cfg), so the assumption is needed.          *)
(***************************************************************************)
EXTENDS ServerProofs

\* The file that the request of c names exists at these steps.
Present == {"checkFile", "readFile", "writeFile", "setTime", "checkList",
            "unlinkList", "rewriteList", "checkGone", "unlinkFile"}

\* At these steps c has a stream open.
Writing == {"writeFile", "checkMark", "mark", "saveMark"}

\* How far c has come with the file list.
Listing(c) ==
    IF handler[c].pc = "statFiles"
    THEN /\ handler[c].names \subseteq DOMAIN syncRoot
         /\ handler[c].list = Scan(syncRoot, DOMAIN syncRoot \ handler[c].names)
    ELSE handler[c].list = Nothing

\* How far c has come with its upload, its deletion or the list file.
Working(c) ==
    /\ handler[c].pc \in Present => Exists(c)
    /\ handler[c].pc \in Writing => handler[c].linked
    /\ handler[c].pc = "writeFile" => syncRoot[Requested(c)].data = Torn
    /\ handler[c].pc \in {"setTime", "checkList", "unlinkList", "rewriteList"}
          => syncRoot[Requested(c)].data = Head(inbox[c]).data
    /\ handler[c].pc \in {"checkList", "unlinkList", "rewriteList"}
          => syncRoot[Requested(c)].ts = Head(inbox[c]).ts
    /\ handler[c].pc = "answerDeleted" => ~Exists(c)
    /\ handler[c].pc = "mark" => Requested(c) \notin mContent
    /\ handler[c].pc = "saveMark" => Requested(c) \in mContent
    /\ handler[c].pc = "rewriteList" =>
          ~cutList /\ listFile = [exists |-> FALSE, lines |-> {}, tail |-> {}]

Undisturbed(c) == Listing(c) /\ Working(c)

SInv == /\ \A c \in Client : Undisturbed(c)
        /\ NoAbort
        /\ WholeAtRest
        /\ ListPersisted
        /\ Rewriting \/ listFile.exists
        /\ lost = {} /\ cutList \in BOOLEAN

-----------------------------------------------------------------------------
\* Where Goto and GotoUnlinking leave the handler they move.
LEMMA MovesTo ==
    ASSUME ThreadsOK, NEW c \in Client, NEW step
    PROVE  /\ Goto(c, step) =>
                 /\ handler'[c].pc = step
                 /\ handler'[c].names = handler[c].names
                 /\ handler'[c].list = handler[c].list
                 /\ handler'[c].linked = handler[c].linked
           /\ \A others : GotoUnlinking(c, step, others) =>
                 /\ handler'[c].pc = step
                 /\ handler'[c].names = handler[c].names
                 /\ handler'[c].list = handler[c].list
                 /\ handler'[c].linked = handler[c].linked
<1>1. /\ handler = [d \in Client |-> handler[d]]
      /\ handler[c] \in [pc : Step, names : SUBSET Path,
                         list : {handler[c].list}, linked : BOOLEAN]
    BY DEF ThreadsOK, IsHandler
<1> DEFINE h == [handler[c] EXCEPT !.pc = step]
<1>2. /\ h.pc = step /\ h.names = handler[c].names
      /\ h.list = handler[c].list /\ h.linked = handler[c].linked
    BY <1>1
<1>3. Goto(c, step) => handler'[c] = h
    BY <1>1 DEF Goto
<1>4. \A others : GotoUnlinking(c, step, others) => handler'[c] = h
    BY DEF GotoUnlinking
<1> HIDE DEF h
<1>5. QED
    BY <1>2, <1>3, <1>4

\* Opening a stream.
LEMMA OpensTo ==
    ASSUME ThreadsOK, NEW c \in Client, NEW step,
           handler' = [handler EXCEPT ![c].pc = step, ![c].linked = TRUE]
    PROVE  /\ handler'[c].pc = step /\ handler'[c].linked
           /\ handler'[c].list = handler[c].list
<1>1. /\ handler = [d \in Client |-> handler[d]]
      /\ handler[c] \in [pc : Step, names : SUBSET Path,
                         list : {handler[c].list}, linked : BOOLEAN]
    BY DEF ThreadsOK, IsHandler
<1> DEFINE h == [handler[c] EXCEPT !.pc = step, !.linked = TRUE]
<1>2. h.pc = step /\ h.list = handler[c].list /\ h.linked
    BY <1>1
<1>3. handler' = [handler EXCEPT ![c] = h]
    BY <1>1
<1> HIDE DEF h
<1>4. QED
    BY <1>1, <1>2, <1>3

\* The steps of the environment disturb nothing.
LEMMA OutsideKeepsSInv ==
    ASSUME IInv, SInv, [Next]_aloneVars,
           UNCHANGED <<syncRoot, mContent, listFile, handler, status, ghosts>>
    PROVE  SInv'
<1>1. ASSUME NEW c \in Client, Busy(c)
      PROVE  Head(inbox'[c]) = Head(inbox[c]) /\ Requested(c)' = Requested(c)
    BY <1>1, RequestStays DEF Requested, Busy
<1>2. ASSUME NEW c \in Client PROVE Undisturbed(c)'
  <2>1. Undisturbed(c)
    BY DEF SInv
  <2>2. Listing(c)'
    BY <2>1 DEF Undisturbed, Listing
  <2>3. Working(c)'
    BY <1>1, <2>1 DEF Undisturbed, Working, Present, Exists, Busy, ghosts
  <2>4. QED
    BY <2>2, <2>3 DEF Undisturbed
<1>3. Unsaved' = Unsaved
    BY <1>1 DEF Unsaved, Busy
<1>4. NoAbort' /\ ListPersisted' /\ (Rewriting \/ listFile.exists)' /\ lost' = {}
      /\ cutList' \in BOOLEAN
    BY <1>3 DEF SInv, NoAbort, ListPersisted, Rewriting, ghosts
<1>5. WholeAtRest'
    BY <1>1 DEF SInv, WholeAtRest, Busy, ghosts
<1>6. QED
    BY <1>2, <1>4, <1>5 DEF SInv

\* Nor does the end of a handler.
LEMMA ExpireKeepsSInv ==
    ASSUME IInv, SInv, NEW c \in Client, Expire(c)
    PROVE  SInv'
<1>t. ThreadsOK
    BY DEF IInv, ServerOK
<1>1. /\ handler[c].pc = "idle" /\ handler'[c].pc = "ended"
      /\ handler'[c].list = handler[c].list
      /\ \A d \in Client \ {c} : handler'[d] = handler[d]
      /\ UNCHANGED <<store, status, inbox, ghosts>>
    BY <1>t, MovesTo, Moves DEF Expire, Leave, At, connVars
<1>2. ASSUME NEW d \in Client PROVE Undisturbed(d)'
    BY <1>1 DEF SInv, Undisturbed, Listing, Working, Present, Writing, Exists,
       Requested, store, ghosts
<1>3. Unsaved' = Unsaved /\ Rewriting' = Rewriting
    BY <1>1 DEF Unsaved, Rewriting, Requested
<1>4. NoAbort' /\ ListPersisted' /\ (Rewriting \/ listFile.exists)' /\ lost' = {}
      /\ cutList' \in BOOLEAN
    BY <1>1, <1>3 DEF SInv, NoAbort, ListPersisted, ghosts, store
<1>5. WholeAtRest'
    BY <1>1 DEF SInv, WholeAtRest, Requested, ghosts, store
<1>6. QED
    BY <1>2, <1>4, <1>5 DEF SInv

\* A new process finds what is left of the list file in its memory, and knows
\* which file was being written.
LEMMA StartKeepsSInv ==
    ASSUME IInv, SInv, Start
    PROVE  SInv'
<1>1. ASSUME NEW c \in Client PROVE handler'[c] = Idle
    BY <1>1 DEF Start, NewProcess
<1>2. ASSUME NEW c \in Client PROVE Undisturbed(c)'
    BY <1>1 DEF Undisturbed, Listing, Working, Present, Writing, Idle
<1>3. /\ listFile' \in [exists : BOOLEAN, lines : SUBSET Path, tail : SUBSET Path]
      /\ listFile'.exists
    BY LeftIsPaths DEF Start, NewProcess
<1>4. Unsaved' = {}
    BY <1>1 DEF Unsaved, Idle
<1>5. ListPersisted'
    BY <1>3, <1>4 DEF Start, NewProcess, ListPersisted
<1>6. NoAbort' /\ (Rewriting \/ listFile.exists)' /\ lost' = {}
      /\ cutList' \in BOOLEAN
    BY <1>3 DEF Start, NewProcess, NoAbort
<1>7. WholeAtRest'
    BY DEF SInv, WholeAtRest, Start, NewProcess
<1>8. QED
    BY <1>2, <1>5, <1>6, <1>7 DEF SInv


\* The mark on its way to the list file, if c is alone.
UnsavedOf(c) == IF handler[c].pc = "saveMark" THEN {Requested(c)} ELSE {}

LEMMA UnsavedIs ==
    ASSUME NEW c \in Client, \A d \in Client : d = c
    PROVE  Unsaved = UnsavedOf(c) /\ Unsaved' = UnsavedOf(c)'
<1>1. Client = {c}
    OBVIOUS
<1>2. Unsaved = UnsavedOf(c)
    BY <1>1 DEF Unsaved, UnsavedOf
<1>3. Unsaved' = UnsavedOf(c)'
    BY <1>1 DEF Unsaved, UnsavedOf
<1>4. QED
    BY <1>2, <1>3

\* A thread that is alone keeps what it has achieved.
LEMMA HandleKeepsSInv ==
    ASSUME IInv, SInv, NEW c \in Client, \A d \in Client : d = c, Serve(c)
    PROVE  SInv'
<1> USE DEF At
<1>t. /\ IsDir(syncRoot) /\ mContent \subseteq Path /\ ThreadsOK
      /\ listFile \in [exists : BOOLEAN, lines : SUBSET Path, tail : SUBSET Path]
    BY DEF IInv, ServerOK, StoreOK
<1>h. Handle(c) /\ cutOff' = {p \in cutOff : p \in DOMAIN syncRoot'
                                               /\ syncRoot'[p].data = Torn}
      /\ cutList' = (cutList /\ handler[c].pc # "unlinkList")
    BY DEF Serve, SInv, NoAbort
<1>a. status = "running" /\ lost = {} /\ cutList' \in BOOLEAN
    BY <1>h DEF SInv, NoAbort
<1>q. /\ Listing(c) /\ Working(c)
      /\ \A p \in DOMAIN syncRoot : syncRoot[p].data = Torn =>
            \/ handler[c].pc = "writeFile" /\ Requested(c) = p
            \/ p \in cutOff
      /\ handler[c].pc # "rewriteList" /\ ~cutList =>
            listFile = [exists |-> TRUE, lines |-> mContent \ UnsavedOf(c), tail |-> {}]
      /\ handler[c].pc # "rewriteList" => listFile.exists
    BY UnsavedIs DEF SInv, Undisturbed, WholeAtRest, ListPersisted, Rewriting
<1>l. lost' = {}
  <2>1. ~Overwritten(c)
    BY DEF Overwritten
  <2>2. handler[c].pc = "mark" => Requested(c) \in mContent'
    BY <1>h, <2>1 DEF Handle, Resolve, SendTimeStamp, ListFiles, StatFile,
       SendFileList, FindRequested, CheckRequested, ReadRequested, TruncateFile,
       WriteFile, SetTime, CheckList, UnlinkList, RewriteList,
       GetServerDeletedList, OpenList, CheckMark, Mark, SaveMark, FindMarked,
       CheckMarked, UnlinkFile, AnswerDeleted, Race
  <2>3. QED
    BY <1>a, <2>2 DEF Serve
<1>g. SUFFICES
      /\ Listing(c)' /\ Working(c)'
      /\ status' = "running"
      /\ \A p \in DOMAIN syncRoot' : syncRoot'[p].data = Torn =>
            \/ handler'[c].pc = "writeFile" /\ Requested(c)' = p
            \/ p \in cutOff
      /\ handler'[c].pc # "rewriteList" /\ ~cutList' =>
            listFile' = [exists |-> TRUE, lines |-> mContent' \ UnsavedOf(c)',
                         tail |-> {}]
      /\ handler'[c].pc # "rewriteList" => listFile'.exists
  <2>1. WholeAtRest'
    BY <1>h, <1>g DEF WholeAtRest
  <2>2. ListPersisted' /\ (Rewriting \/ listFile.exists)'
    BY <1>g, UnsavedIs DEF ListPersisted, Rewriting
  <2>3. (\A d \in Client : Undisturbed(d))' /\ NoAbort'
    BY <1>g DEF Undisturbed, NoAbort
  <2>4. QED
    BY <1>a, <1>l, <2>1, <2>2, <2>3 DEF SInv
<1>r. ASSUME Busy(c), Busy(c)'
      PROVE  Head(inbox'[c]) = Head(inbox[c]) /\ Requested(c)' = Requested(c)
    BY <1>r, RequestStays DEF Next, Requested
<1>f. ASSUME NEW response, Finish(c, response)
      PROVE  handler'[c].pc = "idle" /\ handler'[c].list = Nothing
    BY <1>t, <1>f DEF Finish, Idle, ThreadsOK
<1>n. ASSUME NEW step, Goto(c, step)
      PROVE  /\ handler'[c].pc = step /\ handler'[c].linked = handler[c].linked
             /\ handler'[c].list = handler[c].list
    BY <1>t, <1>n, MovesTo
<1>u. ASSUME NEW step, NEW others, GotoUnlinking(c, step, others)
      PROVE  handler'[c].pc = step /\ handler'[c].list = handler[c].list
    BY <1>t, <1>u, MovesTo
<1> USE DEF Busy
<1>1. CASE Resolve(c)
  <2>1. Head(inbox[c]) \in Request
    BY <1>1, HeadTailProperties DEF Resolve, IInv, ServerOK, ChannelsOK
  <2>2. /\ handler'[c].pc = Head(inbox[c]).type
        /\ handler'[c].list = handler[c].list
        /\ handler'[c].pc \in {"GetTime", "GetFileList", "GetDeletedList",
              "GetFileByPath", "MarkAsDeleted", "SendFileToServer"}
    BY <1>1, <1>n, <2>1 DEF Resolve, Request
  <2>3. Listing(c)' /\ Working(c)'
    BY <1>1, <1>q, <2>2 DEF Resolve, Listing, Working, Present, Writing
  <2>4. UnsavedOf(c)' = {} /\ UnsavedOf(c) = {}
    BY <1>1, <2>2 DEF Resolve, UnsavedOf
  <2>5. QED
    BY <1>1, <1>a, <1>h, <1>q, <2>2, <2>3, <2>4 DEF Resolve, store
<1>2. CASE SendTimeStamp(c) \/ SendFileList(c) \/ ReadRequested(c)
           \/ GetServerDeletedList(c) \/ AnswerDeleted(c)
  <2>1. /\ handler'[c].pc = "idle" /\ handler'[c].list = Nothing
        /\ UNCHANGED <<store, status>>
    BY <1>2, <1>f DEF SendTimeStamp, ReadRequested, GetServerDeletedList,
       AnswerDeleted, SendFileList
  <2>2. handler[c].pc \notin {"writeFile", "unlinkList", "rewriteList", "saveMark"}
    BY <1>2 DEF SendTimeStamp, ReadRequested, GetServerDeletedList, AnswerDeleted,
       SendFileList
  <2>3. Listing(c)' /\ Working(c)' /\ UnsavedOf(c)' = {} /\ UnsavedOf(c) = {}
    BY <2>1, <2>2 DEF Listing, Working, Present, Writing, UnsavedOf
  <2>4. QED
    BY <1>a, <1>h, <1>q, <2>1, <2>2, <2>3 DEF store
<1>3. CASE ListFiles(c)
  <2> DEFINE h == [handler[c] EXCEPT !.pc = "statFiles", !.names = DOMAIN syncRoot]
  <2>1. h.pc = "statFiles" /\ h.names = DOMAIN syncRoot /\ h.list = handler[c].list
    BY <1>t DEF ThreadsOK, IsHandler
  <2>2. handler' = [handler EXCEPT ![c] = h]
    BY <1>3, <1>t DEF ListFiles, ThreadsOK
  <2> HIDE DEF h
  <2>3. handler'[c] = h
    BY <1>t, <2>2 DEF ThreadsOK
  <2>4. handler[c].pc = "GetFileList" /\ handler[c].list = Nothing
    BY <1>3, <1>q DEF ListFiles, Listing
  <2>5. Nothing = Scan(syncRoot, DOMAIN syncRoot \ DOMAIN syncRoot)
    BY DEF Nothing, Scan
  <2>6. Listing(c)' /\ Working(c)' /\ UnsavedOf(c)' = {} /\ UnsavedOf(c) = {}
    BY <1>3, <2>1, <2>3, <2>4, <2>5
       DEF ListFiles, Listing, Working, Present, Writing, UnsavedOf, store
  <2>7. QED
    BY <1>3, <1>a, <1>h, <1>q, <2>1, <2>3, <2>4, <2>6 DEF ListFiles, store
<1>4. CASE StatFile(c)
  <2>1. PICK p \in handler[c].names :
          \/ /\ handler' = [handler EXCEPT ![c].names = @ \ {p},
                   ![c].list = IF p \in DOMAIN syncRoot
                               THEN Put(@, p, syncRoot[p].ts) ELSE @]
             /\ UNCHANGED <<store, status, now, connVars>>
          \/ p \notin DOMAIN syncRoot /\ Abort("exception")
    BY <1>4 DEF StatFile
  <2>2. handler[c].pc = "statFiles" /\ p \in DOMAIN syncRoot
        /\ handler[c].list = Scan(syncRoot, DOMAIN syncRoot \ handler[c].names)
        /\ handler[c].names \subseteq DOMAIN syncRoot
    BY <1>4, <1>q DEF StatFile, Listing
  <2> DEFINE l == Put(handler[c].list, p, syncRoot[p].ts)
             h == [handler[c] EXCEPT !.names = @ \ {p}, !.list = l]
  <2>3. UNCHANGED <<store, status, now, connVars>>
    BY <2>1, <2>2
  <2>4. handler' = [handler EXCEPT ![c] = h]
    BY <1>t, <2>1, <2>2 DEF ThreadsOK
  <2>5. l = Scan(syncRoot, DOMAIN syncRoot \ (handler[c].names \ {p}))
    <3>1. DOMAIN l = DOMAIN syncRoot \ (handler[c].names \ {p})
      BY <2>2 DEF Put, Scan
    <3>2. \A q \in DOMAIN l : l[q] = syncRoot[q].ts
      BY <2>2 DEF Put, Scan
    <3>3. l = [q \in DOMAIN l |-> l[q]]
      BY DEF Put
    <3> HIDE DEF l
    <3>4. QED
      BY <3>1, <3>2, <3>3 DEF Scan
  <2> HIDE DEF l
  <2>6. h.pc = "statFiles" /\ h.names = handler[c].names \ {p} /\ h.list = l
    BY <1>t, <2>2 DEF ThreadsOK, IsHandler
  <2> HIDE DEF h
  <2>7. handler'[c] = h
    BY <1>t, <2>4 DEF ThreadsOK
  <2>8. Listing(c)' /\ Working(c)' /\ UnsavedOf(c)' = {} /\ UnsavedOf(c) = {}
    BY <2>2, <2>3, <2>5, <2>6, <2>7
       DEF Listing, Working, Present, Writing, UnsavedOf, store
  <2>9. QED
    BY <1>a, <1>h, <1>q, <2>2, <2>3, <2>6, <2>7, <2>8 DEF store
<1>5. CASE FindRequested(c) \/ FindMarked(c)
  <2>1. /\ handler'[c].pc \in {"idle", "checkFile", "checkGone"}
        /\ handler'[c].pc # "idle" => Exists(c)
        /\ handler'[c].list = Nothing
        /\ UNCHANGED <<store, status>>
    BY <1>5, <1>q, <1>f, <1>n DEF FindRequested, FindMarked, Listing
  <2>2. handler[c].pc \in {"GetFileByPath", "findFile"}
    BY <1>5 DEF FindRequested, FindMarked
  <2>3. Listing(c)' /\ Working(c)' /\ UnsavedOf(c)' = {} /\ UnsavedOf(c) = {}
    BY <1>r, <2>1, <2>2
       DEF Listing, Working, Present, Writing, Exists, UnsavedOf, store
  <2>4. QED
    BY <1>a, <1>h, <1>q, <2>1, <2>2, <2>3 DEF store
<1>6. CASE CheckRequested(c) \/ CheckMarked(c)
  <2>1. Exists(c)
    BY <1>6, <1>q DEF CheckRequested, CheckMarked, Working, Present
  <2>2. /\ handler'[c].pc \in {"readFile", "unlinkFile"}
        /\ handler'[c].list = handler[c].list
        /\ UNCHANGED <<store, status>>
    BY <1>6, <1>n, <2>1 DEF CheckRequested, CheckMarked, Assert
  <2>3. handler[c].pc \in {"checkFile", "checkGone"}
    BY <1>6 DEF CheckRequested, CheckMarked
  <2>4. Listing(c)' /\ Working(c)' /\ UnsavedOf(c)' = {} /\ UnsavedOf(c) = {}
    BY <1>q, <1>r, <2>1, <2>2, <2>3
       DEF Listing, Working, Present, Writing, Exists, UnsavedOf, store
  <2>5. QED
    BY <1>a, <1>h, <1>q, <2>2, <2>3, <2>4 DEF store
<1>7. CASE TruncateFile(c)
  <2>1. /\ handler'[c].pc = "writeFile" /\ handler'[c].linked
        /\ handler'[c].list = handler[c].list
    BY <1>7, <1>t, OpensTo DEF TruncateFile
  <2>2. handler[c].pc = "SendFileToServer" /\ Requested(c)' = Requested(c)
    BY <1>7, <1>r, <2>1 DEF TruncateFile
  <2>3. /\ Exists(c)' /\ syncRoot'[Requested(c)].data = Torn
        /\ \A p \in DOMAIN syncRoot' : p # Requested(c) =>
              p \in DOMAIN syncRoot /\ syncRoot'[p] = syncRoot[p]
    BY <1>7, <2>2 DEF TruncateFile, Put, Exists
  <2>4. Listing(c)' /\ Working(c)' /\ UnsavedOf(c)' = {} /\ UnsavedOf(c) = {}
    BY <1>q, <2>1, <2>2, <2>3 DEF Listing, Working, Present, Writing, UnsavedOf
  <2>5. UNCHANGED <<mContent, listFile, status>>
    BY <1>7 DEF TruncateFile
  <2>6. QED
    BY <1>a, <1>h, <1>q, <2>1, <2>2, <2>3, <2>4, <2>5
<1>8. CASE WriteFile(c)
  <2>1. handler'[c].pc = "setTime" /\ handler[c].pc = "writeFile"
        /\ handler'[c].list = handler[c].list
        /\ UNCHANGED <<mContent, listFile, status>>
    BY <1>8, <1>n DEF WriteFile
  <2>2. Requested(c)' = Requested(c) /\ Head(inbox'[c]) = Head(inbox[c])
    BY <1>r, <2>1
  <2>3. Head(inbox[c]).data # Torn
    BY <2>1, RequestOfStep, ServesTable DEF IInv, ServerOK
  <2>4. syncRoot' = Put(syncRoot, Requested(c),
                        [ts |-> now, data |-> Head(inbox[c]).data])
    BY <1>8, <1>q, <2>1, <2>3 DEF WriteFile, Working, Writing
  <2>5. /\ Exists(c)' /\ syncRoot'[Requested(c)].data = Head(inbox[c]).data
        /\ \A p \in DOMAIN syncRoot' : p # Requested(c) =>
              p \in DOMAIN syncRoot /\ syncRoot'[p] = syncRoot[p]
    BY <2>2, <2>4 DEF Put, Exists
  <2>6. Listing(c)' /\ Working(c)' /\ UnsavedOf(c)' = {} /\ UnsavedOf(c) = {}
    BY <1>q, <2>1, <2>2, <2>5 DEF Listing, Working, Present, Writing, UnsavedOf
  <2>7. QED
    BY <1>a, <1>h, <1>q, <2>1, <2>2, <2>3, <2>5, <2>6
<1>9. CASE SetTime(c)
  <2>1. handler'[c].pc = "checkList" /\ handler[c].pc = "setTime" /\ Exists(c)
        /\ handler'[c].list = handler[c].list
        /\ syncRoot' = [syncRoot EXCEPT ![Requested(c)].ts = Head(inbox[c]).ts]
        /\ UNCHANGED <<mContent, listFile, status>>
    BY <1>9, <1>q, <1>n DEF SetTime, Working, Present
  <2>2. Requested(c)' = Requested(c) /\ Head(inbox'[c]) = Head(inbox[c])
    BY <1>r, <2>1
  <2>3. /\ Exists(c)' /\ DOMAIN syncRoot' = DOMAIN syncRoot
        /\ syncRoot'[Requested(c)].ts = Head(inbox[c]).ts
        /\ \A p \in DOMAIN syncRoot : syncRoot'[p].data = syncRoot[p].data
    BY <1>t, <2>1, <2>2 DEF Exists, IsDir, File
  <2>4. Listing(c)' /\ Working(c)' /\ UnsavedOf(c)' = {} /\ UnsavedOf(c) = {}
    BY <1>q, <2>1, <2>2, <2>3
       DEF Listing, Working, Present, Writing, UnsavedOf, Exists
  <2>5. QED
    BY <1>a, <1>h, <1>q, <2>1, <2>3, <2>4
<1>10. CASE CheckList(c)
  <2>1. handler'[c].pc = "unlinkList" /\ handler[c].pc = "checkList"
        /\ handler'[c].list = handler[c].list
        /\ mContent' = mContent \ {fullPath(Requested(c))}
        /\ UNCHANGED <<syncRoot, listFile, status>>
    BY <1>10, <1>q, <1>n DEF CheckList
  <2>2. Requested(c)' = Requested(c) /\ Head(inbox'[c]) = Head(inbox[c])
    BY <1>r, <2>1
  <2>3. mContent' = mContent
    BY <1>10, MarkErasesNothing
  <2>4. Listing(c)' /\ Working(c)' /\ UnsavedOf(c)' = {} /\ UnsavedOf(c) = {}
    BY <1>q, <2>1, <2>2, <2>3
       DEF Listing, Working, Present, Writing, UnsavedOf, Exists
  <2>5. QED
    BY <1>a, <1>h, <1>q, <2>1, <2>3, <2>4
<1>11. CASE UnlinkList(c)
  <2>1. handler'[c].pc = "rewriteList" /\ handler[c].pc = "unlinkList"
        /\ handler'[c].list = handler[c].list
        /\ listFile' = [exists |-> FALSE, lines |-> {}, tail |-> {}]
        /\ UNCHANGED <<syncRoot, mContent, status>>
    BY <1>11, <1>u DEF UnlinkList
  <2>2. Requested(c)' = Requested(c) /\ Head(inbox'[c]) = Head(inbox[c])
    BY <1>r, <2>1
  <2>3. Listing(c)' /\ Working(c)'
    BY <1>h, <1>q, <2>1, <2>2 DEF Listing, Working, Present, Writing, Exists
  <2>4. QED
    BY <1>a, <1>q, <2>1, <2>3
<1>12. CASE RewriteList(c)
  <2>1. handler'[c].pc = "idle" /\ handler[c].pc = "rewriteList"
        /\ handler'[c].list = Nothing
        /\ listFile' = [listFile EXCEPT !.exists = TRUE, !.lines = @ \cup mContent]
        /\ UNCHANGED <<syncRoot, mContent, status>>
    BY <1>12, <1>f DEF RewriteList
  <2>2. listFile = [exists |-> FALSE, lines |-> {}, tail |-> {}]
    BY <1>q, <2>1 DEF Working
  <2>3. listFile' = [exists |-> TRUE, lines |-> mContent', tail |-> {}]
    BY <2>1, <2>2
  <2>4. Listing(c)' /\ Working(c)' /\ UnsavedOf(c)' = {}
    BY <2>1 DEF Listing, Working, Present, Writing, UnsavedOf
  <2>5. QED
    BY <1>a, <1>q, <2>1, <2>3, <2>4
<1>13. CASE OpenList(c)
  <2>1. /\ handler'[c].pc = "checkMark" /\ handler'[c].linked
        /\ handler'[c].list = handler[c].list
    BY <1>13, <1>t, OpensTo DEF OpenList
  <2>2. /\ handler[c].pc = "MarkAsDeleted"
        /\ UNCHANGED <<syncRoot, mContent, status>>
        /\ listFile' = [listFile EXCEPT !.exists = TRUE]
    BY <1>13 DEF OpenList
  <2>3. listFile' = listFile
    BY <1>q, <1>t, <2>2
  <2>4. Listing(c)' /\ Working(c)' /\ UnsavedOf(c)' = {} /\ UnsavedOf(c) = {}
    BY <1>q, <2>1, <2>2 DEF Listing, Working, Present, Writing, UnsavedOf
  <2>5. QED
    BY <1>a, <1>h, <1>q, <2>1, <2>2, <2>3, <2>4
<1>14. CASE CheckMark(c)
  <2>1. /\ handler[c].pc = "checkMark"
        /\ handler'[c].pc = IF Requested(c) \in mContent THEN "findFile" ELSE "mark"
        /\ handler'[c].linked = handler[c].linked
        /\ handler'[c].list = handler[c].list
        /\ UNCHANGED <<store, status>>
    BY <1>14, <1>n DEF CheckMark
  <2>2. Requested(c)' = Requested(c)
    BY <1>r, <2>1
  <2>3. Listing(c)' /\ Working(c)' /\ UnsavedOf(c)' = {} /\ UnsavedOf(c) = {}
    BY <1>q, <2>1, <2>2 DEF Listing, Working, Present, Writing, UnsavedOf, store
  <2>4. QED
    BY <1>a, <1>h, <1>q, <2>1, <2>3 DEF store
<1>15. CASE Mark(c)
  <2>1. /\ handler[c].pc = "mark" /\ handler'[c].pc = "saveMark"
        /\ handler'[c].linked = handler[c].linked
        /\ handler'[c].list = handler[c].list
        /\ mContent' = mContent \cup {Requested(c)}
        /\ UNCHANGED <<syncRoot, listFile, status>>
    BY <1>15, <1>n DEF Mark
  <2>2. Requested(c)' = Requested(c) /\ Requested(c) \notin mContent
    BY <1>q, <1>r, <2>1 DEF Working
  <2>3. Listing(c)' /\ Working(c)'
    BY <1>q, <2>1, <2>2 DEF Listing, Working, Present, Writing
  <2>4. UnsavedOf(c) = {} /\ mContent' \ UnsavedOf(c)' = mContent
    BY <2>1, <2>2 DEF UnsavedOf
  <2>5. QED
    BY <1>a, <1>h, <1>q, <2>1, <2>3, <2>4
<1>16. CASE SaveMark(c)
  <2>1. /\ handler[c].pc = "saveMark" /\ handler'[c].pc = "findFile"
        /\ handler'[c].list = handler[c].list
        /\ UNCHANGED <<syncRoot, mContent, status>>
    BY <1>16, <1>n DEF SaveMark
  <2>2. handler[c].linked /\ Requested(c) \in mContent
    BY <1>q, <2>1 DEF Working, Writing
  <2>3. PICK lines \in Appended(Requested(c)) :
            listFile' = [listFile EXCEPT !.lines = @ \cup lines, !.tail = {}]
    BY <1>16, <2>2 DEF SaveMark
  <2>4. Listing(c)' /\ Working(c)' /\ UnsavedOf(c)' = {}
    BY <1>q, <2>1 DEF Listing, Working, Present, Writing, UnsavedOf
  <2>5. ASSUME ~cutList
        PROVE  listFile' = [exists |-> TRUE, lines |-> mContent', tail |-> {}]
    <3>1. listFile = [exists |-> TRUE, lines |-> mContent \ {Requested(c)},
                      tail |-> {}]
      BY <1>q, <2>1, <2>5 DEF UnsavedOf
    <3>2. lines = {Requested(c)}
      BY <2>3, <3>1 DEF Appended
    <3>3. (mContent \ {Requested(c)}) \cup {Requested(c)} = mContent'
      BY <2>1, <2>2
    <3>4. QED
      BY <2>3, <3>1, <3>2, <3>3
  <2>6. listFile'.exists
    BY <1>q, <1>t, <2>1, <2>3
  <2>7. QED
    BY <1>a, <1>h, <1>q, <2>1, <2>4, <2>5, <2>6
<1>17. CASE UnlinkFile(c)
  <2>1. handler'[c].pc = "answerDeleted" /\ handler[c].pc = "unlinkFile"
        /\ handler'[c].list = handler[c].list
        /\ syncRoot' = Drop(syncRoot, Requested(c))
        /\ UNCHANGED <<mContent, listFile, status>>
    BY <1>17, <1>u DEF UnlinkFile
  <2>2. Requested(c)' = Requested(c)
    BY <1>r, <2>1
  <2>3. /\ ~Exists(c)'
        /\ \A p \in DOMAIN syncRoot' :
              p \in DOMAIN syncRoot /\ syncRoot'[p] = syncRoot[p]
    BY <2>1, <2>2 DEF Drop, Exists
  <2>4. Listing(c)' /\ Working(c)' /\ UnsavedOf(c)' = {} /\ UnsavedOf(c) = {}
    BY <1>q, <2>1, <2>3 DEF Listing, Working, Present, Writing, UnsavedOf
  <2>5. QED
    BY <1>a, <1>h, <1>q, <2>1, <2>3, <2>4
<1>18. CASE Race(c) \/ Overwritten(c)
    BY <1>18 DEF Race, Overwritten
<1>19. QED
    BY <1>1, <1>2, <1>3, <1>4, <1>5, <1>6, <1>7, <1>8, <1>9, <1>10, <1>11,
       <1>12, <1>13, <1>14, <1>15, <1>16, <1>17, <1>18, <1>h DEF Handle

LEMMA NextKeepsSInv ==
    ASSUME \A c, d \in Client : c = d, IInv, SInv, [Next]_aloneVars
    PROVE  SInv'
<1>1. ASSUME NEW c \in Client, Serve(c) \/ Expire(c) PROVE SInv'
    BY <1>1, HandleKeepsSInv, ExpireKeepsSInv
<1>2. QED
    BY <1>1, OtherSteps, OutsideKeepsSInv, StartKeepsSInv DEF Next

LEMMA InitSInv == Init => SInv
<1> SUFFICES ASSUME Init PROVE SInv
    OBVIOUS
<1>1. \A c \in Client : handler[c] = Idle
    BY DEF Init, ServerInit
<1>2. Unsaved = {} /\ \A c \in Client : Undisturbed(c)
    BY <1>1 DEF Unsaved, Undisturbed, Listing, Working, Present, Writing, Idle
<1>3. QED
    BY <1>2 DEF Init, ServerInit, SInv, NoAbort, WholeAtRest, ListPersisted, EmptyDir

LEMMA SoleInductive ==
    ASSUME \A c, d \in Client : c = d
    PROVE  Spec => [](SInv /\ MarkedOnTheWay)
<1>1. Init => SInv /\ MarkedOnTheWay
    BY InitSInv DEF Init, ServerInit, MarkedOnTheWay, Marked, Idle
<1>2. IInv /\ SInv /\ MarkedOnTheWay /\ [Next]_aloneVars => (SInv /\ MarkedOnTheWay)'
    BY NextKeepsSInv, MarkedOnTheWayKept
<1>3. QED
    BY <1>1, <1>2, Inductive, PTL DEF Spec

-----------------------------------------------------------------------------
\* With one connection an acknowledged upload is in the directory with the
\* bytes and the time that were sent, and an acknowledged deletion is gone and
\* marked (ReceiveFileFromClient, MarkAsDeletedAction).
THEOREM SoleAcknowledgedHolds ==
    ASSUME \A c, d \in Client : c = d
    PROVE  Spec => []AcknowledgedHolds
<1>1. ASSUME SInv, MarkedOnTheWay, IInv PROVE AcknowledgedHolds
  <2> SUFFICES ASSUME NEW c \in Client PROVE
        /\ handler[c].pc \in {"checkList", "unlinkList", "rewriteList"} =>
              /\ Exists(c)
              /\ syncRoot[Requested(c)] = [ts |-> Head(inbox[c]).ts,
                                           data |-> Head(inbox[c]).data]
        /\ handler[c].pc = "answerDeleted" =>
              ~Exists(c) /\ Requested(c) \in mContent
    BY DEF AcknowledgedHolds
  <2>1. Working(c) /\ lost = {}
    BY <1>1 DEF SInv, Undisturbed
  <2>2. Exists(c) => syncRoot[Requested(c)] \in File
    BY <1>1 DEF IInv, ServerOK, StoreOK, IsDir, Exists
  <2>3. QED
    BY <1>1, <2>1, <2>2 DEF Working, Present, MarkedOnTheWay, Marked, File
<1>2. QED
    BY <1>1, SoleInductive, Inductive, PTL

\* With one connection a file is torn only while it is being uploaded, or after
\* the process ended in the middle of that (FileScanner::saveBytesAsFile).
THEOREM SoleWholeAtRest ==
    ASSUME \A c, d \in Client : c = d
    PROVE  Spec => []WholeAtRest
<1>1. SInv => WholeAtRest
    BY DEF SInv
<1>2. QED
    BY <1>1, SoleInductive, PTL

\* With one connection the list file agrees with the list in memory, but for
\* the mark that is on its way from the one to the other, between two rewritings
\* of it; if the end of the process cut a line in two, from the next rewriting
\* on (DeletedListManager).
THEOREM SoleListPersisted ==
    ASSUME \A c, d \in Client : c = d
    PROVE  Spec => []ListPersisted
<1>1. SInv => ListPersisted
    BY DEF SInv
<1>2. QED
    BY <1>1, SoleInductive, PTL

\* With one connection a new process knows every mark of the one before it but
\* for the one that had not reached the list file yet, unless that one ended
\* while it was rewriting the list file, or after such an end
\* (DeletedListManager::rereadFile, markAsDeleted, markAsExistent).
THEOREM SoleMarksSurvive ==
    ASSUME \A c, d \in Client : c = d
    PROVE  Spec => MarksSurvive
<1>1. ASSUME IInv, SInv, [Next]_aloneVars, ~Rewriting, ~cutList
      PROVE  mContent \ Unsaved \subseteq mContent'
  <2>1. CASE Start
    <3>1. listFile = [exists |-> TRUE, lines |-> mContent \ Unsaved, tail |-> {}]
      BY <1>1 DEF SInv, ListPersisted
    <3>2. listFile' = [listFile EXCEPT !.exists = TRUE]
      BY <1>1, <2>1 DEF Start, NewProcess, Left
    <3>3. QED
      BY <2>1, <3>1, <3>2 DEF Start
  <2>2. CASE ~Start
    BY <1>1, <2>2, MarksGrow
  <2>3. QED
    BY <2>1, <2>2
<1>2. IInv /\ SInv /\ [Next]_aloneVars
        => [~Rewriting /\ ~cutList => mContent \ Unsaved \subseteq mContent']_aloneVars
    BY <1>1
<1>3. QED
    BY <1>2, SoleInductive, Inductive, PTL DEF Spec, MarksSurvive
-----------------------------------------------------------------------------
(* ServerAlone with a single connection implements FileStore: every step   *)
(* of a thread, of the clients or of the operator is one step of the       *)
(* atomic store, or changes nothing that the store shows.                  *)

\* The store's files, when c is the only client.
SettledAt(c) ==
    IF handler[c].pc \in {"writeFile", "setTime"}
       THEN Put(syncRoot, Requested(c), [ts |-> Head(inbox[c]).ts,
                                         data |-> Head(inbox[c]).data])
    ELSE IF handler[c].pc \in Deleting THEN Drop(syncRoot, Requested(c))
    ELSE syncRoot

Sole == \A c, d \in Client : c = d

\* There is nothing but c's own request to be settled.
LEMMA SettledIs == Sole /\ SInv /\ IInv => \A c \in Client : Settled = SettledAt(c)
<1> SUFFICES ASSUME Sole, SInv, IInv, NEW c \in Client PROVE Settled = SettledAt(c)
    OBVIOUS
<1>1. CASE handler[c].pc \in {"writeFile", "setTime"}
  <2>1. Exists(c)
    BY <1>1 DEF SInv, Undisturbed, Working, Present
  <2>2. InStep(Deleting) = {}
    BY <1>1 DEF Sole, InStep, Deleting
  <2>3. \A p : Incoming(p) = IF p = Requested(c) THEN {c} ELSE {}
    BY <1>1 DEF Sole, InStep, Incoming
  <2>4. (CHOOSE d \in {c} : TRUE) = c
    OBVIOUS
  <2>5. DOMAIN syncRoot \ {Requested(d) : d \in InStep(Deleting)}
            = DOMAIN syncRoot \cup {Requested(c)}
    BY <2>1, <2>2 DEF Exists
  <2>6. QED
    BY <1>1, <2>3, <2>4, <2>5 DEF Settled, SettledAt, Put
<1>2. CASE handler[c].pc \in Deleting
  <2>1. {Requested(d) : d \in InStep(Deleting)} = {Requested(c)}
    BY <1>2 DEF Sole, InStep
  <2>2. \A p : Incoming(p) = {}
    BY <1>2 DEF Sole, InStep, Incoming, Deleting
  <2>3. QED
    BY <1>2, <2>1, <2>2 DEF Settled, SettledAt, Drop, Deleting
<1>3. CASE handler[c].pc \notin {"writeFile", "setTime"} \cup Deleting
  <2>1. InStep(Deleting) = {} /\ \A p : Incoming(p) = {}
    BY <1>3 DEF Sole, InStep, Incoming
  <2>2. Settled = [p \in DOMAIN syncRoot |-> syncRoot[p]]
    BY <2>1 DEF Settled
  <2>3. QED
    BY <1>3, <2>2 DEF SettledAt, IInv, ServerOK, StoreOK, IsDir
<1>4. QED
    BY <1>1, <1>2, <1>3

\* The same in the next state.
LEMMA SettledWillBe ==
    (Sole /\ SInv /\ IInv)' => (\A c \in Client : Settled = SettledAt(c))'
BY SettledIs, PTL

\* The store's marks, and whether they will spoil, when c is the only client.
MarksAt(c) == mContent \ UnsavedOf(c)

FrailAt(c) == cutList /\ handler[c].pc \notin Storing

LEMMA MarksAre ==
    ASSUME Sole, NEW c \in Client
    PROVE  /\ mContent \ Unsaved = MarksAt(c)
           /\ (mContent \ Unsaved)' = MarksAt(c)'
           /\ (cutList /\ InStep(Storing) = {}) = FrailAt(c)
           /\ (cutList /\ InStep(Storing) = {})' = FrailAt(c)'
<1>1. /\ Unsaved = UnsavedOf(c) /\ Unsaved' = UnsavedOf(c)'
      /\ Client = {c}
    BY UnsavedIs DEF Sole
<1>2. InStep(Storing) = {} <=> handler[c].pc \notin Storing
    BY <1>1 DEF InStep
<1>3. InStep(Storing)' = {} <=> handler'[c].pc \notin Storing
    BY <1>1 DEF InStep
<1>4. QED
    BY <1>1, <1>2, <1>3 DEF MarksAt, FrailAt

-----------------------------------------------------------------------------
(* Steps of the thread.                                                    *)

\* The thread's position before and after a step, for the lemmas below.
Before == Sole /\ IInv /\ SInv
After == IInv' /\ SInv'

LEMMA SettledNow ==
    ASSUME Before, NEW c \in Client
    PROVE  Settled = SettledAt(c)
BY SettledIs DEF Before

LEMMA SettledNext ==
    ASSUME Before, After, NEW c \in Client
    PROVE  Settled' = SettledAt(c)'
BY SettledWillBe DEF Before, After, Sole

\* A step that leaves everything the store shows.
LEMMA StutterStep ==
    ASSUME Before, After, NEW c \in Client,
           SettledAt(c)' = SettledAt(c), Owed(c)' = Owed(c),
           MarksAt(c)' = MarksAt(c), FrailAt(c)' = FrailAt(c),
           UNCHANGED <<now, connVars>>
    PROVE  UNCHANGED Store!allVars
<1>1. Settled' = Settled
    BY SettledNow, SettledNext
<1>2. [d \in Client |-> Owed(d)]' = [d \in Client |-> Owed(d)]
    BY DEF Before, Sole
<1>3. /\ (mContent \ Unsaved)' = mContent \ Unsaved
      /\ (cutList /\ InStep(Storing) = {})' = (cutList /\ InStep(Storing) = {})
    BY MarksAre DEF Before
<1>4. QED
    BY <1>1, <1>2, <1>3 DEF Store!allVars, Store!storeVars, Store!connVars, connVars

\* An answer to a request that changes nothing.
LEMMA LookStep ==
    ASSUME Before, After, NEW c \in Client, status = "running",
           Busy(c), handler[c].pc \notin Storing \cup Deleting \cup {"saveMark"},
           Head(inbox[c]).type \in {"GetTime", "GetFileList", "GetDeletedList",
                                    "GetFileByPath"},
           Finish(c, Store!View(Head(inbox[c]))),
           UNCHANGED <<store, cutList, now>>
    PROVE  Store!Look(c)
<1>1. handler'[c].pc = "idle"
    BY DEF Finish, Idle, Before, IInv, ServerOK, ThreadsOK
<1>2. SettledAt(c) = syncRoot /\ SettledAt(c)' = syncRoot
    BY <1>1 DEF SettledAt, Storing, Deleting, store
<1>3. Owed(c) = NoReply /\ Owed(c)' = NoReply
    BY <1>1 DEF Owed, Storing, Deleting
<1>4. Settled' = Settled
    BY <1>2, SettledNow, SettledNext
<1>5. [d \in Client |-> Owed(d)]' = [d \in Client |-> Owed(d)]
    BY <1>3 DEF Before, Sole
<1>6. Store!Asked(c, Head(inbox[c]).type)
    BY <1>3 DEF Store!Asked, Store!Oldest, Store!NoReply, NoReply, Before, IInv,
       Serving
<1>7. Store!Answer(c, Store!View(Store!Oldest(c)))
    BY DEF Finish, Answer, Store!Answer, Store!Oldest
<1>8. MarksAt(c)' = MarksAt(c) /\ FrailAt(c)' = FrailAt(c)
    BY <1>1 DEF MarksAt, UnsavedOf, FrailAt, Storing, store
<1>9. /\ (mContent \ Unsaved)' = mContent \ Unsaved
      /\ (cutList /\ InStep(Storing) = {})' = (cutList /\ InStep(Storing) = {})
    BY <1>8, MarksAre DEF Before
<1>10. QED
    BY <1>4, <1>5, <1>6, <1>7, <1>9 DEF Store!Look, Store!storeVars

\* An answer to a request that has been carried out.
LEMMA ConfirmStep ==
    ASSUME Before, After, NEW c \in Client, status = "running",
           handler[c].pc \in {"rewriteList", "findFile", "answerDeleted"},
           Finish(c, Owed(c)), SettledAt(c) = syncRoot,
           UNCHANGED <<syncRoot, mContent, cutList, now>>
    PROVE  Store!Confirm(c)
<1>1. handler'[c].pc = "idle"
    BY DEF Finish, Idle, Before, IInv, ServerOK, ThreadsOK
<1>2. SettledAt(c)' = syncRoot
    BY <1>1 DEF SettledAt, Storing, Deleting, store
<1>3. Owed(c) # NoReply /\ Owed(c)' = NoReply
    BY <1>1 DEF Owed, Storing, Deleting, NoReply
<1>4. Settled' = Settled
    BY <1>2, SettledNow, SettledNext
<1>5. [d \in Client |-> Owed(d)]'
        = [[d \in Client |-> Owed(d)] EXCEPT ![c] = NoReply]
    BY <1>3 DEF Before, Sole
<1>6. Store!Answer(c, Owed(c))
    BY DEF Finish, Answer, Store!Answer
<1>7. Store!NoReply = NoReply
    BY DEF Store!NoReply, NoReply
<1>8. MarksAt(c)' = MarksAt(c)
    BY <1>1 DEF MarksAt, UnsavedOf
<1>9. FrailAt(c)' = FrailAt(c)
    BY <1>1 DEF FrailAt, Storing, Before, SInv, Undisturbed, Working
<1>10. /\ (mContent \ Unsaved)' = mContent \ Unsaved
       /\ (cutList /\ InStep(Storing) = {})' = (cutList /\ InStep(Storing) = {})
    BY <1>8, <1>9, MarksAre DEF Before
<1>11. QED
    BY <1>3, <1>4, <1>5, <1>6, <1>7, <1>10 DEF Store!Confirm

\* Positions without a change under way show the directory itself.
LEMMA QuietStep ==
    ASSUME Before, After, NEW c \in Client,
           handler[c].pc \notin Storing \cup Deleting,
           handler'[c].pc \notin Storing \cup Deleting,
           MarksAt(c)' = MarksAt(c),
           UNCHANGED <<syncRoot, cutList, now, connVars>>
    PROVE  UNCHANGED Store!allVars
<1>1. /\ SettledAt(c)' = SettledAt(c) /\ Owed(c)' = Owed(c)
      /\ FrailAt(c)' = FrailAt(c)
    BY DEF SettledAt, Owed, FrailAt, Storing, Deleting
<1>2. QED
    BY <1>1, StutterStep

\* The moment from which a deletion counts.
LEMMA DeleteStep ==
    ASSUME Before, After, NEW c \in Client,
           handler[c].pc \in {"checkMark", "saveMark"}, handler'[c].pc = "findFile",
           MarksAt(c)' = MarksAt(c) \cup {Requested(c)},
           [Next]_aloneVars, UNCHANGED <<syncRoot, cutList, now, connVars>>
    PROVE  Store!Delete(c)
<1>1. Busy(c) /\ Busy(c)'
    BY DEF Busy
<1>2. Requested(c)' = Requested(c)
    BY <1>1, RequestStays DEF Before, Requested
<1>3. Head(inbox[c]).type = "MarkAsDeleted" /\ inbox[c] # <<>>
    BY <1>1, ServesTable DEF Before, IInv, Serving
<1>4. Settled = syncRoot /\ Settled' = Drop(syncRoot, Requested(c))
    BY <1>2, SettledNow, SettledNext DEF SettledAt, Deleting
<1>5. /\ Owed(c) = NoReply
      /\ Owed(c)' = [type |-> "ServerDeletedResponse",
                     status |-> IF Requested(c) \in DOMAIN syncRoot THEN 0 ELSE 1]
    BY <1>2 DEF Owed, Storing, Deleting, Exists
<1>6. [d \in Client |-> Owed(d)]' = [[d \in Client |-> Owed(d)] EXCEPT ![c] = Owed(c)']
    BY DEF Before, Sole
<1>7. Store!Drop(Settled, Requested(c)) = Settled'
    BY <1>4 DEF Store!Drop, Drop
<1>8. Store!Asked(c, "MarkAsDeleted")
    BY <1>3, <1>5 DEF Store!Asked, Store!Oldest, Store!NoReply, NoReply
<1>9. FrailAt(c)' = FrailAt(c)
    BY DEF FrailAt, Storing
<1>10. /\ (mContent \ Unsaved)' = (mContent \ Unsaved) \cup {Requested(c)}
       /\ (cutList /\ InStep(Storing) = {})' = (cutList /\ InStep(Storing) = {})
    BY <1>9, MarksAre DEF Before
<1>11. QED
    BY <1>4, <1>5, <1>6, <1>7, <1>8, <1>10 DEF Store!Delete, Store!Oldest,
       Requested, Store!connVars, connVars

LEMMA ThreadImplements ==
    ASSUME Before, After, NEW c \in Client, Serve(c)
    PROVE  Store!Next \/ UNCHANGED Store!allVars
<1> USE DEF At
<1>h. Handle(c) /\ (handler[c].pc # "unlinkList" => cutList' = cutList)
    BY DEF Serve, Before, SInv, NoAbort
<1>t. /\ IsDir(syncRoot) /\ ThreadsOK
      /\ mContent \subseteq Path
      /\ Listing(c) /\ Working(c)
    BY DEF Before, IInv, SInv, ServerOK, StoreOK, Undisturbed
<1>r. Busy(c) => /\ Head(inbox[c]) \in Request
                                /\ Head(inbox[c]).type = Serves(handler[c].pc)
                                /\ inbox[c] # <<>>
    BY HeadTailProperties DEF Before, IInv, ServerOK, ChannelsOK, Serving
<1>n. ASSUME NEW step, Goto(c, step) PROVE handler'[c].pc = step
    BY <1>t, <1>n, MovesTo
<1>m. ASSUME handler[c].pc # "saveMark", handler'[c].pc # "saveMark",
             UNCHANGED mContent
      PROVE  MarksAt(c)' = MarksAt(c)
    BY <1>m DEF MarksAt, UnsavedOf
<1>e. ASSUME UNCHANGED cutList, handler[c].pc \in Storing <=> handler'[c].pc \in Storing
      PROVE  FrailAt(c)' = FrailAt(c)
    BY <1>e DEF FrailAt
<1>k. Busy(c) /\ Busy(c)'
        => Head(inbox'[c]) = Head(inbox[c]) /\ Requested(c)' = Requested(c)
    BY RequestStays DEF Next, Requested, Before
<1>x. [Next]_aloneVars
    BY DEF Next
<1>L. Store!Look(c) \/ Store!StoreFile(c) \/ Store!Delete(c) \/ Store!Confirm(c)
        => Store!Next
    BY DEF Store!Next
<1>v. ASSUME Busy(c), handler[c].pc # "saveMark"
      PROVE  LET r == Head(inbox[c]) IN
             /\ r.type = "GetTime" =>
                  Store!View(r) = [type |-> "ServerTime", time |-> now]
             /\ r.type = "GetDeletedList" =>
                  Store!View(r) = [type |-> "ServerDeletedList", paths |-> mContent]
  <2>1. mContent \ Unsaved = mContent
    BY <1>v, UnsavedIs DEF Before, Sole, UnsavedOf
  <2>2. QED
    BY <2>1 DEF Store!View
<1>f. ASSUME handler[c].pc \notin Storing \cup Deleting, Busy(c)
      PROVE  LET r == Head(inbox[c]) IN
             /\ r.type = "GetFileList" =>
                  Store!View(r) = [type |-> "ServerFileList",
                                   files |-> Scan(syncRoot, DOMAIN syncRoot)]
             /\ r.type = "GetFileByPath" =>
                  Store!View(r) =
                     IF r.path \in DOMAIN syncRoot
                     THEN [type |-> "FileFromServer", status |-> 0,
                           data |-> syncRoot[r.path].data]
                     ELSE [type |-> "FileFromServer", status |-> 1, data |-> Torn]
  <2>1. Settled = syncRoot
    BY <1>f, SettledNow DEF SettledAt, Storing, Deleting
  <2>2. QED
    BY <2>1 DEF Store!View, Store!Scan, Scan, Store!Torn, Torn
<1> USE DEF Busy
<1>1. CASE Resolve(c)
  <2>1. Head(inbox[c]) \in Request
    BY <1>1, HeadTailProperties DEF Resolve, Before, IInv, ServerOK, ChannelsOK
  <2>2. handler'[c].pc = Head(inbox[c]).type /\ handler[c].pc = "idle"
    BY <1>1, <1>n DEF Resolve
  <2>3. handler'[c].pc \notin Storing \cup Deleting \cup {"saveMark"}
    BY <2>1, <2>2 DEF Request, Storing, Deleting
  <2>4. UNCHANGED <<store, cutList, now, connVars>>
    BY <1>1, <1>h, <2>2 DEF Resolve
  <2>5. QED
    BY <1>m, <2>2, <2>3, <2>4, QuietStep DEF Storing, Deleting, store
<1>2. CASE SendTimeStamp(c) \/ GetServerDeletedList(c)
  <2>1. handler[c].pc \in {"GetTime", "GetDeletedList"}
        /\ Head(inbox[c]).type = handler[c].pc
    BY <1>2, <1>r, ServesTable DEF SendTimeStamp, GetServerDeletedList
  <2>2. Finish(c, Store!View(Head(inbox[c])))
    BY <1>2, <1>v, <2>1 DEF SendTimeStamp, GetServerDeletedList
  <2>3. UNCHANGED <<store, cutList, now>> /\ status = "running"
    BY <1>2, <1>h, <2>1 DEF SendTimeStamp, GetServerDeletedList
  <2>4. QED
    BY <1>L, <2>1, <2>2, <2>3, LookStep DEF Storing, Deleting
<1>3. CASE ListFiles(c)
  <2> DEFINE h == [handler[c] EXCEPT !.pc = "statFiles", !.names = DOMAIN syncRoot]
  <2>1. h.pc = "statFiles"
    BY <1>t DEF ThreadsOK, IsHandler
  <2>2. handler' = [handler EXCEPT ![c] = h]
    BY <1>3, <1>t DEF ListFiles, ThreadsOK
  <2> HIDE DEF h
  <2>3. handler'[c].pc = "statFiles" /\ handler[c].pc = "GetFileList"
    BY <1>3, <1>t, <2>1, <2>2 DEF ThreadsOK, ListFiles
  <2>4. UNCHANGED <<store, cutList, now, connVars>>
    BY <1>3, <1>h, <2>3 DEF ListFiles
  <2>5. QED
    BY <1>m, <2>3, <2>4, QuietStep DEF Storing, Deleting, store
<1>4. CASE StatFile(c)
  <2>1. handler[c].pc = "statFiles" /\ handler[c].names \subseteq DOMAIN syncRoot
    BY <1>4, <1>t DEF StatFile, Listing
  <2>2. PICK p \in DOMAIN syncRoot :
            /\ handler' = [handler EXCEPT ![c].names = @ \ {p},
                   ![c].list = IF p \in DOMAIN syncRoot
                               THEN Put(@, p, syncRoot[p].ts) ELSE @]
            /\ UNCHANGED <<store, status, now, connVars>>
    BY <1>4, <2>1 DEF StatFile
  <2> DEFINE l == Put(handler[c].list, p, syncRoot[p].ts)
             h == [handler[c] EXCEPT !.names = @ \ {p}, !.list = l]
  <2>3. handler' = [handler EXCEPT ![c] = h]
    BY <1>t, <2>2 DEF ThreadsOK
  <2>4. h.pc = "statFiles"
    BY <1>t, <2>1 DEF ThreadsOK, IsHandler
  <2> HIDE DEF h
  <2>5. handler'[c].pc = "statFiles"
    BY <1>t, <2>3, <2>4 DEF ThreadsOK
  <2>6. UNCHANGED cutList
    BY <1>h, <2>1
  <2>7. QED
    BY <1>m, <2>1, <2>2, <2>5, <2>6, QuietStep DEF Storing, Deleting, store
<1>23. CASE SendFileList(c)
  <2>1. /\ handler[c].pc = "statFiles" /\ Head(inbox[c]).type = "GetFileList"
        /\ handler[c].list = Scan(syncRoot, DOMAIN syncRoot \ {})
    BY <1>23, <1>r, <1>t, ServesTable DEF SendFileList, Listing
  <2>2. DOMAIN syncRoot \ {} = DOMAIN syncRoot
    OBVIOUS
  <2>3. Finish(c, Store!View(Head(inbox[c])))
    BY <1>23, <1>f, <2>1, <2>2 DEF SendFileList, Storing, Deleting
  <2>4. UNCHANGED <<store, cutList, now>> /\ status = "running"
    BY <1>23, <1>h, <2>1 DEF SendFileList
  <2>5. QED
    BY <1>L, <2>1, <2>3, <2>4, LookStep DEF Storing, Deleting
<1>5. CASE FindRequested(c)
  <2>1. handler[c].pc = "GetFileByPath" /\ Head(inbox[c]).type = "GetFileByPath"
    BY <1>5, <1>r, ServesTable DEF FindRequested
  <2>2. UNCHANGED <<store, cutList, now>> /\ status = "running"
    BY <1>5, <1>h, <2>1 DEF FindRequested
  <2>3. CASE Exists(c)
    <3>1. handler'[c].pc = "checkFile" /\ UNCHANGED connVars
      BY <1>5, <1>n, <2>3 DEF FindRequested
    <3>2. QED
      BY <1>m, <2>1, <2>2, <3>1, QuietStep DEF Storing, Deleting, store
  <2>4. CASE ~Exists(c)
    <3>1. Finish(c, Store!View(Head(inbox[c])))
      BY <1>5, <1>f, <2>1, <2>4
         DEF FindRequested, Storing, Deleting, Exists, Requested
    <3>2. QED
      BY <1>L, <2>1, <2>2, <3>1, LookStep DEF Storing, Deleting
  <2>5. QED
    BY <2>3, <2>4
<1>6. CASE CheckRequested(c)
  <2>1. handler[c].pc = "checkFile" /\ Exists(c)
    BY <1>6, <1>t DEF CheckRequested, Working, Present
  <2>2. handler'[c].pc = "readFile" /\ UNCHANGED <<store, cutList, now, connVars>>
    BY <1>6, <1>h, <1>n, <2>1 DEF CheckRequested, Assert
  <2>3. QED
    BY <1>m, <2>1, <2>2, QuietStep DEF Storing, Deleting, store
<1>7. CASE ReadRequested(c)
  <2>1. /\ handler[c].pc = "readFile" /\ Head(inbox[c]).type = "GetFileByPath"
        /\ Exists(c)
    BY <1>7, <1>r, <1>t, ServesTable DEF ReadRequested, Working, Present
  <2>2. Finish(c, Store!View(Head(inbox[c])))
    BY <1>7, <1>f, <2>1 DEF ReadRequested, Storing, Deleting, Exists, Requested
  <2>3. UNCHANGED <<store, cutList, now>> /\ status = "running"
    BY <1>7, <1>h, <2>1 DEF ReadRequested
  <2>4. QED
    BY <1>L, <2>1, <2>2, <2>3, LookStep DEF Storing, Deleting
<1>8. CASE TruncateFile(c)
  <2>1. /\ handler[c].pc = "SendFileToServer"
        /\ Head(inbox[c]).type = "SendFileToServer" /\ inbox[c] # <<>>
        /\ UNCHANGED <<mContent, now, connVars>>
    BY <1>8, <1>r, ServesTable DEF TruncateFile
  <2>2. handler'[c].pc = "writeFile"
    BY <1>8, <1>t, OpensTo DEF TruncateFile
  <2>3. Settled = syncRoot
    BY <2>1, SettledNow DEF SettledAt, Deleting
  <2>4. Settled' = Put(syncRoot, Requested(c), [ts |-> Head(inbox[c]).ts,
                                                data |-> Head(inbox[c]).data])
    <3>1. Settled' = Put(syncRoot', Requested(c), [ts |-> Head(inbox[c]).ts,
                                                   data |-> Head(inbox[c]).data])
      BY <1>k, <2>1, <2>2, SettledNext DEF SettledAt
    <3>2. QED
      BY <1>8, <3>1 DEF TruncateFile, Put
  <2>5. Owed(c) = NoReply /\ Owed(c)' = [type |-> "FileFromClient"]
    BY <2>1, <2>2 DEF Owed, Storing, Deleting
  <2>6. [d \in Client |-> Owed(d)]'
          = [[d \in Client |-> Owed(d)] EXCEPT ![c] = [type |-> "FileFromClient"]]
    BY <2>5 DEF Before, Sole
  <2>7. Store!Put(Settled, Requested(c), [ts |-> Head(inbox[c]).ts,
                                          data |-> Head(inbox[c]).data]) = Settled'
    BY <2>3, <2>4 DEF Store!Put, Put
  <2>8. Store!Asked(c, "SendFileToServer")
    BY <2>1, <2>5 DEF Store!Asked, Store!Oldest, Store!NoReply, NoReply
  <2>9. MarksAt(c)' = MarksAt(c) /\ FrailAt(c)' = FALSE
    BY <1>m, <2>1, <2>2 DEF FrailAt, Storing
  <2>10. /\ (mContent \ Unsaved)' = mContent \ Unsaved
         /\ (cutList /\ InStep(Storing) = {})' = FALSE
    BY <2>9, MarksAre DEF Before
  <2>11. Store!StoreFile(c)
    BY <2>1, <2>6, <2>7, <2>8, <2>10 DEF Store!StoreFile, Store!Oldest,
       Requested, Store!connVars, connVars
  <2>12. QED
    BY <1>L, <2>11
<1>9. CASE WriteFile(c)
  <2>1. handler[c].pc = "writeFile" /\ handler'[c].pc = "setTime"
        /\ UNCHANGED <<mContent, now, connVars>>
    BY <1>9, <1>n DEF WriteFile
  <2>2. \E f : syncRoot' = Put(syncRoot, Requested(c), f)
    BY <1>9, <1>t, <2>1 DEF WriteFile, Working, Writing
  <2>3. SettledAt(c)' = SettledAt(c)
    BY <1>k, <2>1, <2>2 DEF SettledAt, Put
  <2>4. Owed(c)' = Owed(c) /\ MarksAt(c)' = MarksAt(c) /\ FrailAt(c)' = FrailAt(c)
    BY <1>e, <1>h, <1>m, <2>1 DEF Owed, Storing
  <2>5. QED
    BY <2>1, <2>3, <2>4, StutterStep
<1>10. CASE SetTime(c)
  <2>1. /\ handler[c].pc = "setTime" /\ handler'[c].pc = "checkList" /\ Exists(c)
        /\ syncRoot' = [syncRoot EXCEPT ![Requested(c)].ts = Head(inbox[c]).ts]
        /\ UNCHANGED <<mContent, status, now, connVars>>
    BY <1>10, <1>t, <1>n DEF SetTime, Working, Present
  <2>2. SettledAt(c) = Put(syncRoot, Requested(c), [ts |-> Head(inbox[c]).ts,
                                                    data |-> Head(inbox[c]).data])
    BY <2>1 DEF SettledAt
  <2>3. SettledAt(c)' = syncRoot'
    BY <2>1 DEF SettledAt, Deleting
  <2>4. syncRoot[Requested(c)].data = Head(inbox[c]).data
    BY <1>t, <2>1 DEF Working
  <2>5. syncRoot'[Requested(c)] = [ts |-> Head(inbox[c]).ts,
                                   data |-> Head(inbox[c]).data]
    BY <1>t, <2>1, <2>4 DEF Exists, IsDir, File
  <2>6. SettledAt(c)' = SettledAt(c)
    BY <1>t, <2>1, <2>2, <2>3, <2>5, ZenonT(30) DEF Put, Exists, IsDir
  <2>7. Owed(c)' = Owed(c) /\ MarksAt(c)' = MarksAt(c) /\ FrailAt(c)' = FrailAt(c)
    BY <1>e, <1>h, <1>m, <2>1 DEF Owed, Storing
  <2>8. QED
    BY <2>1, <2>6, <2>7, StutterStep
<1>11. CASE CheckList(c) \/ UnlinkList(c)
  <2>1. /\ handler[c].pc \in {"checkList", "unlinkList"}
        /\ handler'[c].pc \in {"unlinkList", "rewriteList"}
        /\ UNCHANGED <<syncRoot, now, connVars>>
    <3>1. CASE CheckList(c)
      BY <3>1, <1>n DEF CheckList, After, Before, SInv, NoAbort, Abort
    <3>2. CASE UnlinkList(c)
      BY <3>2, <1>t, MovesTo DEF UnlinkList
    <3>3. QED
      BY <1>11, <3>1, <3>2
  <2>2. mContent' = mContent
    BY <1>11, MarkErasesNothing DEF UnlinkList, Before
  <2>3. /\ SettledAt(c)' = SettledAt(c) /\ Owed(c)' = Owed(c)
        /\ FrailAt(c)' = FrailAt(c) /\ MarksAt(c)' = MarksAt(c)
    BY <1>m, <2>1, <2>2 DEF SettledAt, Owed, FrailAt, Storing, Deleting
  <2>4. QED
    BY <2>1, <2>3, StutterStep
<1>12. CASE RewriteList(c)
  <2>1. handler[c].pc = "rewriteList" /\ SettledAt(c) = syncRoot
        /\ Owed(c) = [type |-> "FileFromClient"]
        /\ status = "running" /\ UNCHANGED <<syncRoot, mContent, cutList, now>>
    BY <1>12, <1>h DEF RewriteList, SettledAt, Owed, Storing, Deleting
  <2>2. QED
    BY <1>12, <1>L, <2>1, ConfirmStep DEF RewriteList
<1>13. CASE OpenList(c)
  <2>1. handler'[c].pc = "checkMark" /\ handler[c].pc = "MarkAsDeleted"
        /\ UNCHANGED <<syncRoot, mContent, cutList, now, connVars>>
    BY <1>13, <1>h, <1>t, OpensTo DEF OpenList
  <2>2. QED
    BY <1>m, <2>1, QuietStep DEF Storing, Deleting
<1>14. CASE Mark(c)
  <2>1. /\ handler[c].pc = "mark" /\ handler'[c].pc = "saveMark"
        /\ mContent' = mContent \cup {Requested(c)}
        /\ UNCHANGED <<syncRoot, cutList, now, connVars>>
    BY <1>14, <1>h, <1>n DEF Mark
  <2>2. Requested(c)' = Requested(c) /\ Requested(c) \notin mContent
    BY <1>k, <1>t, <2>1 DEF Working
  <2>3. MarksAt(c)' = MarksAt(c)
    BY <2>1, <2>2 DEF MarksAt, UnsavedOf
  <2>4. QED
    BY <2>1, <2>3, QuietStep DEF Storing, Deleting
<1>24. CASE SaveMark(c)
  <2>1. /\ handler[c].pc = "saveMark" /\ handler'[c].pc = "findFile"
        /\ UNCHANGED <<syncRoot, mContent, cutList, now, connVars>>
    BY <1>24, <1>h, <1>n DEF SaveMark
  <2>2. Requested(c) \in mContent
    BY <1>t, <2>1 DEF Working
  <2>3. MarksAt(c)' = MarksAt(c) \cup {Requested(c)}
    BY <2>1, <2>2 DEF MarksAt, UnsavedOf
  <2>4. QED
    BY <1>L, <2>1, <2>3, <1>x, DeleteStep
<1>25. CASE CheckMark(c)
  <2>1. /\ handler[c].pc = "checkMark"
        /\ handler'[c].pc = IF Requested(c) \in mContent THEN "findFile" ELSE "mark"
        /\ UNCHANGED <<syncRoot, mContent, cutList, now, connVars>>
    BY <1>25, <1>h, <1>n DEF CheckMark, store
  <2>2. MarksAt(c) = mContent /\ MarksAt(c)' = mContent
    BY <2>1 DEF MarksAt, UnsavedOf
  <2>3. CASE Requested(c) \in mContent
    <3>1. MarksAt(c)' = MarksAt(c) \cup {Requested(c)}
      BY <2>2, <2>3
    <3>2. QED
      BY <1>L, <2>1, <2>3, <3>1, <1>x, DeleteStep
  <2>4. CASE Requested(c) \notin mContent
    BY <2>1, <2>2, <2>4, QuietStep DEF Storing, Deleting
  <2>5. QED
    BY <2>3, <2>4
<1>15. CASE FindMarked(c)
  <2>1. handler[c].pc = "findFile" /\ UNCHANGED <<store, cutList, now>>
        /\ status = "running"
    BY <1>15, <1>h DEF FindMarked
  <2>2. CASE Exists(c)
    <3>1. handler'[c].pc = "checkGone" /\ UNCHANGED connVars
      BY <1>15, <1>n, <2>2 DEF FindMarked
    <3>2. /\ SettledAt(c)' = SettledAt(c) /\ Owed(c)' = Owed(c)
          /\ MarksAt(c)' = MarksAt(c) /\ FrailAt(c)' = FrailAt(c)
      BY <1>e, <1>k, <1>m, <2>1, <2>2, <3>1 DEF SettledAt, Owed, Storing, Deleting, store
    <3>3. QED
      BY <2>1, <3>1, <3>2, StutterStep
  <2>3. CASE ~Exists(c)
    <3>1. SettledAt(c) = syncRoot
      BY <1>t, <2>1, <2>3 DEF SettledAt, Deleting, Drop, Exists, IsDir
    <3>2. Owed(c) = [type |-> "ServerDeletedResponse", status |-> 1]
      BY <2>1, <2>3 DEF Owed, Storing, Deleting
    <3>3. QED
      BY <1>15, <1>L, <2>1, <2>3, <3>1, <3>2, ConfirmStep DEF FindMarked, store
  <2>4. QED
    BY <2>2, <2>3
<1>16. CASE CheckMarked(c)
  <2>1. handler[c].pc = "checkGone" /\ Exists(c)
    BY <1>16, <1>t DEF CheckMarked, Working, Present
  <2>2. handler'[c].pc = "unlinkFile" /\ UNCHANGED <<store, cutList, now, connVars>>
    BY <1>16, <1>h, <1>n, <2>1 DEF CheckMarked, Assert
  <2>3. /\ SettledAt(c)' = SettledAt(c) /\ Owed(c)' = Owed(c)
        /\ MarksAt(c)' = MarksAt(c) /\ FrailAt(c)' = FrailAt(c)
    BY <1>e, <1>k, <1>m, <2>1, <2>2 DEF SettledAt, Owed, Storing, Deleting, store
  <2>4. QED
    BY <2>2, <2>3, StutterStep
<1>17. CASE UnlinkFile(c)
  <2>1. /\ handler[c].pc = "unlinkFile" /\ handler'[c].pc = "answerDeleted"
        /\ syncRoot' = Drop(syncRoot, Requested(c))
        /\ UNCHANGED <<mContent, cutList, now, connVars>>
    BY <1>17, <1>h, <1>t, MovesTo DEF UnlinkFile
  <2>2. Drop(syncRoot', Requested(c)) = Drop(syncRoot, Requested(c))
    BY <2>1 DEF Drop
  <2>3. /\ SettledAt(c)' = SettledAt(c) /\ Owed(c)' = Owed(c)
        /\ MarksAt(c)' = MarksAt(c) /\ FrailAt(c)' = FrailAt(c)
    BY <1>e, <1>k, <1>m, <2>1, <2>2 DEF SettledAt, Owed, Storing, Deleting
  <2>4. QED
    BY <2>1, <2>3, StutterStep
<1>18. CASE AnswerDeleted(c)
  <2>1. handler[c].pc = "answerDeleted" /\ ~Exists(c) /\ status = "running"
        /\ UNCHANGED <<store, cutList, now>>
    BY <1>18, <1>h, <1>t DEF AnswerDeleted, Working
  <2>2. SettledAt(c) = syncRoot
    BY <1>t, <2>1 DEF SettledAt, Deleting, Drop, Exists, IsDir
  <2>3. Owed(c) = [type |-> "ServerDeletedResponse", status |-> 0]
    BY <2>1 DEF Owed, Storing, Deleting
  <2>4. QED
    BY <1>18, <1>L, <2>1, <2>2, <2>3, ConfirmStep DEF AnswerDeleted, store
<1>19. CASE Race(c) \/ Overwritten(c)
  BY <1>19 DEF Race, Overwritten, Before, Sole
<1>20. QED
    BY <1>1, <1>2, <1>3, <1>4, <1>5, <1>6, <1>7, <1>8, <1>9, <1>10, <1>11,
       <1>12, <1>13, <1>14, <1>15, <1>16, <1>17, <1>18, <1>19, <1>23, <1>24,
       <1>25, <1>h DEF Handle

-----------------------------------------------------------------------------
(* Steps of the clients, the clock and the operator, for any number of     *)
(* clients.                                                                *)

\* What is under way stays as it is while the threads rest.
LEMMA RestingShowsTheSame ==
    ASSUME IInv, [Next]_aloneVars, UNCHANGED <<syncRoot, handler>>
    PROVE  /\ Settled' = Settled
           /\ [c \in Client |-> Owed(c)]' = [c \in Client |-> Owed(c)]
           /\ Unsaved' = Unsaved /\ \A steps : InStep(steps)' = InStep(steps)
<1>1. ASSUME NEW c \in Client, handler[c].pc \notin {"idle", "ended"}
      PROVE  Head(inbox'[c]) = Head(inbox[c]) /\ Requested(c)' = Requested(c)
    BY <1>1, RequestStays DEF Requested, Busy
<1>2. \A steps : InStep(steps)' = InStep(steps)
    BY DEF InStep
<1>3. {Requested(c) : c \in InStep(Deleting)}' = {Requested(c) : c \in InStep(Deleting)}
    BY <1>1, <1>2 DEF InStep, Deleting
<1>4. \A p : Incoming(p)' = Incoming(p)
    BY <1>1 DEF Incoming, InStep
<1>5. ASSUME NEW p, Incoming(p) # {}
      PROVE  Head(inbox'[CHOOSE c \in Incoming(p) : TRUE])
                = Head(inbox[CHOOSE c \in Incoming(p) : TRUE])
    BY <1>1, <1>5 DEF Incoming, InStep
<1>6. Settled' = Settled
    BY <1>3, <1>4, <1>5 DEF Settled
<1>7. ASSUME NEW c \in Client PROVE Owed(c)' = Owed(c)
    BY <1>1 DEF Owed, Exists
<1>8. Unsaved' = Unsaved
    BY <1>1 DEF Unsaved, Busy
<1>9. QED
    BY <1>2, <1>6, <1>7, <1>8

LEMMA OutsideImplements ==
    ASSUME IInv, [Next]_aloneVars,
           \/ Tick \/ UNCHANGED aloneVars
           \/ \E c \in Client : Submit(c) \/ Collect(c) \/ TimeOut(c)
    PROVE  Store!Next \/ UNCHANGED Store!allVars
<1> USE DEF Store!storeVars, Store!connVars, connVars, serverVars, store
<1>1. UNCHANGED <<syncRoot, handler, mContent, cutList>>
    BY OtherSteps DEF ghosts
<1>2. UNCHANGED <<Settled, [c \in Client |-> Owed(c)], mContent \ Unsaved,
                  cutList /\ InStep(Storing) = {}>>
    BY <1>1, RestingShowsTheSame
<1>3. CASE Tick
    BY <1>2, <1>3 DEF Tick, TimePasses, Store!Next, Store!Tick, Store!TimePasses
<1>5. CASE UNCHANGED aloneVars
    BY <1>2, <1>5 DEF aloneVars, vars, Store!allVars
<1>6. ASSUME NEW c \in Client, Submit(c) PROVE Store!Submit(c)
    BY <1>2, <1>6 DEF Submit, Send, Store!Submit, Store!Send, Request, Store!Request
<1>7. ASSUME NEW c \in Client, Collect(c) PROVE Store!Collect(c)
    BY <1>2, <1>7 DEF Collect, Receive, Arrived, NoReply, Store!Collect,
       Store!Receive, Store!Arrived, Store!NoReply
<1>8. ASSUME NEW c \in Client, TimeOut(c) PROVE Store!TimeOut(c)
    BY <1>2, <1>8 DEF TimeOut, GiveUp, HangUp, NoReply, Store!TimeOut,
       Store!GiveUp, Store!HangUp, Store!NoReply
<1>9. QED
    BY <1>3, <1>5, <1>6, <1>7, <1>8 DEF Store!Next

\* The end of a handler is not seen.
LEMMA ExpireImplements ==
    ASSUME Before, After, NEW c \in Client, Expire(c)
    PROVE  UNCHANGED Store!allVars
<1>1. /\ handler[c].pc = "idle" /\ handler'[c].pc = "ended"
      /\ UNCHANGED <<syncRoot, mContent, cutList, now, connVars>>
    BY MovesTo DEF Expire, Leave, At, store, ghosts, Before, IInv, ServerOK
<1>2. MarksAt(c)' = MarksAt(c)
    BY <1>1 DEF MarksAt, UnsavedOf
<1>3. QED
    BY <1>1, <1>2, QuietStep DEF Storing, Deleting
-----------------------------------------------------------------------------
(* A new process.                                                          *)
LEMMA StartImplements ==
    ASSUME Before, After, Start
    PROVE  Store!Next
<1>1. \A c \in Client : handler'[c] = Idle
    BY DEF Start, NewProcess
<1>2. Settled' = syncRoot /\ Settled' = syncRoot'
  <2>1. InStep(Deleting)' = {} /\ \A p : Incoming(p)' = {}
    BY <1>1 DEF InStep, Incoming, Deleting, Idle
  <2>2. UNCHANGED syncRoot
    BY DEF Start, NewProcess
  <2>3. Settled' = [p \in DOMAIN syncRoot |-> syncRoot[p]]
    BY <2>1, <2>2 DEF Settled
  <2>4. QED
    BY <2>2, <2>3 DEF Before, IInv, ServerOK, StoreOK, IsDir
<1>3. [c \in Client |-> Owed(c)]' = [c \in Client |-> Store!NoReply]
    BY <1>1 DEF Owed, Idle, Storing, Deleting, NoReply, Store!NoReply
<1>4. ASSUME NEW c \in Client
      PROVE  /\ Owed(c) # NoReply <=> handler[c].pc \in Storing \cup Deleting
             /\ handler[c].pc \in Storing =>
                   Head(inbox[c]).type = "SendFileToServer"
             /\ handler[c].pc \in Deleting =>
                   Head(inbox[c]).type = "MarkAsDeleted"
    BY ServesTable DEF Before, IInv, Serving, Busy, Owed, NoReply, Storing, Deleting
<1>5. /\ Store!InFlight("SendFileToServer") = InStep(Storing)
      /\ Store!InFlight("MarkAsDeleted") = InStep(Deleting)
    BY <1>4 DEF Store!InFlight, InStep, Store!Oldest, Storing, Deleting, NoReply,
       Store!NoReply
<1>6. Store!Unconfirmed = {Requested(c) : c \in InStep(Storing) \cup InStep(Deleting)}
    BY <1>5 DEF Store!Unconfirmed, Store!Oldest, Requested
<1>7. /\ DOMAIN Settled \ Store!Unconfirmed = DOMAIN Settled' \ Store!Unconfirmed
      /\ \A p \in DOMAIN Settled \ Store!Unconfirmed : Settled'[p] = Settled[p]
  <2>1. DOMAIN Settled = DOMAIN syncRoot \ {Requested(c) : c \in InStep(Deleting)}
    BY DEF Settled
  <2>2. DOMAIN Settled \ Store!Unconfirmed = DOMAIN syncRoot \ Store!Unconfirmed
    BY <1>6, <2>1
  <2>3. ASSUME NEW p, p \notin Store!Unconfirmed PROVE Incoming(p) = {}
    BY <1>6, <2>3 DEF Incoming, InStep, Storing
  <2>4. QED
    BY <1>2, <2>1, <2>2, <2>3 DEF Settled
<1>8. \/ /\ (mContent \ Unsaved)' = mContent \ Unsaved
         /\ (cutList /\ InStep(Storing) = {})' = (cutList /\ InStep(Storing) = {})
      \/ /\ (cutList /\ InStep(Storing) = {}) \/ Store!InFlight("SendFileToServer") # {}
         /\ (mContent \ Unsaved)' \subseteq Path
         /\ (cutList /\ InStep(Storing) = {})' \in BOOLEAN
  <2>1. Unsaved' = {} /\ InStep(Storing)' = {} /\ (InStep(Storing) = {} => ~Rewriting)
    BY <1>1 DEF InStep, Storing, Rewriting, Unsaved, Idle
  <2>2. mContent' \subseteq Path /\ cutList' \in BOOLEAN
    BY LeftIsPaths DEF Before, IInv, ServerOK, Start, NewProcess
  <2>3. CASE ~Rewriting /\ ~cutList
    <3>1. listFile = [exists |-> TRUE, lines |-> mContent \ Unsaved, tail |-> {}]
      BY <2>3 DEF Before, SInv, ListPersisted
    <3>2. listFile' = [listFile EXCEPT !.exists = TRUE]
      BY <2>3 DEF Start, NewProcess, Left
    <3>3. mContent' = mContent \ Unsaved /\ cutList' = FALSE
      BY <2>3, <3>1, <3>2 DEF Start, NewProcess
    <3>4. QED
      BY <2>1, <2>3, <3>3
  <2>4. CASE Rewriting \/ cutList
    BY <1>5, <2>1, <2>2, <2>4
  <2>5. QED
    BY <2>3, <2>4
<1>9. Store!Recover
    BY <1>2, <1>3, <1>7, <1>8 DEF Start, NewProcess, NoReply, Store!NoReply,
       Store!Recover
<1>10. QED
    BY <1>9 DEF Store!Next

LEMMA InitImplements == Init => Store!Init
<1> SUFFICES ASSUME Init PROVE Store!Init
    OBVIOUS
<1>1. InStep(Deleting) = {} /\ \A p : Incoming(p) = {}
    BY DEF Init, ServerInit, InStep, Incoming, Deleting, Idle
<1>2. Settled = Store!EmptyDir
    BY <1>1 DEF Settled, Init, EmptyDir, Store!EmptyDir
<1>3. [c \in Client |-> Owed(c)] = [c \in Client |-> Store!NoReply]
    BY DEF Init, ServerInit, Owed, Idle, Storing, Deleting, NoReply, Store!NoReply
<1>4. mContent \ Unsaved = {} /\ (cutList /\ InStep(Storing) = {}) = FALSE
    BY DEF Init, ServerInit
<1>5. QED
    BY <1>2, <1>3, <1>4 DEF Init, ServerInit, ConnInit, Store!Init, Store!ConnInit,
       NoReply, Store!NoReply
-----------------------------------------------------------------------------
\* With one connection the server is the atomic store FileStore, over its own
\* end and new start too (server/Actions, DeletedListManager).
THEOREM SoleImplementsStore ==
    ASSUME \A c, d \in Client : c = d
    PROVE  Spec => ImplementsStore
<1>1. Sole
    BY DEF Sole
<1>2. ASSUME Before, After, [Next]_aloneVars
      PROVE  [Store!Next]_(Store!allVars)
  <2>1. CASE \E c \in Client : Serve(c)
    BY <1>2, <2>1, ThreadImplements
  <2>2. CASE Start
    BY <1>2, <2>2, StartImplements
  <2>3. CASE \E c \in Client : Expire(c)
    BY <1>2, <2>3, ExpireImplements
  <2>4. QED
    BY <1>2, <2>1, <2>2, <2>3, OutsideImplements DEF Before, Next
<1>3. IInv /\ SInv /\ IInv' /\ SInv' /\ [Next]_aloneVars => [Store!Next]_(Store!allVars)
    BY <1>1, <1>2 DEF Before, After
<1>4. QED
    BY <1>3, SoleInductive, Inductive, InitImplements, PTL
    DEF Spec, ImplementsStore, Store!Spec
=============================================================================
