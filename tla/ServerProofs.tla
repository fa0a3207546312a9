---------------------------- MODULE ServerProofs ----------------------------
(***************************************************************************)
(* Proofs about ServerAlone, for every set of clients, paths and contents  *)
(* and every bound.                                                        *)
(***************************************************************************)
EXTENDS ServerAlone, SequenceTheorems, TLAPS

-----------------------------------------------------------------------------
(* The operators of FileTree, and the requests.                            *)

\* Creating or replacing a file leaves a directory.
LEMMA PutIsDir ==
    ASSUME NEW dir, IsDir(dir), NEW p \in Path, NEW f \in File
    PROVE  IsDir(Put(dir, p, f))
BY DEF IsDir, Put, File

\* So does removing one.
LEMMA DropIsDir ==
    ASSUME NEW dir, IsDir(dir), NEW p
    PROVE  IsDir(Drop(dir, p))
BY DEF IsDir, Drop

\* So does setting the time of a file.
LEMMA StampIsDir ==
    ASSUME NEW dir, IsDir(dir), NEW p \in DOMAIN dir, NEW t \in Nat
    PROVE  IsDir([dir EXCEPT ![p].ts = t])
BY DEF IsDir, File

\* The times of existing files are a list.
LEMMA ScanIsSnapshot ==
    ASSUME NEW dir, IsDir(dir), NEW names, names \subseteq DOMAIN dir
    PROVE  IsSnapshot(Scan(dir, names))
BY DEF IsDir, IsSnapshot, Scan, File

\* The fields of a request, by its type.
LEMMA RequestFields ==
    ASSUME NEW r \in Request
    PROVE  /\ r.type \in {"GetFileByPath", "MarkAsDeleted", "SendFileToServer"}
                  => r.path \in Path
           /\ r.type = "SendFileToServer" => r.ts \in Nat /\ r.data \in Nat \ {Torn}
<1>1. 0 .. MaxTime \subseteq Nat
    BY MaxTimeAssumption
<1>2. /\ r.type \in {"GetFileByPath", "MarkAsDeleted", "SendFileToServer"}
            => r.path \in Path
      /\ r.type = "SendFileToServer" => r.ts \in 0 .. MaxTime /\ r.data \in Content
    BY DEF Request
<1>3. QED
    BY <1>1, <1>2, ContentAssumption

\* An answer is a response with its type's fields.
LEMMA Responses ==
    /\ IsResponse([type |-> "FileFromClient"])
    /\ \A t \in Nat : IsResponse([type |-> "ServerTime", time |-> t])
    /\ \A l : IsSnapshot(l) => IsResponse([type |-> "ServerFileList", files |-> l])
    /\ \A s \in {0, 1}, d \in Nat :
          IsResponse([type |-> "FileFromServer", status |-> s, data |-> d])
    /\ \A P \in SUBSET Path :
          IsResponse([type |-> "ServerDeletedList", paths |-> P])
    /\ \A s \in {0, 1} :
          IsResponse([type |-> "ServerDeletedResponse", status |-> s])
BY DEF IsResponse
-----------------------------------------------------------------------------
(* What the building blocks of the actions preserve.                       *)

\* A thread that goes from one step of an action to another one of the same
\* action keeps serving its request.
LEMMA StepKeepsServing ==
    ASSUME Serving, NEW c \in Client, Busy(c),
           \A d \in Client \ {c} : handler'[d].pc = handler[d].pc,
           Serves(handler'[c].pc) = Serves(handler[c].pc),
           UNCHANGED inbox
    PROVE  Serving'
BY DEF Serving, Busy

\* A handler stays one whatever step it goes to, ...
LEMMA StepIsHandler ==
    ASSUME NEW h, IsHandler(h), NEW step \in Step
    PROVE  LET g == [h EXCEPT !.pc = step] IN IsHandler(g) /\ g.pc = step
BY DEF IsHandler

\* ... with or without the file it holds open.
LEMMA LinkIsHandler ==
    ASSUME NEW h, IsHandler(h), NEW linked \in BOOLEAN
    PROVE  LET g == [h EXCEPT !.linked = linked] IN IsHandler(g) /\ g.pc = h.pc
BY DEF IsHandler

LEMMA IdleIsHandler == IsHandler(Idle)
BY DEF IsHandler, Idle, Step, IsSnapshot, Nothing

\* A change of one handler, of whatever kind, is local.
LEMMA OneHandler ==
    ASSUME ThreadsOK, NEW c \in Client, NEW h, IsHandler(h),
           handler' = [handler EXCEPT ![c] = h]
    PROVE  /\ ThreadsOK'
           /\ \A d \in Client \ {c} : handler'[d] = handler[d]
           /\ handler'[c] = h
BY DEF ThreadsOK

\* Goto changes one field of one handler.
LEMMA GotoKeeps ==
    ASSUME ThreadsOK, NEW c \in Client, NEW step \in Step, Goto(c, step)
    PROVE  /\ ThreadsOK'
           /\ \A d \in Client \ {c} : handler'[d] = handler[d]
           /\ handler'[c].pc = step
<1>1. handler' = [d \in Client |-> IF d = c THEN [handler[c] EXCEPT !.pc = step]
                                            ELSE handler[d]]
    BY DEF ThreadsOK, Goto
<1>2. IsHandler([handler[c] EXCEPT !.pc = step])
    BY StepIsHandler DEF ThreadsOK
<1>3. QED
    BY <1>1, <1>2 DEF ThreadsOK, IsHandler

\* GotoUnlinking moves one handler only.
LEMMA GotoUnlinkingKeeps ==
    ASSUME ThreadsOK, NEW c \in Client, NEW step \in Step, NEW others,
           GotoUnlinking(c, step, others)
    PROVE  /\ ThreadsOK'
           /\ \A d \in Client \ {c} : handler'[d].pc = handler[d].pc
           /\ handler'[c].pc = step
<1>1. \A d \in Client : IsHandler(handler[d])
    BY DEF ThreadsOK
<1>2. /\ IsHandler([handler[c] EXCEPT !.pc = step])
      /\ [handler[c] EXCEPT !.pc = step].pc = step
    BY <1>1, StepIsHandler
<1>3. \A d \in Client : /\ IsHandler([handler[d] EXCEPT !.linked = FALSE])
                        /\ [handler[d] EXCEPT !.linked = FALSE].pc = handler[d].pc
    BY <1>1, LinkIsHandler
<1>4. QED
    BY <1>1, <1>2, <1>3 DEF ThreadsOK, GotoUnlinking

\* So does opening a file.
LEMMA OpenKeeps ==
    ASSUME ThreadsOK, NEW c \in Client, NEW step \in Step,
           handler' = [handler EXCEPT ![c].pc = step, ![c].linked = TRUE]
    PROVE  /\ ThreadsOK'
           /\ \A d \in Client \ {c} : handler'[d] = handler[d]
           /\ handler'[c].pc = step
<1> DEFINE h == [handler[c] EXCEPT !.pc = step, !.linked = TRUE]
<1>1. IsHandler(h) /\ h.pc = step
    BY DEF ThreadsOK, IsHandler
<1>2. handler' = [handler EXCEPT ![c] = h]
    BY DEF ThreadsOK
<1> HIDE DEF h
<1>3. QED
    BY <1>1, <1>2, OneHandler

\* An action that ends answers its request and leaves the channels typed.
LEMMA FinishKeeps ==
    ASSUME ThreadsOK, ChannelsOK, Serving, NEW c \in Client,
           Busy(c), NEW response, IsResponse(response),
           Finish(c, response)
    PROVE  ThreadsOK' /\ ChannelsOK' /\ Serving'
<1>1. ThreadsOK' /\ handler'[c] = Idle
      /\ \A d \in Client \ {c} : handler'[d] = handler[d]
    BY OneHandler, IdleIsHandler DEF Finish
<1>2. inbox[c] \in Seq(Request) /\ inbox[c] # <<>>
    BY DEF ChannelsOK, Serving
<1>3. Tail(inbox[c]) \in Seq(Request)
    BY <1>2, HeadTailProperties
<1>4. ChannelsOK'
    BY <1>3 DEF ChannelsOK, Finish, Answer
<1>5. Serving'
    BY <1>1 DEF Serving, Finish, Answer, Idle, ChannelsOK, Busy
<1>6. QED
    BY <1>1, <1>4, <1>5

\* The process ends without touching anything else.
LEMMA AbortKeeps ==
    ASSUME ServerOK, Serving, NEW reason \in {"assertion", "exception", "race"},
           Abort(reason)
    PROVE  ServerOK' /\ Serving'
BY DEF ServerOK, StoreOK, ProcessOK, ThreadsOK, ChannelsOK, Serving, Abort,
       store, connVars, Serves, Busy
-----------------------------------------------------------------------------
(* Type correctness.                                                       *)

\* ServerOK alone is not inductive: an answer takes the head of a queue, and
\* the fields it reads exist only in a request of the right type.
IInv == ServerOK /\ Serving

\* The request that each step serves, tabulated.
LEMMA ServesTable ==
    /\ Serves("GetTime") = "GetTime"
    /\ \A s \in {"GetFileList", "statFiles"} : Serves(s) = "GetFileList"
    /\ \A s \in {"GetFileByPath", "checkFile", "readFile"} :
          Serves(s) = "GetFileByPath"
    /\ \A s \in {"SendFileToServer", "writeFile", "setTime", "checkList",
                  "unlinkList", "rewriteList"} :
          Serves(s) = "SendFileToServer"
    /\ Serves("GetDeletedList") = "GetDeletedList"
    /\ \A s \in {"MarkAsDeleted", "checkMark", "mark", "saveMark", "findFile",
                  "checkGone", "unlinkFile", "answerDeleted"} :
          Serves(s) = "MarkAsDeleted"
BY DEF Serves

\* While a thread is in the middle of an action, its request has the fields
\* that the action reads.
LEMMA RequestOfStep ==
    ASSUME ChannelsOK, Serving, NEW c \in Client, Busy(c)
    PROVE  /\ inbox[c] \in Seq(Request) /\ inbox[c] # <<>>
           /\ Serves(handler[c].pc) \in {"GetFileByPath", "MarkAsDeleted",
                                         "SendFileToServer"}
                 => Requested(c) \in Path
           /\ Serves(handler[c].pc) = "SendFileToServer"
                 => Head(inbox[c]).ts \in Nat /\ Head(inbox[c]).data \in Nat \ {Torn}
<1>1. inbox[c] \in Seq(Request) /\ inbox[c] # <<>>
      /\ Head(inbox[c]).type = Serves(handler[c].pc)
    BY DEF ChannelsOK, Serving
<1>2. Head(inbox[c]) \in Request
    BY <1>1, HeadTailProperties
<1>3. QED
    BY <1>1, <1>2, RequestFields DEF Requested

\* An untouched channel stays typed.
LEMMA ChannelsUntouched ==
    ASSUME ChannelsOK, UNCHANGED connVars
    PROVE  ChannelsOK' /\ UNCHANGED inbox
BY DEF ChannelsOK, connVars

\* A step of a thread inside an action keeps the invariant if the directory
\* and the deleted list remain of their types.
LEMMA InnerStep ==
    ASSUME IInv, NEW c \in Client, Busy(c),
           ThreadsOK', StoreOK',
           \A d \in Client \ {c} : handler'[d].pc = handler[d].pc,
           Serves(handler'[c].pc) = Serves(handler[c].pc),
           UNCHANGED <<status, now, connVars>>
    PROVE  IInv'
<1>1. ChannelsOK' /\ UNCHANGED inbox
    BY ChannelsUntouched DEF IInv, ServerOK
<1>2. Serving'
    BY <1>1, StepKeepsServing DEF IInv
<1>3. QED
    BY <1>1, <1>2 DEF IInv, ServerOK, ProcessOK

\* The last step of an action keeps it, too.
LEMMA LastStep ==
    ASSUME IInv, NEW c \in Client, Busy(c),
           NEW response, IsResponse(response), Finish(c, response),
           StoreOK', UNCHANGED <<status, now>>
    PROVE  IInv'
BY FinishKeeps DEF IInv, ServerOK, ProcessOK

\* So do assertions, whether they hold or not.
LEMMA AssertStep ==
    ASSUME IInv, NEW c \in Client, Busy(c), NEW ok,
           NEW step \in Step, Serves(step) = Serves(handler[c].pc),
           Assert(c, ok, step)
    PROVE  IInv'
<1>1. CASE ok
  <2>1. Goto(c, step) /\ UNCHANGED <<store, status, now, connVars>>
    BY <1>1 DEF Assert
  <2>2. ThreadsOK' /\ (\A d \in Client \ {c} : handler'[d] = handler[d])
        /\ handler'[c].pc = step
    BY <2>1, GotoKeeps DEF IInv, ServerOK
  <2>3. StoreOK'
    BY <2>1 DEF IInv, ServerOK, StoreOK, store
  <2>4. QED
    BY <2>1, <2>2, <2>3, InnerStep
<1>2. CASE ~ok
  <2>1. Abort("assertion")
    BY <1>2 DEF Assert, Abort
  <2>2. QED
    BY <2>1, AbortKeeps DEF IInv
<1>3. QED
    BY <1>1, <1>2

\* Every step of a thread keeps the invariant.
LEMMA HandleKeepsIInv ==
    ASSUME IInv, NEW c \in Client, Handle(c)
    PROVE  IInv'
<1> USE DEF At, Busy
<1>t. StoreOK /\ ThreadsOK /\ ChannelsOK /\ ProcessOK /\ Serving
    BY DEF IInv, ServerOK
<1>i. ASSUME Busy(c)
      PROVE  /\ Serves(handler[c].pc) \in {"GetFileByPath", "MarkAsDeleted",
                                           "SendFileToServer"}
                   => Requested(c) \in Path
             /\ Serves(handler[c].pc) = "SendFileToServer"
                   => Head(inbox[c]).ts \in Nat /\ Head(inbox[c]).data \in Nat
    BY <1>i, <1>t, RequestOfStep
<1>u. UNCHANGED store => StoreOK'
    BY <1>t DEF StoreOK, store
<1>d. IsDir(syncRoot)
    BY <1>t DEF StoreOK
<1>1. CASE Resolve(c)
  <2>1. Head(inbox[c]) \in Request
    BY <1>1, <1>t, HeadTailProperties DEF Resolve, ChannelsOK
  <2>2. /\ Head(inbox[c]).type \in Step
        /\ Serves(Head(inbox[c]).type) = Head(inbox[c]).type
    BY <2>1, ServesTable DEF Request, Step
  <2>3. ThreadsOK' /\ (\A d \in Client \ {c} : handler'[d] = handler[d])
        /\ handler'[c].pc = Head(inbox[c]).type
    BY <1>1, <1>t, <2>2, GotoKeeps DEF Resolve
  <2>4. ChannelsOK' /\ UNCHANGED inbox
    BY <1>1, <1>t, ChannelsUntouched DEF Resolve
  <2>5. Serving'
    BY <1>1, <1>t, <2>2, <2>3, <2>4 DEF Serving, Resolve
  <2>6. QED
    BY <1>1, <1>t, <1>u, <2>3, <2>4, <2>5 DEF IInv, ServerOK, ProcessOK, Resolve
<1>2. CASE SendTimeStamp(c)
  <2>1. IsResponse([type |-> "ServerTime", time |-> now])
    BY <1>t, Responses DEF ProcessOK
  <2>2. QED
    BY <1>2, <1>u, <2>1, LastStep DEF SendTimeStamp
<1>3. CASE ListFiles(c)
  <2>1. DEFINE h == [handler[c] EXCEPT !.pc = "statFiles", !.names = DOMAIN syncRoot]
  <2>2. IsHandler(h) /\ h.pc = "statFiles"
    BY <1>t, <1>d DEF ThreadsOK, IsHandler, Step, IsDir
  <2>3. handler' = [handler EXCEPT ![c] = h]
    BY <1>3, <1>t DEF ListFiles, ThreadsOK
  <2>4. ThreadsOK' /\ (\A d \in Client \ {c} : handler'[d] = handler[d])
        /\ handler'[c] = h
    BY <1>t, <2>2, <2>3, OneHandler
  <2>5. /\ handler[c].pc = "GetFileList"
        /\ UNCHANGED <<store, status, now, connVars>>
    BY <1>3 DEF ListFiles
  <2>6. Serves(handler'[c].pc) = Serves(handler[c].pc)
    BY <2>2, <2>4, <2>5, ServesTable
  <2> HIDE DEF h
  <2>7. QED
    BY <1>u, <2>4, <2>5, <2>6, InnerStep
<1>4. CASE StatFile(c)
  <2>1. CASE Abort("exception")
    BY <2>1, AbortKeeps DEF IInv
  <2>2. ASSUME NEW p \in handler[c].names,
               handler' = [handler EXCEPT ![c].names = @ \ {p},
                   ![c].list = IF p \in DOMAIN syncRoot
                               THEN Put(@, p, syncRoot[p].ts) ELSE @],
               UNCHANGED <<store, status, now, connVars>>
        PROVE  IInv'
    <3> DEFINE l == IF p \in DOMAIN syncRoot
                    THEN Put(handler[c].list, p, syncRoot[p].ts) ELSE handler[c].list
               h == [handler[c] EXCEPT !.names = @ \ {p}, !.list = l]
    <3>1. IsHandler(handler[c])
      BY <1>t DEF ThreadsOK
    <3>2. IsSnapshot(l)
      BY <1>d, <3>1 DEF IsHandler, IsSnapshot, IsDir, File, Put
    <3>3. IsHandler(h) /\ h.pc = handler[c].pc
      <4> HIDE DEF l
      <4>1. QED
        BY <3>1, <3>2 DEF IsHandler
    <3>4. handler' = [handler EXCEPT ![c] = h]
      BY <1>t, <2>2 DEF ThreadsOK
    <3> HIDE DEF h
    <3>5. ThreadsOK' /\ (\A d \in Client \ {c} : handler'[d] = handler[d])
          /\ handler'[c] = h
      BY <1>t, <3>3, <3>4, OneHandler
    <3>6. QED
      BY <1>4, <1>u, <2>2, <3>3, <3>5, InnerStep DEF StatFile
  <2>3. QED
    BY <1>4, <2>1, <2>2 DEF StatFile
<1>23. CASE SendFileList(c)
  <2>1. IsSnapshot(handler[c].list)
    BY <1>t DEF ThreadsOK, IsHandler
  <2>2. IsResponse([type |-> "ServerFileList", files |-> handler[c].list])
    BY <2>1, Responses
  <2>3. QED
    BY <1>23, <1>u, <2>2, LastStep DEF SendFileList
<1>5. CASE FindRequested(c)
  <2>1. CASE Exists(c)
    <3>1. ThreadsOK' /\ (\A d \in Client \ {c} : handler'[d] = handler[d])
          /\ handler'[c].pc = "checkFile"
      BY <1>5, <1>t, <2>1, GotoKeeps DEF FindRequested, Step
    <3>2. QED
      BY <1>5, <1>u, <2>1, <3>1, InnerStep, ServesTable DEF FindRequested
  <2>2. CASE ~Exists(c)
    <3>1. IsResponse([type |-> "FileFromServer", status |-> 1, data |-> Torn])
      BY Responses DEF Torn
    <3>2. QED
      BY <1>5, <1>u, <2>2, <3>1, LastStep DEF FindRequested
  <2>3. QED
    BY <2>1, <2>2
<1>6. CASE CheckRequested(c)
    BY <1>6, AssertStep, ServesTable DEF CheckRequested, Step
<1>7. CASE ReadRequested(c)
  <2>1. DEFINE d == IF Exists(c) THEN syncRoot[Requested(c)].data ELSE Torn
  <2>2. d \in Nat
    BY <1>d DEF IsDir, File, Exists, Torn
  <2>3. IsResponse([type |-> "FileFromServer", status |-> 0, data |-> d])
    BY <2>2, Responses
  <2>4. QED
    BY <1>7, <1>u, <2>3, LastStep DEF ReadRequested
<1>8. CASE TruncateFile(c)
  <2>1. ThreadsOK' /\ (\A d \in Client \ {c} : handler'[d] = handler[d])
        /\ handler'[c].pc = "writeFile"
    BY <1>8, <1>t, OpenKeeps DEF TruncateFile, Step
  <2>2. Requested(c) \in Path /\ [ts |-> now, data |-> Torn] \in File
    BY <1>8, <1>i, <1>t, ServesTable DEF TruncateFile, File, Torn, ProcessOK
  <2>3. StoreOK'
    BY <1>8, <1>t, <1>d, <2>2, PutIsDir DEF TruncateFile, StoreOK
  <2>4. /\ handler[c].pc = "SendFileToServer"
        /\ UNCHANGED <<status, now, connVars>>
    BY <1>8 DEF TruncateFile
  <2>5. Serves(handler'[c].pc) = Serves(handler[c].pc)
    BY <2>1, <2>4, ServesTable
  <2>6. QED
    BY <2>1, <2>3, <2>4, <2>5, InnerStep
<1>9. CASE WriteFile(c)
  <2>1. ThreadsOK' /\ (\A d \in Client \ {c} : handler'[d] = handler[d])
        /\ handler'[c].pc = "setTime"
    BY <1>9, <1>t, GotoKeeps DEF WriteFile, Step
  <2>2. Requested(c) \in Path /\ Head(inbox[c]).data \in Nat /\ Torn \in Nat
    BY <1>9, <1>i, ServesTable DEF WriteFile, Torn
  <2>3. IsDir(syncRoot')
    <3>1. CASE handler[c].linked
      <4>1. PICK d \in {Head(inbox[c]).data, Torn} :
                syncRoot' = Put(syncRoot, Requested(c), [ts |-> now, data |-> d])
        BY <1>9, <3>1 DEF WriteFile
      <4>2. [ts |-> now, data |-> d] \in File
        BY <1>t, <2>2 DEF File, ProcessOK
      <4>3. QED
        BY <1>d, <2>2, <4>1, <4>2, PutIsDir
    <3>2. CASE ~handler[c].linked
      BY <1>9, <1>d, <3>2 DEF WriteFile
    <3>3. QED
      BY <3>1, <3>2
  <2>4. StoreOK'
    BY <1>9, <1>t, <2>3 DEF WriteFile, StoreOK
  <2>5. QED
    BY <1>9, <2>1, <2>4, InnerStep, ServesTable DEF WriteFile
<1>10. CASE SetTime(c)
  <2>1. CASE Exists(c)
    <3>1. ThreadsOK' /\ (\A d \in Client \ {c} : handler'[d] = handler[d])
          /\ handler'[c].pc = "checkList"
      BY <1>10, <1>t, <2>1, GotoKeeps DEF SetTime, Step
    <3>2. Head(inbox[c]).ts \in Nat
      BY <1>10, <1>i, ServesTable DEF SetTime
    <3>3. IsDir(syncRoot')
      BY <1>10, <1>d, <2>1, <3>2, StampIsDir DEF SetTime, Exists
    <3>4. StoreOK'
      BY <1>10, <1>t, <2>1, <3>3 DEF SetTime, StoreOK
    <3>5. QED
      BY <1>10, <2>1, <3>1, <3>4, InnerStep, ServesTable DEF SetTime
  <2>2. CASE ~Exists(c)
    BY <1>10, <2>2, AbortKeeps DEF SetTime, IInv
  <2>3. QED
    BY <2>1, <2>2
<1>11. CASE CheckList(c)
  <2>1. CASE listFile.exists
    <3>1. ThreadsOK' /\ (\A d \in Client \ {c} : handler'[d] = handler[d])
          /\ handler'[c].pc = "unlinkList"
      BY <1>11, <1>t, <2>1, GotoKeeps DEF CheckList, Step
    <3>2. StoreOK'
      BY <1>11, <1>t, <2>1 DEF CheckList, StoreOK
    <3>3. QED
      BY <1>11, <2>1, <3>1, <3>2, InnerStep, ServesTable DEF CheckList
  <2>2. CASE ~listFile.exists
    BY <1>11, <2>2, AbortKeeps DEF CheckList, IInv
  <2>3. QED
    BY <2>1, <2>2
<1>12. CASE UnlinkList(c)
  <2>1. ThreadsOK' /\ (\A d \in Client \ {c} : handler'[d].pc = handler[d].pc)
        /\ handler'[c].pc = "rewriteList"
    BY <1>12, <1>t, GotoUnlinkingKeeps DEF UnlinkList, Step
  <2>2. StoreOK'
    BY <1>12, <1>t DEF UnlinkList, StoreOK
  <2>3. QED
    BY <1>12, <2>1, <2>2, InnerStep, ServesTable DEF UnlinkList
<1>13. CASE RewriteList(c)
  <2>1. StoreOK'
    BY <1>13, <1>t DEF RewriteList, StoreOK
  <2>2. QED
    BY <1>13, <2>1, LastStep, Responses DEF RewriteList
<1>14. CASE GetServerDeletedList(c)
  <2>1. IsResponse([type |-> "ServerDeletedList", paths |-> mContent])
    BY <1>t, Responses DEF StoreOK
  <2>2. QED
    BY <1>14, <1>u, <2>1, LastStep DEF GetServerDeletedList
<1>15. CASE OpenList(c)
  <2>1. ThreadsOK' /\ (\A d \in Client \ {c} : handler'[d] = handler[d])
        /\ handler'[c].pc = "checkMark"
    BY <1>15, <1>t, OpenKeeps DEF OpenList, Step
  <2>2. StoreOK'
    BY <1>15, <1>t DEF OpenList, StoreOK
  <2>3. /\ handler[c].pc = "MarkAsDeleted"
        /\ UNCHANGED <<status, now, connVars>>
    BY <1>15 DEF OpenList
  <2>4. Serves(handler'[c].pc) = Serves(handler[c].pc)
    BY <2>1, <2>3, ServesTable
  <2>5. QED
    BY <2>1, <2>2, <2>3, <2>4, InnerStep
<1>24. CASE CheckMark(c)
  <2>1. PICK step \in {"findFile", "mark"} : Goto(c, step)
    BY <1>24 DEF CheckMark
  <2>2. ThreadsOK' /\ (\A d \in Client \ {c} : handler'[d] = handler[d])
        /\ handler'[c].pc = step
    BY <1>t, <2>1, GotoKeeps DEF Step
  <2>3. QED
    BY <1>24, <1>u, <2>2, InnerStep, ServesTable DEF CheckMark
<1>16. CASE Mark(c) \/ Overwritten(c)
  <2>1. ThreadsOK' /\ (\A d \in Client \ {c} : handler'[d] = handler[d])
        /\ handler'[c].pc = "saveMark"
    BY <1>16, <1>t, GotoKeeps DEF Mark, Overwritten, Step
  <2>2. \A d \in Client : handler[d].pc = "mark" => Requested(d) \in Path
    BY <1>t, RequestOfStep, ServesTable
  <2>3. StoreOK'
    BY <1>16, <1>t, <2>2 DEF Mark, Overwritten, StoreOK
  <2>4. QED
    BY <1>16, <2>1, <2>3, InnerStep, ServesTable DEF Mark, Overwritten
<1>25. CASE SaveMark(c)
  <2>1. ThreadsOK' /\ (\A d \in Client \ {c} : handler'[d] = handler[d])
        /\ handler'[c].pc = "findFile"
    BY <1>25, <1>t, GotoKeeps DEF SaveMark, Step
  <2>2. Requested(c) \in Path
    BY <1>25, <1>i, ServesTable DEF SaveMark
  <2>3. Appended(Requested(c)) \subseteq SUBSET Path
    BY <2>2 DEF Appended
  <2>4. StoreOK'
    <3>1. CASE handler[c].linked
      <4>1. PICK lines \in SUBSET Path :
                listFile' = [listFile EXCEPT !.lines = @ \cup lines, !.tail = {}]
        BY <1>25, <2>3, <3>1 DEF SaveMark
      <4>2. UNCHANGED <<syncRoot, mContent>>
        BY <1>25 DEF SaveMark
      <4>3. QED
        BY <1>t, <4>1, <4>2 DEF StoreOK
    <3>2. CASE ~handler[c].linked
      BY <1>25, <1>t, <3>2 DEF SaveMark, StoreOK
    <3>3. QED
      BY <3>1, <3>2
  <2>5. /\ handler[c].pc = "saveMark"
        /\ UNCHANGED <<status, now, connVars>>
    BY <1>25 DEF SaveMark
  <2>6. Serves(handler'[c].pc) = Serves(handler[c].pc)
    BY <2>1, <2>5, ServesTable
  <2>7. QED
    BY <2>1, <2>4, <2>5, <2>6, InnerStep
<1>17. CASE FindMarked(c)
  <2>1. CASE Exists(c)
    <3>1. ThreadsOK' /\ (\A d \in Client \ {c} : handler'[d] = handler[d])
          /\ handler'[c].pc = "checkGone"
      BY <1>17, <1>t, <2>1, GotoKeeps DEF FindMarked, Step
    <3>2. QED
      BY <1>17, <1>u, <2>1, <3>1, InnerStep, ServesTable DEF FindMarked
  <2>2. CASE ~Exists(c)
    BY <1>17, <1>u, <2>2, LastStep, Responses DEF FindMarked
  <2>3. QED
    BY <2>1, <2>2
<1>18. CASE CheckMarked(c)
    BY <1>18, AssertStep, ServesTable DEF CheckMarked, Step
<1>19. CASE UnlinkFile(c)
  <2>1. ThreadsOK' /\ (\A d \in Client \ {c} : handler'[d].pc = handler[d].pc)
        /\ handler'[c].pc = "answerDeleted"
    BY <1>19, <1>t, GotoUnlinkingKeeps DEF UnlinkFile, Step
  <2>2. StoreOK'
    BY <1>19, <1>t, <1>d, DropIsDir DEF UnlinkFile, StoreOK
  <2>3. QED
    BY <1>19, <2>1, <2>2, InnerStep, ServesTable DEF UnlinkFile
<1>20. CASE AnswerDeleted(c)
    BY <1>20, <1>u, LastStep, Responses DEF AnswerDeleted
<1>21. CASE Race(c)
    BY <1>21, AbortKeeps DEF Race, IInv
<1>22. QED
    BY <1>1, <1>2, <1>3, <1>4, <1>5, <1>6, <1>7, <1>8, <1>9, <1>10, <1>11,
       <1>12, <1>13, <1>14, <1>15, <1>16, <1>17, <1>18, <1>19, <1>20, <1>21,
       <1>23, <1>24, <1>25
       DEF Handle

LEMMA LeaveKeepsIInv ==
    ASSUME IInv, NEW c \in Client, Leave(c)
    PROVE  IInv'
<1>1. ThreadsOK' /\ (\A d \in Client \ {c} : handler'[d] = handler[d])
      /\ handler'[c].pc = "ended"
    BY GotoKeeps DEF Leave, Step, IInv, ServerOK
<1>2. ChannelsOK' /\ UNCHANGED inbox
    BY ChannelsUntouched DEF Leave, IInv, ServerOK
<1>3. Serving'
    BY <1>1, <1>2 DEF IInv, Serving, Busy
<1>4. QED
    BY <1>1, <1>2, <1>3 DEF IInv, ServerOK, ProcessOK, StoreOK, store, Leave

\* So do the steps of the environment.
LEMMA SubmitKeepsIInv ==
    ASSUME IInv, NEW c \in Client, Submit(c)
    PROVE  IInv'
<1>1. PICK r \in Request : Send(c, r)
    BY DEF Submit
<1>2. inbox[c] \in Seq(Request)
    BY DEF IInv, ServerOK, ChannelsOK
<1>3. /\ Append(inbox[c], r) \in Seq(Request)
      /\ Append(inbox[c], r) # <<>>
      /\ inbox[c] # <<>> => Head(Append(inbox[c], r)) = Head(inbox[c])
    BY <1>2, AppendProperties, HeadTailAppend
<1>4. ChannelsOK'
    BY <1>1, <1>3 DEF IInv, ServerOK, ChannelsOK, Send
<1>5. UNCHANGED serverVars
    BY DEF Submit
<1>6. Serving'
    BY <1>1, <1>3, <1>5
       DEF IInv, ServerOK, ChannelsOK, Send, Serving, Busy, serverVars
<1>7. QED
    BY <1>4, <1>5, <1>6
       DEF IInv, ServerOK, StoreOK, ProcessOK, ThreadsOK, serverVars, store

LEMMA CollectKeepsIInv ==
    ASSUME IInv, NEW c \in Client, Collect(c) \/ TimeOut(c)
    PROVE  IInv'
<1>1. ChannelsOK' /\ UNCHANGED inbox
    BY DEF IInv, ServerOK, ChannelsOK, Collect, TimeOut, Receive, GiveUp, HangUp
<1>2. UNCHANGED serverVars
    BY DEF Collect, TimeOut
<1>3. QED
    BY <1>1, <1>2
       DEF IInv, ServerOK, StoreOK, ProcessOK, ThreadsOK, Serving, Busy,
           serverVars, store

LEMMA TickKeepsIInv ==
    ASSUME IInv, Tick
    PROVE  IInv'
BY DEF IInv, ServerOK, StoreOK, ProcessOK, ThreadsOK, ChannelsOK, Serving, Busy,
       Tick, TimePasses, store, connVars

\* What is left of the list file is a part of the list.
LEMMA LeftIsPaths ==
    ASSUME IInv, NEW left \in Left
    PROVE  /\ left \in [exists : BOOLEAN, lines : SUBSET Path, tail : SUBSET Path]
           /\ left.exists
<1>1. StoreOK
    BY DEF IInv, ServerOK
<1>2. CASE Rewriting
  <2>1. PICK written \in SUBSET mContent :
            left \in [exists : {TRUE}, lines : {listFile.lines \cup written},
                     tail : LastLine(mContent \ written)]
    BY <1>2 DEF Left
  <2>2. \A q \in mContent : Cut[q] \subseteq Path
    BY <1>1, CutAssumption DEF StoreOK
  <2>3. LastLine(mContent \ written) \subseteq SUBSET Path
    BY <2>2 DEF LastLine
  <2>4. QED
    BY <1>1, <2>1, <2>3 DEF StoreOK
<1>3. CASE ~Rewriting
    BY <1>1, <1>3 DEF Left, StoreOK
<1>4. QED
    BY <1>2, <1>3

\* A new process has handlers and channels like the first one.
LEMMA StartKeepsIInv ==
    ASSUME IInv, Start
    PROVE  IInv'
<1>1. listFile' \in [exists : BOOLEAN, lines : SUBSET Path, tail : SUBSET Path]
    BY LeftIsPaths DEF Start, NewProcess
<1>2. StoreOK' /\ ProcessOK'
    BY <1>1 DEF IInv, ServerOK, StoreOK, ProcessOK, Start, NewProcess
<1>3. ThreadsOK'
    BY IdleIsHandler DEF ThreadsOK, Start, NewProcess
<1>4. ChannelsOK' /\ Serving'
    BY DEF ChannelsOK, Serving, Busy, Start, NewProcess, Idle
<1>5. QED
    BY <1>2, <1>3, <1>4 DEF IInv, ServerOK

LEMMA InitIInv == Init => IInv
<1> SUFFICES ASSUME Init PROVE IInv
    OBVIOUS
<1>1. StoreOK
    BY DEF Init, ServerInit, StoreOK, IsDir, EmptyDir
<1>2. ProcessOK /\ ThreadsOK /\ Serving
    BY IdleIsHandler DEF Init, ServerInit, ProcessOK, ThreadsOK, Serving, Busy, Idle
<1>3. ChannelsOK
    BY DEF Init, ConnInit, ChannelsOK
<1>4. QED
    BY <1>1, <1>2, <1>3 DEF IInv, ServerOK

LEMMA NextKeepsIInv == IInv /\ [Next]_aloneVars => IInv'
<1> SUFFICES ASSUME IInv, [Next]_aloneVars PROVE IInv'
    OBVIOUS
<1>1. CASE Tick
    BY <1>1, TickKeepsIInv
<1>2. ASSUME NEW c \in Client, Serve(c) PROVE IInv'
    BY <1>2, HandleKeepsIInv DEF Serve
<1>3. ASSUME NEW c \in Client, Submit(c) PROVE IInv'
    BY <1>3, SubmitKeepsIInv
<1>4. ASSUME NEW c \in Client, Collect(c) \/ TimeOut(c) PROVE IInv'
    BY <1>4, CollectKeepsIInv
<1>5. CASE UNCHANGED aloneVars
    BY <1>5 DEF IInv, ServerOK, StoreOK, ProcessOK, ThreadsOK, ChannelsOK,
       Serving, Busy, aloneVars, vars, serverVars, store, connVars
<1>6. ASSUME NEW c \in Client, Expire(c) PROVE IInv'
    BY <1>6, LeaveKeepsIInv DEF Expire
<1>7. CASE Start
    BY <1>7, StartKeepsIInv
<1>8. QED
    BY <1>1, <1>2, <1>3, <1>4, <1>5, <1>6, <1>7 DEF Next

\* The invariant holds in every state.
LEMMA Inductive == Spec => []IInv
BY InitIInv, NextKeepsIInv, PTL DEF Spec

\* What is remembered of the past is of its kind, too.
GhostsOK ==
    /\ cutOff \subseteq Path
    /\ cutList \in BOOLEAN
    /\ lost \subseteq Path
    /\ overtaken \subseteq Client

LEMMA NextKeepsGhosts ==
    ASSUME IInv, GhostsOK, [Next]_aloneVars
    PROVE  GhostsOK'
<1>r. \A c \in Client : handler[c].pc \in {"writeFile", "mark"} => Requested(c) \in Path
    BY RequestOfStep, ServesTable DEF IInv, ServerOK, Busy
<1>1. CASE Start
    BY <1>1, <1>r DEF Start, NewProcess, GhostsOK
<1>2. ASSUME NEW c \in Client, Serve(c) PROVE GhostsOK'
  <2>1. cutOff' \subseteq Path /\ overtaken' \subseteq Client
    BY <1>2 DEF Serve, GhostsOK
  <2>2. cutList' \in BOOLEAN
    BY <1>2 DEF Serve, GhostsOK
  <2>3. lost' \subseteq Path
    BY <1>2, <1>r DEF Serve, GhostsOK, At
  <2>4. QED
    BY <2>1, <2>2, <2>3 DEF GhostsOK
<1>3. ASSUME Tick \/ UNCHANGED aloneVars
             \/ \E c \in Client : Expire(c) \/ Submit(c) \/ Collect(c) \/ TimeOut(c)
      PROVE  UNCHANGED ghosts
    BY <1>3 DEF Tick, aloneVars, Expire, Submit, Collect, TimeOut
<1>4. CASE UNCHANGED ghosts
    BY <1>4 DEF ghosts, GhostsOK
<1>5. QED
    BY <1>1, <1>2, <1>3, <1>4 DEF Next

\* Every variable of the server keeps to its kind, with any number of
\* clients, paths, contents and pending requests; in particular no joined
\* path ever enters the list of deleted files (DeletedListManager).
THEOREM TypeCorrect == Spec => []TypeOK
<1>1. Init => GhostsOK
    BY DEF Init, GhostsOK
<1>2. IInv /\ GhostsOK /\ [Next]_aloneVars => GhostsOK'
    BY NextKeepsGhosts
<1>3. IInv /\ GhostsOK => TypeOK
    BY DEF IInv, GhostsOK, TypeOK
<1>4. QED
    BY <1>1, <1>2, <1>3, Inductive, PTL DEF Spec
-----------------------------------------------------------------------------
(* What a step of a thread leaves alone.                                   *)

\* Where Goto and GotoUnlinking lead.
LEMMA Moves ==
    ASSUME ThreadsOK, NEW c \in Client, NEW step
    PROVE  /\ Goto(c, step) =>
                 /\ handler'[c].pc = step
                 /\ \A d \in Client \ {c} : handler'[d] = handler[d]
           /\ \A others : GotoUnlinking(c, step, others) =>
                 /\ handler'[c].pc = step
                 /\ \A d \in Client \ {c} : /\ handler'[d].pc = handler[d].pc
                                           /\ handler'[d].names = handler[d].names
<1>1. /\ handler = [d \in Client |-> handler[d]]
      /\ \A d \in Client : handler[d] \in [pc : Step, names : SUBSET Path,
                                       list : {handler[d].list}, linked : BOOLEAN]
    BY DEF ThreadsOK, IsHandler
<1>2. [handler[c] EXCEPT !.pc = step].pc = step
    BY <1>1
<1>3. \A d \in Client : /\ [handler[d] EXCEPT !.linked = FALSE].pc = handler[d].pc
                        /\ [handler[d] EXCEPT !.linked = FALSE].names = handler[d].names
    BY <1>1
<1>4. QED
    BY <1>1, <1>2, <1>3 DEF Goto, GotoUnlinking

\* A thread moves itself only, and leaves its own queue alone until it is done.
LEMMA HandleIsLocal ==
    ASSUME IInv, NEW c \in Client, Handle(c)
    PROVE  /\ \A d \in Client \ {c} : /\ handler'[d].pc = handler[d].pc
                                    /\ handler'[d].names = handler[d].names
                                    /\ inbox'[d] = inbox[d]
           /\ handler'[c].pc = "idle" \/ inbox'[c] = inbox[c]
<1>t. /\ ThreadsOK
      /\ handler = [d \in Client |-> handler[d]]
      /\ inbox = [d \in Client |-> inbox[d]]
    BY DEF IInv, ServerOK, ThreadsOK, ChannelsOK
<1> DEFINE Local ==
             /\ \A d \in Client \ {c} : /\ handler'[d].pc = handler[d].pc
                                      /\ handler'[d].names = handler[d].names
                                      /\ inbox'[d] = inbox[d]
             /\ handler'[c].pc = "idle" \/ inbox'[c] = inbox[c]
<1>f. ASSUME NEW response, Finish(c, response) PROVE Local
    BY <1>t, <1>f DEF Finish, Answer, Idle
<1>g. ASSUME NEW step, Goto(c, step), UNCHANGED connVars PROVE Local
    BY <1>t, <1>g, Moves DEF connVars
<1>h. ASSUME NEW h, handler' = [handler EXCEPT ![c] = h], UNCHANGED connVars
      PROVE  Local
    BY <1>t, <1>h DEF connVars
<1>u. ASSUME NEW step, NEW others, GotoUnlinking(c, step, others),
             UNCHANGED connVars
      PROVE  Local
    BY <1>t, <1>u, Moves DEF connVars
<1>s. ASSUME UNCHANGED <<handler, connVars>> PROVE Local
    BY <1>s DEF connVars
<1> SUFFICES Local
    OBVIOUS
<1> HIDE DEF Local
<1>1. CASE Resolve(c)
    BY <1>1, <1>g DEF Resolve
<1>2. CASE SendTimeStamp(c)
    BY <1>2, <1>f DEF SendTimeStamp
<1>3. CASE ListFiles(c)
    BY <1>3, <1>t DEF ListFiles, Local, connVars
<1>4. CASE StatFile(c)
  <2>1. CASE Abort("exception")
    BY <2>1, <1>s DEF Abort
  <2>2. CASE ~Abort("exception")
    BY <1>4, <1>t, <2>2 DEF StatFile, Local, connVars
  <2>3. QED
    BY <2>1, <2>2
<1>5. CASE FindRequested(c)
    BY <1>5, <1>f, <1>g DEF FindRequested
<1>6. CASE CheckRequested(c)
    BY <1>6, <1>g, <1>s DEF CheckRequested, Assert
<1>7. CASE ReadRequested(c)
    BY <1>7, <1>f DEF ReadRequested
<1>8. CASE TruncateFile(c)
    BY <1>8, <1>t DEF TruncateFile, Local, connVars
<1>9. CASE WriteFile(c)
    BY <1>9, <1>g DEF WriteFile
<1>10. CASE SetTime(c)
    BY <1>10, <1>g, <1>s DEF SetTime, Abort
<1>11. CASE CheckList(c)
    BY <1>11, <1>g, <1>s DEF CheckList, Abort
<1>12. CASE UnlinkList(c)
    BY <1>12, <1>u DEF UnlinkList
<1>13. CASE RewriteList(c)
    BY <1>13, <1>f DEF RewriteList
<1>14. CASE GetServerDeletedList(c)
    BY <1>14, <1>f DEF GetServerDeletedList
<1>15. CASE OpenList(c)
    BY <1>15, <1>t DEF OpenList, Local, connVars
<1>16. CASE CheckMark(c) \/ Mark(c) \/ SaveMark(c) \/ Overwritten(c)
    BY <1>16, <1>g DEF CheckMark, Mark, SaveMark, Overwritten
<1>17. CASE FindMarked(c)
    BY <1>17, <1>f, <1>g DEF FindMarked
<1>18. CASE CheckMarked(c)
    BY <1>18, <1>g, <1>s DEF CheckMarked, Assert
<1>19. CASE UnlinkFile(c)
    BY <1>19, <1>u DEF UnlinkFile
<1>20. CASE AnswerDeleted(c) \/ SendFileList(c)
    BY <1>20, <1>f DEF AnswerDeleted, SendFileList
<1>21. CASE Race(c)
    BY <1>21, <1>s DEF Race, Abort
<1>22. QED
    BY <1>1, <1>2, <1>3, <1>4, <1>5, <1>6, <1>7, <1>8, <1>9, <1>10, <1>11,
       <1>12, <1>13, <1>14, <1>15, <1>16, <1>17, <1>18, <1>19, <1>20, <1>21 DEF Handle

\* What the steps that are no thread's, or the end of one, leave alone.
LEMMA OtherSteps ==
    ASSUME Tick \/ UNCHANGED aloneVars
              \/ \E c \in Client : Submit(c) \/ Collect(c) \/ TimeOut(c)
    PROVE  UNCHANGED <<syncRoot, mContent, listFile, handler, status, ghosts>>
BY DEF Tick, aloneVars, vars, Submit, Collect, TimeOut, serverVars, store

\* A thread that stays inside its action keeps its request.
LEMMA RequestStays ==
    ASSUME IInv, [Next]_aloneVars, NEW c \in Client, Busy(c), Busy(c)'
    PROVE  Head(inbox'[c]) = Head(inbox[c])
<1>1. inbox[c] \in Seq(Request) /\ inbox[c] # <<>>
    BY DEF IInv, ServerOK, ChannelsOK, Serving
<1>2. ASSUME NEW d \in Client, Serve(d) PROVE inbox'[c] = inbox[c]
    BY <1>2, HandleIsLocal DEF Serve, Busy
<1>3. ASSUME NEW d \in Client, Submit(d)
      PROVE  Head(inbox'[c]) = Head(inbox[c])
  <2>1. PICK r : inbox' = [inbox EXCEPT ![d] = Append(@, r)]
    BY <1>3 DEF Submit, Send
  <2>2. Head(Append(inbox[c], r)) = Head(inbox[c])
    BY <1>1, HeadTailAppend
  <2>3. QED
    BY <2>1, <2>2 DEF IInv, ServerOK, ChannelsOK
<1>4. ASSUME Tick \/ UNCHANGED aloneVars
             \/ \E d \in Client : Collect(d) \/ TimeOut(d) \/ Expire(d)
      PROVE  inbox' = inbox
    BY <1>4 DEF Tick, aloneVars, vars, connVars, Collect, TimeOut, Receive,
       GiveUp, HangUp, Expire, Leave
<1>5. ~Start
    BY DEF Start, NewProcess, Idle, Busy
<1>6. QED
    BY <1>2, <1>3, <1>4, <1>5 DEF Next
-----------------------------------------------------------------------------
(* Marks: what the deleted list promises.                                  *)

\* What markAsExistent erases, a joined path, is never in mContent.
LEMMA MarkErasesNothing ==
    ASSUME IInv, NEW c \in Client, CheckList(c)
    PROVE  mContent' = mContent
<1>1. Busy(c) /\ Requested(c) \in Path
    BY RequestOfStep, ServesTable DEF CheckList, At, IInv, ServerOK, Busy
<1>2. fullPath(Requested(c)) \notin mContent
    BY <1>1, PathAssumption DEF IInv, ServerOK, StoreOK
<1>3. QED
    BY <1>2 DEF CheckList, Abort, store

\* Only a new process may know fewer marks.
LEMMA MarksGrow ==
    ASSUME IInv, [Next]_aloneVars, ~Start
    PROVE  mContent \subseteq mContent'
<1>1. ASSUME NEW c \in Client, CheckList(c) PROVE mContent \subseteq mContent'
    BY <1>1, MarkErasesNothing
<1>2. ASSUME NEW c \in Client, Mark(c) \/ Overwritten(c)
      PROVE  mContent \subseteq mContent'
    BY <1>2 DEF Mark, Overwritten
<1>3. ASSUME NEW c \in Client, Handle(c), ~CheckList(c), ~Mark(c), ~Overwritten(c)
      PROVE  mContent' = mContent
    BY <1>3 DEF Handle, Resolve, SendTimeStamp, ListFiles, StatFile, SendFileList,
       FindRequested, CheckRequested, ReadRequested, TruncateFile, WriteFile,
       SetTime, UnlinkList, RewriteList, GetServerDeletedList, OpenList,
       CheckMark, SaveMark, FindMarked, CheckMarked, UnlinkFile, AnswerDeleted,
       Race, Abort, Assert, store
<1>4. ASSUME NEW c \in Client, Expire(c) PROVE mContent' = mContent
    BY <1>4 DEF Expire, Leave, store
<1>5. QED
    BY <1>1, <1>2, <1>3, <1>4, OtherSteps DEF Next, Serve

\* The steps of MarkAsDeletedAction after the marking.
Marked == {"saveMark", "findFile", "checkGone", "unlinkFile", "answerDeleted"}

\* A thread that is past the marking of a path has it marked, if the mark was
\* not overwritten.
MarkedOnTheWay ==
    \A c \in Client :
        handler[c].pc \in Marked => Requested(c) \in mContent \cup lost

\* Where a thread that is past the marking comes from.
LEMMA MarkedPredecessor ==
    ASSUME IInv, [Next]_aloneVars, NEW c \in Client, handler'[c].pc \in Marked
    PROVE  \/ At(c, "mark") /\ Serve(c)
           \/ CheckMark(c) /\ Requested(c) \in mContent
           \/ handler[c].pc \in Marked
<1>t. ThreadsOK /\ handler = [d \in Client |-> handler[d]]
    BY DEF IInv, ServerOK, ThreadsOK
<1>f. ASSUME NEW response, Finish(c, response) PROVE FALSE
    BY <1>t, <1>f DEF Finish, Idle, Marked
<1>g. ASSUME NEW step, Goto(c, step) PROVE step \in Marked
    BY <1>t, <1>g, Moves DEF Marked
<1>u. ASSUME NEW step, NEW others, GotoUnlinking(c, step, others)
      PROVE  step \in Marked
    BY <1>t, <1>u, Moves
<1>1. ASSUME NEW d \in Client \ {c}, Handle(d)
      PROVE  handler'[c].pc = handler[c].pc
    BY <1>1, HandleIsLocal
<1>2. ASSUME Handle(c), ~At(c, "mark"), handler[c].pc \notin Marked
      PROVE  CheckMark(c) /\ Requested(c) \in mContent
  <2>1. ~Resolve(c)
    <3>1. ASSUME Resolve(c) PROVE Head(inbox[c]) \in Request
      BY <3>1, HeadTailProperties DEF Resolve, IInv, ServerOK, ChannelsOK
    <3>2. QED
      BY <1>g, <3>1 DEF Request, Marked, Resolve
  <2>2. /\ ~SendTimeStamp(c) /\ ~SendFileList(c) /\ ~ReadRequested(c)
        /\ ~RewriteList(c) /\ ~GetServerDeletedList(c) /\ ~AnswerDeleted(c)
    BY <1>f DEF SendTimeStamp, SendFileList, ReadRequested, RewriteList,
       GetServerDeletedList, AnswerDeleted
  <2>3. /\ ~FindRequested(c) /\ ~WriteFile(c)
    BY <1>f, <1>g DEF FindRequested, WriteFile, Marked
  <2>4. /\ ~SaveMark(c) /\ ~FindMarked(c) /\ ~CheckMarked(c) /\ ~UnlinkFile(c)
        /\ ~Mark(c) /\ ~Overwritten(c) /\ ~Race(c)
    BY <1>2 DEF SaveMark, FindMarked, CheckMarked, UnlinkFile, Mark, Overwritten,
       Race, Marked, At
  <2>5. ~UnlinkList(c)
    BY <1>u DEF UnlinkList, Marked
  <2>6. /\ ~CheckRequested(c) /\ ~SetTime(c) /\ ~CheckList(c)
    BY <1>2, <1>g DEF CheckRequested, SetTime, CheckList, Assert, Abort, Marked
  <2>7. /\ ~ListFiles(c) /\ ~TruncateFile(c) /\ ~OpenList(c) /\ ~StatFile(c)
    <3>1. handler[c] \in [pc : Step, names : SUBSET Path,
                          list : {handler[c].list}, linked : BOOLEAN]
      BY <1>t DEF ThreadsOK, IsHandler
    <3>2. ~ListFiles(c) /\ ~TruncateFile(c) /\ ~OpenList(c)
      BY <1>t, <3>1 DEF ListFiles, TruncateFile, OpenList, Marked
    <3>3. ~StatFile(c)
      BY <1>2, <1>t, <3>1 DEF StatFile, Abort, Marked
    <3>4. QED
      BY <3>2, <3>3
  <2>8. CheckMark(c)
    BY <1>2, <2>1, <2>2, <2>3, <2>4, <2>5, <2>6, <2>7 DEF Handle
  <2>9. Requested(c) \in mContent
    BY <2>8, <1>g DEF CheckMark, Marked
  <2>10. QED
    BY <2>8, <2>9
<1>3. ASSUME NEW d \in Client, Expire(d) PROVE handler[c].pc \in Marked
  <2>1. handler'[d].pc = "ended" /\ \A b \in Client \ {d} : handler'[b] = handler[b]
    BY <1>3, <1>t, Moves DEF Expire, Leave
  <2>2. QED
    BY <2>1 DEF Marked
<1>4. ~Start
    BY DEF Start, NewProcess, Idle, Marked
<1>5. QED
    BY <1>1, <1>2, <1>3, <1>4, OtherSteps DEF Next, Serve

\* No mark gets lost, as long as the process goes on, but those that are known
\* to be lost.
LEMMA KnownMarksStay ==
    ASSUME IInv, [Next]_aloneVars, ~Start
    PROVE  mContent \cup lost \subseteq mContent' \cup lost'
<1>1. mContent \subseteq mContent'
    BY MarksGrow
<1>2. ASSUME NEW c \in Client, Serve(c)
      PROVE  lost \subseteq mContent' \cup lost'
    BY <1>2 DEF Serve
<1>3. ASSUME NEW c \in Client, Expire(c) PROVE lost' = lost
    BY <1>3 DEF Expire, ghosts
<1>4. QED
    BY <1>1, <1>2, <1>3, OtherSteps DEF Next, ghosts

LEMMA MarkedOnTheWayKept ==
    ASSUME IInv, MarkedOnTheWay, [Next]_aloneVars
    PROVE  MarkedOnTheWay'
<1> SUFFICES ASSUME NEW c \in Client, handler'[c].pc \in Marked
             PROVE  Requested(c)' \in mContent' \cup lost'
    BY DEF MarkedOnTheWay
<1>1. Busy(c) /\ Busy(c)'
    BY MarkedPredecessor DEF CheckMark, At, Marked, Busy
<1>2. Requested(c)' = Requested(c)
    BY <1>1, RequestStays DEF Requested
<1>3. CASE At(c, "mark") /\ Serve(c)
    BY <1>2, <1>3 DEF Serve
<1>4. CASE ~(At(c, "mark") /\ Serve(c))
  <2>1. Requested(c) \in mContent \cup lost
    BY <1>4, MarkedPredecessor DEF MarkedOnTheWay
  <2>2. ~Start
    BY DEF Start, NewProcess, Idle, Marked
  <2>3. QED
    BY <1>2, <2>1, <2>2, KnownMarksStay
<1>5. QED
    BY <1>3, <1>4

\* Only UnlinkFile takes a file out of the directory.
LEMMA HandleRemoves ==
    ASSUME IInv, NEW c \in Client, Handle(c),
           NEW p \in DOMAIN syncRoot \ DOMAIN syncRoot'
    PROVE  UnlinkFile(c) /\ p = Requested(c)
<1>1. UnlinkFile(c) => p = Requested(c)
    BY DEF UnlinkFile, Drop
<1>2. TruncateFile(c) \/ WriteFile(c) \/ SetTime(c)
        => DOMAIN syncRoot \subseteq DOMAIN syncRoot'
    BY DEF TruncateFile, WriteFile, SetTime, Put, Abort, store
<1>3. ASSUME ~UnlinkFile(c), ~TruncateFile(c), ~WriteFile(c), ~SetTime(c)
      PROVE  syncRoot' = syncRoot
    BY <1>3 DEF Handle, Resolve, SendTimeStamp, ListFiles, StatFile, SendFileList,
       FindRequested, CheckRequested, ReadRequested, CheckList, UnlinkList,
       RewriteList, GetServerDeletedList, OpenList, CheckMark, Mark, SaveMark,
       Overwritten, FindMarked, CheckMarked, AnswerDeleted, Race, Abort, Assert,
       store
<1>4. QED
    BY <1>1, <1>2, <1>3

LEMMA OnlyUnlinkRemoves ==
    ASSUME IInv, [Next]_aloneVars, NEW p \in DOMAIN syncRoot \ DOMAIN syncRoot'
    PROVE  \E c \in Client : UnlinkFile(c) /\ p = Requested(c)
<1>1. ASSUME Start \/ \E c \in Client : Expire(c)
      PROVE  syncRoot' = syncRoot
    BY <1>1 DEF Start, NewProcess, Expire, Leave, store
<1>2. QED
    BY <1>1, HandleRemoves, OtherSteps DEF Next, Serve

\* A file disappears from the server only when its path is in the deleted
\* list, however many clients upload and delete it at once: a client that
\* asks for the list after it missed the file will find it there
\* (MarkAsDeletedAction marks before it removes).  The exception are the marks
\* that a racing push_back of another handler has overwritten.
THEOREM MarkedFirst == Spec => MarkedBeforeGone
<1>1. Init => MarkedOnTheWay
    BY DEF Init, ServerInit, MarkedOnTheWay, Marked, Idle
<1>2. IInv /\ MarkedOnTheWay /\ [Next]_aloneVars => MarkedOnTheWay'
    BY MarkedOnTheWayKept
<1>3. IInv /\ MarkedOnTheWay /\ [Next]_aloneVars
        => [\A p \in DOMAIN syncRoot \ DOMAIN syncRoot' :
              p \in mContent \cup lost]_aloneVars
    BY OnlyUnlinkRemoves DEF MarkedOnTheWay, Marked, UnlinkFile, At
<1>4. QED
    BY <1>1, <1>2, <1>3, Inductive, PTL DEF Spec, MarkedBeforeGone
-----------------------------------------------------------------------------
(* Assertions: what ends the server.                                       *)

\* What a thread relies on is there, or another one has removed it; the list
\* file is there, or some thread is about to write it.
Founded ==
    /\ \A c \in Client : Relying(c) \subseteq DOMAIN syncRoot \/ c \in overtaken
    /\ listFile.exists \/ Rewriting

\* The cases of Relying.
LEMMA Relies ==
    ASSUME NEW c \in Client
    PROVE  /\ handler[c].pc \in {"checkFile", "writeFile", "setTime", "checkGone"}
                 => Relying(c) = {Requested(c)}
           /\ handler[c].pc = "statFiles" => Relying(c) = handler[c].names
           /\ handler[c].pc \notin {"checkFile", "writeFile", "setTime", "checkGone",
                                    "statFiles"}
                 => Relying(c) = {}
BY DEF Relying

LEMMA ReliesNext ==
    ASSUME NEW c \in Client
    PROVE  /\ handler'[c].pc \in {"checkFile", "writeFile", "setTime", "checkGone"}
                 => Relying(c)' = {Requested(c)'}
           /\ handler'[c].pc = "statFiles" => Relying(c)' = handler'[c].names
           /\ handler'[c].pc \notin {"checkFile", "writeFile", "setTime", "checkGone",
                                     "statFiles"}
                 => Relying(c)' = {}
BY DEF Relying

\* A thread comes to rely on what it finds.
LEMMA OwnStep ==
    ASSUME IInv, NEW c \in Client, Handle(c), Relying(c) \subseteq DOMAIN syncRoot
    PROVE  Relying(c)' \subseteq DOMAIN syncRoot'
<1>t. ThreadsOK /\ handler = [d \in Client |-> handler[d]]
    BY DEF IInv, ServerOK, ThreadsOK
<1>h. handler[c] \in [pc : Step, names : SUBSET Path,
                      list : {handler[c].list}, linked : BOOLEAN]
    BY <1>t DEF ThreadsOK, IsHandler
<1>l. handler'[c].pc = "idle" \/ inbox'[c] = inbox[c]
    BY HandleIsLocal
<1>q. handler'[c].pc # "idle" => Requested(c)' = Requested(c)
    BY <1>l DEF Requested
<1> DEFINE Silent == {"checkFile", "writeFile", "setTime", "checkGone", "statFiles"}
<1>n. handler'[c].pc \notin Silent => Relying(c)' = {}
    BY ReliesNext
<1>f. ASSUME NEW response, Finish(c, response) PROVE Relying(c)' = {}
  <2>1. handler'[c].pc = "idle"
    BY <1>t, <1>f DEF Finish, Idle
  <2>2. QED
    BY <1>n, <2>1
<1>g. ASSUME NEW step, step \notin Silent, Goto(c, step) PROVE Relying(c)' = {}
    BY <1>t, <1>g, <1>n, Moves
<1>u. ASSUME NEW step, step \notin Silent, NEW others, GotoUnlinking(c, step, others)
      PROVE  Relying(c)' = {}
    BY <1>t, <1>u, <1>n, Moves
<1>s. ASSUME UNCHANGED <<handler, syncRoot, connVars>>
      PROVE  Relying(c)' \subseteq DOMAIN syncRoot'
    BY <1>s DEF Relying, Requested, connVars
<1>r. ASSUME handler'[c].pc \in Silent \ {"statFiles"}, Requested(c) \in DOMAIN syncRoot'
      PROVE  Relying(c)' \subseteq DOMAIN syncRoot'
    BY <1>r, <1>q, ReliesNext
<1>1. CASE Resolve(c)
  <2>1. Head(inbox[c]) \in Request
    BY <1>1, HeadTailProperties DEF Resolve, IInv, ServerOK, ChannelsOK
  <2>2. Head(inbox[c]).type \notin Silent
    BY <2>1 DEF Request
  <2>3. QED
    BY <1>1, <1>g, <2>2 DEF Resolve
<1>2. CASE SendTimeStamp(c) \/ SendFileList(c) \/ ReadRequested(c) \/ RewriteList(c)
           \/ GetServerDeletedList(c) \/ AnswerDeleted(c)
    BY <1>2, <1>f DEF SendTimeStamp, SendFileList, ReadRequested, RewriteList,
       GetServerDeletedList, AnswerDeleted
<1>3. CASE ListFiles(c)
  <2>1. handler'[c].pc = "statFiles" /\ handler'[c].names = DOMAIN syncRoot
        /\ syncRoot' = syncRoot
    BY <1>3, <1>t, <1>h DEF ListFiles, store
  <2>2. QED
    BY <2>1, ReliesNext
<1>4. CASE StatFile(c)
  <2>1. CASE Abort("exception")
    BY <2>1, <1>s DEF Abort, store
  <2>2. CASE ~Abort("exception")
    <3>1. handler[c].pc = "statFiles" /\ syncRoot' = syncRoot
      BY <1>4, <2>2 DEF StatFile, At, store
    <3>2. handler'[c].pc = "statFiles" /\ handler'[c].names \subseteq handler[c].names
      BY <1>4, <1>t, <1>h, <2>2 DEF StatFile, At
    <3>3. QED
      BY <3>1, <3>2, Relies, ReliesNext
  <2>3. QED
    BY <2>1, <2>2
<1>5. CASE FindRequested(c)
  <2>1. CASE Exists(c)
    <3>1. handler'[c].pc = "checkFile" /\ syncRoot' = syncRoot
      BY <1>5, <1>t, <2>1, Moves DEF FindRequested, store
    <3>2. QED
      BY <1>r, <2>1, <3>1 DEF Exists
  <2>2. CASE ~Exists(c)
    BY <1>5, <1>f, <2>2 DEF FindRequested
  <2>3. QED
    BY <2>1, <2>2
<1>6. CASE CheckRequested(c)
    BY <1>6, <1>g, <1>s DEF CheckRequested, Assert, store
<1>8. CASE TruncateFile(c)
  <2>1. handler'[c].pc = "writeFile" /\ Requested(c) \in DOMAIN syncRoot'
    BY <1>8, <1>t, <1>h DEF TruncateFile, Put
  <2>2. QED
    BY <1>r, <2>1
<1>9. CASE WriteFile(c)
  <2>1. handler'[c].pc = "setTime" /\ handler[c].pc = "writeFile"
    BY <1>9, <1>t, Moves DEF WriteFile, At
  <2>2. Requested(c) \in DOMAIN syncRoot
    BY <2>1, Relies
  <2>3. DOMAIN syncRoot \subseteq DOMAIN syncRoot'
    BY <1>9 DEF WriteFile, Put
  <2>4. QED
    BY <1>r, <2>1, <2>2, <2>3
<1>10. CASE SetTime(c)
    BY <1>10, <1>g, <1>s DEF SetTime, Abort, store
<1>11. CASE CheckList(c)
    BY <1>11, <1>g, <1>s DEF CheckList, Abort, store
<1>12. CASE UnlinkList(c)
    BY <1>12, <1>u DEF UnlinkList
<1>15. CASE OpenList(c)
  <2>1. handler'[c].pc = "checkMark"
    BY <1>15, <1>t, <1>h DEF OpenList
  <2>2. QED
    BY <1>n, <2>1
<1>16. CASE CheckMark(c) \/ Mark(c) \/ SaveMark(c) \/ Overwritten(c)
    BY <1>16, <1>g DEF CheckMark, Mark, SaveMark, Overwritten
<1>17. CASE FindMarked(c)
  <2>1. CASE Exists(c)
    <3>1. handler'[c].pc = "checkGone" /\ syncRoot' = syncRoot
      BY <1>17, <1>t, <2>1, Moves DEF FindMarked, store
    <3>2. QED
      BY <1>r, <2>1, <3>1 DEF Exists
  <2>2. CASE ~Exists(c)
    BY <1>17, <1>f, <2>2 DEF FindMarked
  <2>3. QED
    BY <2>1, <2>2
<1>18. CASE CheckMarked(c)
    BY <1>18, <1>g, <1>s DEF CheckMarked, Assert, store
<1>19. CASE UnlinkFile(c)
    BY <1>19, <1>u DEF UnlinkFile
<1>21. CASE Race(c)
    BY <1>21, <1>s DEF Race, Abort, store
<1>22. QED
    BY <1>1, <1>2, <1>3, <1>4, <1>5, <1>6, <1>8, <1>9, <1>10, <1>11,
       <1>12, <1>15, <1>16, <1>17, <1>18, <1>19, <1>21 DEF Handle

\* Whatever one thread takes from another one is known to be taken.
LEMMA HandleKeepsFounded ==
    ASSUME IInv, Founded, NEW c \in Client, Serve(c)
    PROVE  Founded'
<1>h. Handle(c)
    BY DEF Serve
<1>t. ThreadsOK /\ handler = [d \in Client |-> handler[d]]
    BY DEF IInv, ServerOK, ThreadsOK
<1>1. ASSUME NEW d \in Client
      PROVE  Relying(d)' \subseteq DOMAIN syncRoot' \/ d \in overtaken'
  <2>1. CASE d \in overtaken
    <3>1. Relying(d)' # {} => d \in overtaken'
      BY <2>1 DEF Serve
    <3>2. QED
      BY <3>1
  <2>2. CASE d = c /\ d \notin overtaken
    BY <1>h, <2>2, OwnStep DEF Founded
  <2>3. CASE d # c /\ d \notin overtaken
    <3>1. Relying(d)' = Relying(d)
      <4>1. /\ handler'[d].pc = handler[d].pc /\ handler'[d].names = handler[d].names
            /\ Requested(d)' = Requested(d)
        BY <1>h, <2>3, HandleIsLocal DEF Requested
      <4>2. QED
        BY <4>1, Relies, ReliesNext
    <3>2. CASE Relying(d) \subseteq DOMAIN syncRoot'
      BY <3>1, <3>2
    <3>3. CASE ~(Relying(d) \subseteq DOMAIN syncRoot')
      <4>1. PICK p \in Relying(d) : p \notin DOMAIN syncRoot'
        BY <3>3
      <4>2. p \in DOMAIN syncRoot
        BY <2>3, <4>1 DEF Founded
      <4>3. UnlinkFile(c) /\ p = Requested(c)
        BY <1>h, <4>1, <4>2, HandleRemoves
      <4>4. Overtakes(c, d)
        BY <2>3, <4>1, <4>3 DEF Overtakes, UnlinkFile
      <4>5. QED
        BY <3>1, <4>1, <4>4 DEF Serve
    <3>4. QED
      BY <3>2, <3>3
  <2>4. QED
    BY <2>1, <2>2, <2>3
<1>2. listFile'.exists \/ Rewriting'
  <2>1. CASE UnlinkList(c)
    <3>1. handler'[c].pc = "rewriteList"
      BY <1>t, <2>1, Moves DEF UnlinkList
    <3>2. QED
      BY <3>1 DEF Rewriting
  <2>2. CASE RewriteList(c) \/ OpenList(c)
    BY <2>2 DEF RewriteList, OpenList, IInv, ServerOK, StoreOK
  <2>3. CASE SaveMark(c)
    <3>1. listFile'.exists = listFile.exists
      BY <2>3 DEF SaveMark, IInv, ServerOK, StoreOK
    <3>2. handler[c].pc # "rewriteList"
      BY <2>3 DEF SaveMark, At
    <3>3. \A d \in Client \ {c} : handler'[d].pc = handler[d].pc
      BY <1>h, HandleIsLocal
    <3>4. QED
      BY <3>1, <3>2, <3>3 DEF Founded, Rewriting
  <2>4. ASSUME ~UnlinkList(c), ~RewriteList(c), ~OpenList(c), ~SaveMark(c)
        PROVE  listFile'.exists \/ Rewriting'
    <3>1. listFile' = listFile
      BY <1>h, <2>4 DEF Handle, Resolve, SendTimeStamp, ListFiles, StatFile,
         SendFileList, FindRequested, CheckRequested, ReadRequested, TruncateFile,
         WriteFile, SetTime, CheckList, GetServerDeletedList, CheckMark, Mark,
         Overwritten, FindMarked, CheckMarked, UnlinkFile, AnswerDeleted, Race,
         Abort, Assert, store
    <3>2. CASE handler[c].pc # "rewriteList"
      <4>1. \A d \in Client \ {c} : handler'[d].pc = handler[d].pc
        BY <1>h, HandleIsLocal
      <4>2. QED
        BY <3>1, <3>2, <4>1 DEF Founded, Rewriting
    <3>3. CASE handler[c].pc = "rewriteList"
      <4>1. FALSE
        <5>1. /\ ~At(c, "idle") /\ ~At(c, "mark")
              /\ \A step \in Step \ {"rewriteList"} : ~At(c, step)
          BY <3>3 DEF At
        <5>2. QED
          BY <1>h, <2>4, <5>1 DEF Handle, Resolve, SendTimeStamp, ListFiles,
             StatFile, SendFileList, FindRequested, CheckRequested, ReadRequested,
             TruncateFile, WriteFile, SetTime, CheckList, GetServerDeletedList,
             CheckMark, Mark, Overwritten, FindMarked, CheckMarked, UnlinkFile,
             AnswerDeleted, Race, Step
      <4>2. QED
        BY <4>1
    <3>4. QED
      BY <3>2, <3>3
  <2>5. QED
    BY <2>1, <2>2, <2>3, <2>4
<1>3. QED
    BY <1>1, <1>2 DEF Founded

\* So do the other steps.
LEMMA FoundedKept ==
    ASSUME IInv, Founded, [Next]_aloneVars
    PROVE  Founded'
<1>t. ThreadsOK /\ handler = [d \in Client |-> handler[d]]
    BY DEF IInv, ServerOK, ThreadsOK
<1>s. ASSUME \A d \in Client : Relying(d)' = Relying(d) /\ handler'[d].pc = handler[d].pc,
             UNCHANGED <<syncRoot, listFile, ghosts>>
      PROVE  Founded'
    BY <1>s DEF Founded, Rewriting, ghosts
<1>1. CASE Start
  <2>1. listFile'.exists
    BY <1>1, LeftIsPaths DEF Start, NewProcess
  <2>2. \A d \in Client : handler'[d].pc = "idle"
    BY <1>1 DEF Start, NewProcess, Idle
  <2>3. \A d \in Client : Relying(d)' = {}
    BY <2>2, ReliesNext
  <2>4. QED
    BY <2>1, <2>3 DEF Founded
<1>2. ASSUME NEW c \in Client, Expire(c) PROVE Founded'
  <2>1. /\ handler[c].pc = "idle" /\ handler'[c].pc = "ended"
        /\ \A d \in Client \ {c} : handler'[d] = handler[d]
        /\ UNCHANGED <<syncRoot, listFile, ghosts, inbox>>
    BY <1>2, <1>t, Moves DEF Expire, Leave, At, store, connVars
  <2>2. Relying(c) = {} /\ Relying(c)' = {}
    BY <2>1, Relies, ReliesNext
  <2>3. \A d \in Client \ {c} : Relying(d)' = Relying(d)
    BY <2>1 DEF Relying, Requested
  <2>4. QED
    BY <2>1, <2>2, <2>3 DEF Founded, Rewriting, ghosts
<1>3. ASSUME NEW c \in Client, Submit(c) PROVE Founded'
  <2>1. UNCHANGED <<syncRoot, listFile, handler, ghosts>>
    BY <1>3, OtherSteps
  <2>2. ASSUME NEW d \in Client PROVE Relying(d)' = Relying(d)
    <3>1. CASE Busy(d)
      <4>1. Busy(d)'
        BY <2>1, <3>1 DEF Busy
      <4>2. Requested(d)' = Requested(d)
        BY <1>3, <3>1, <4>1, RequestStays DEF Next, Requested
      <4>3. QED
        BY <2>1, <4>2 DEF Relying
    <3>2. CASE ~Busy(d)
      <4>1. Relying(d) = {} /\ Relying(d)' = {}
        BY <2>1, <3>2, Relies, ReliesNext DEF Busy
      <4>2. QED
        BY <4>1
    <3>3. QED
      BY <3>1, <3>2
  <2>3. QED
    BY <1>s, <2>1, <2>2
<1>4. ASSUME Tick \/ UNCHANGED aloneVars
             \/ \E c \in Client : Collect(c) \/ TimeOut(c)
      PROVE  Founded'
  <2>1. UNCHANGED <<syncRoot, listFile, handler, ghosts, inbox>>
    BY <1>4, OtherSteps DEF Tick, aloneVars, vars, connVars, Collect, TimeOut,
       Receive, GiveUp, HangUp
  <2>2. \A d \in Client : Relying(d)' = Relying(d)
    BY <2>1 DEF Relying, Requested
  <2>3. QED
    BY <1>s, <2>1, <2>2
<1>5. QED
    BY <1>1, <1>2, <1>3, <1>4, HandleKeepsFounded DEF Next

\* An assertion fails, or an exception is thrown, only on what another thread
\* has taken.
LEMMA AbortsAreFounded ==
    ASSUME IInv, Founded, NEW c \in Client, Serve(c), status = "running",
           status' \in {"assertion", "exception"}
    PROVE  OnlyCollisionsAbort'
<1>h. Handle(c)
    BY DEF Serve
<1>o. ASSUME ~(Relying(c) \subseteq DOMAIN syncRoot), UNCHANGED <<handler, inbox>>
      PROVE  OnlyCollisionsAbort'
  <2>1. c \in overtaken
    BY <1>o DEF Founded
  <2>2. Relying(c)' = Relying(c)
    BY <1>o DEF Relying, Requested
  <2>3. c \in overtaken'
    BY <1>o, <2>1, <2>2 DEF Serve
  <2>4. QED
    BY <2>3 DEF OnlyCollisionsAbort
<1>1. CASE StatFile(c)
  <2>1. /\ handler[c].pc = "statFiles" /\ UNCHANGED <<handler, inbox>>
        /\ \E p \in handler[c].names : p \notin DOMAIN syncRoot
    BY <1>1 DEF StatFile, Abort, At, connVars
  <2>2. QED
    BY <1>o, <2>1, Relies
<1>2. CASE CheckRequested(c) \/ SetTime(c) \/ CheckMarked(c)
  <2>1. /\ handler[c].pc \in {"checkFile", "setTime", "checkGone"}
        /\ ~Exists(c) /\ UNCHANGED <<handler, inbox>>
    BY <1>2 DEF CheckRequested, SetTime, CheckMarked, Assert, Abort, At, connVars
  <2>2. QED
    BY <1>o, <2>1, Relies DEF Exists
<1>3. CASE CheckList(c)
  <2>1. /\ handler[c].pc = "checkList" /\ ~listFile.exists /\ UNCHANGED handler
    BY <1>3 DEF CheckList, Abort, At
  <2>2. Rewriting
    BY <2>1 DEF Founded
  <2>3. QED
    BY <2>1, <2>2 DEF Rewriting, OnlyCollisionsAbort
<1>4. ASSUME ~StatFile(c), ~CheckRequested(c), ~SetTime(c), ~CheckMarked(c),
             ~CheckList(c)
      PROVE  status' \in {"running", "race"}
    BY <1>h, <1>4 DEF Handle, Resolve, SendTimeStamp, ListFiles, SendFileList,
       FindRequested, ReadRequested, TruncateFile, WriteFile, UnlinkList,
       RewriteList, GetServerDeletedList, OpenList, CheckMark, Mark, SaveMark,
       Overwritten, FindMarked, UnlinkFile, AnswerDeleted, Race, Abort
<1>5. QED
    BY <1>1, <1>2, <1>3, <1>4

\* Once the process has ended, its threads stand still.
LEMMA CollisionsStay ==
    ASSUME IInv, Founded, OnlyCollisionsAbort, [Next]_aloneVars
    PROVE  OnlyCollisionsAbort'
<1>1. CASE Start
    BY <1>1 DEF Start, NewProcess, OnlyCollisionsAbort
<1>2. ASSUME NEW c \in Client, Serve(c) PROVE OnlyCollisionsAbort'
  <2>1. status = "running"
    BY <1>2 DEF Serve, Handle, Resolve, SendTimeStamp, ListFiles, StatFile,
       SendFileList, FindRequested, CheckRequested, ReadRequested, TruncateFile,
       WriteFile, SetTime, CheckList, UnlinkList, RewriteList,
       GetServerDeletedList, OpenList, CheckMark, Mark, SaveMark, Overwritten,
       FindMarked, CheckMarked, UnlinkFile, AnswerDeleted, Race, At
  <2>2. CASE status' \in {"assertion", "exception"}
    BY <1>2, <2>1, <2>2, AbortsAreFounded
  <2>3. CASE status' \notin {"assertion", "exception"}
    BY <2>3 DEF OnlyCollisionsAbort
  <2>4. QED
    BY <2>2, <2>3
<1>3. ASSUME NEW c \in Client, Expire(c) PROVE OnlyCollisionsAbort'
    BY <1>3 DEF Expire, Leave, At, OnlyCollisionsAbort
<1>4. ASSUME Tick \/ UNCHANGED aloneVars
             \/ \E c \in Client : Submit(c) \/ Collect(c) \/ TimeOut(c)
      PROVE  OnlyCollisionsAbort'
    BY <1>4, OtherSteps DEF OnlyCollisionsAbort, ghosts
<1>5. QED
    BY <1>1, <1>2, <1>3, <1>4 DEF Next

\* With any number of clients an assertion of the server fails, or an exception
\* leaves a thread, only where two threads collide: on a file that one has
\* tested or listed and another one removed, or on the list file between two
\* uploads' removals of it.
THEOREM AbortsOnCollision == Spec => []OnlyCollisionsAbort
<1>1. Init => Founded /\ OnlyCollisionsAbort
  <2> SUFFICES ASSUME Init PROVE Founded /\ OnlyCollisionsAbort
    OBVIOUS
  <2>1. \A c \in Client : Relying(c) = {}
    BY Relies DEF Init, ServerInit, Idle
  <2>2. QED
    BY <2>1 DEF Init, ServerInit, Founded, OnlyCollisionsAbort
<1>2. IInv /\ Founded /\ OnlyCollisionsAbort /\ [Next]_aloneVars
        => Founded' /\ OnlyCollisionsAbort'
    BY FoundedKept, CollisionsStay
<1>3. QED
    BY <1>1, <1>2, Inductive, PTL DEF Spec
=============================================================================
