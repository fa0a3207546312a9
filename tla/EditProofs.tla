----------------------------- MODULE EditProofs -----------------------------
(***************************************************************************)
(* Proofs about FileSync: with any clients, the edits that a scan has seen *)
(* are kept; with one client, equal times mean equal contents.             *)
(***************************************************************************)
EXTENDS SyncProofs

-----------------------------------------------------------------------------
(* The server never has anything newer than the user of its only client.   *)

\* The user's file is at least as new as t, or was deleted once.
Outdated(c, p, t) ==
    \/ p \in Deleted
    \/ p \in DOMAIN local[c] /\ t <= local[c][p].ts

\* The file an upload is writing has the present time for a while.
Storing(c, p) == handler[c].pc \in {"writeFile", "setTime"} /\ p = Requested(c)

\* A pass before it has compared its scan with the server's list.
Early == {"start", "awaitTime", "top", "awaitList", "scan", "stat"}

Downloading == {"download", "unlinkOld", "request", "awaitFile", "save", "setTime"}

EditsLead(c) ==
    /\ edited \in Time /\ edited <= now
    /\ \A p \in DOMAIN local[c] : p \in Deleted \/ local[c][p].ts <= edited

ServerFollows(c) ==
    \A p \in DOMAIN syncRoot : Outdated(c, p, syncRoot[p].ts) \/ Storing(c, p)

\* An upload on its way carries no newer time than the user's file has.
UploadFollows(c, request) ==
    request.type = "SendFileToServer" => Outdated(c, request.path, request.ts)

\* So it is with a file list that arrives.
ReplyFollows(c) ==
    reply[c].type = "ServerFileList" =>
        \A p \in DOMAIN reply[c].files : Outdated(c, p, reply[c].files[p])

\* So do the times that its handler has read.
ListFollows(c) ==
    \A p \in DOMAIN handler[c].list : Outdated(c, p, handler[c].list[p])

MessagesFollow(c) ==
    /\ \A i \in 1 .. Len(inbox[c]) : UploadFollows(c, inbox[c][i])
    /\ ReplyFollows(c)

PassFollows(c) ==
    /\ \A p \in DOMAIN pass[c].remote : Outdated(c, p, pass[c].remote[p])
    /\ pass[c].pc = "read" => Outdated(c, Current(c), pass[c].stamp)
    /\ pass[c].pc = "stat" =>
          /\ DOMAIN pass[c].remote \subseteq
                pass[c].todo \cup DOMAIN pass[c].mine \cup Deleted
          /\ \A p \in DOMAIN pass[c].remote \cap DOMAIN pass[c].mine :
                p \in Deleted \/ pass[c].remote[p] <= pass[c].mine[p]
    /\ pass[c].pc \notin Early => ModifiedOrAdded(c) \subseteq Deleted
    /\ pass[c].pc \in Downloading => pass[c].todo \subseteq Deleted

LeadInv(c) ==
    /\ EditsLead(c) /\ ServerFollows(c) /\ ListFollows(c)
    /\ MessagesFollow(c) /\ PassFollows(c)
-----------------------------------------------------------------------------
(* What a step may do to the user's files.                                 *)

\* Files nobody deleted get newer or stay,
LocalGrows(c) ==
    /\ Deleted \subseteq Deleted'
    /\ \A p \in DOMAIN local[c] :
          \/ p \in Deleted'
          \/ p \in DOMAIN local'[c] /\ local[c][p].ts <= local'[c][p].ts

\* and unless a user writes, they stay.
Untouched(c) ==
    /\ Deleted \subseteq Deleted'
    /\ \A p \in Path \ Deleted' :
          /\ p \in DOMAIN local'[c] <=> p \in DOMAIN local[c]
          /\ p \in DOMAIN local[c] => local'[c][p] = local[c][p]

LEMMA LocalFacts ==
    ASSUME SyncInv, NEW c \in Client
    PROVE  /\ local[c] \in Dir /\ DOMAIN local[c] \subseteq Path
           /\ \A p \in DOMAIN local[c] :
                 local[c][p] \in Entry /\ local[c][p].ts \in Nat
BY DirFacts, TimeFacts DEF SyncInv, Kinds, Entry

LEMMA LocalFactsNext ==
    ASSUME SyncInv', NEW c \in Client
    PROVE  /\ local'[c] \in Dir /\ DOMAIN local'[c] \subseteq Path
           /\ \A p \in DOMAIN local'[c] :
                 local'[c][p] \in Entry /\ local'[c][p].ts \in Nat
BY DirFacts, TimeFacts DEF SyncInv, Kinds, Entry

LEMMA UntouchedGrows ==
    ASSUME SyncInv, NEW c \in Client, Untouched(c)
    PROVE  LocalGrows(c)
<1>1. ASSUME NEW p \in DOMAIN local[c], p \notin Deleted'
      PROVE  p \in DOMAIN local'[c] /\ local[c][p].ts <= local'[c][p].ts
    BY <1>1, LocalFacts DEF Untouched
<1>2. QED
    BY <1>1 DEF Untouched, LocalGrows

LEMMA OutdatedStays ==
    ASSUME SyncInv, SyncInv', NEW c \in Client, LocalGrows(c),
           NEW p, NEW t \in Time, Outdated(c, p, t)
    PROVE  Outdated(c, p, t)'
<1>1. CASE p \in Deleted
    BY <1>1 DEF LocalGrows, Outdated
<1>2. CASE p \in DOMAIN local[c] /\ t <= local[c][p].ts /\ p \notin Deleted'
  <2>1. p \in DOMAIN local'[c] /\ local[c][p].ts <= local'[c][p].ts
    BY <1>2 DEF LocalGrows
  <2>2. local[c][p].ts \in Nat /\ local'[c][p].ts \in Nat /\ t \in Nat
    BY <1>2, <2>1, LocalFacts, LocalFactsNext, TimeFacts
  <2>3. QED
    BY <1>2, <2>1, <2>2 DEF Outdated
<1>3. QED
    BY <1>1, <1>2 DEF Outdated

LEMMA EditsLeadKept ==
    ASSUME SyncInv, SyncInv', NEW c \in Client, EditsLead(c), Untouched(c),
           edited' = edited, now <= now'
    PROVE  EditsLead(c)'
<1>1. now \in Nat /\ now' \in Nat /\ edited \in Nat
    BY TimeFacts DEF SyncInv, Kinds, EditsLead
<1>2. ASSUME NEW p \in DOMAIN local'[c], p \notin Deleted'
      PROVE  local'[c][p].ts <= edited'
  <2>2. p \in DOMAIN local[c] /\ local'[c][p] = local[c][p] /\ p \notin Deleted
    BY <1>2, LocalFactsNext DEF Untouched
  <2>3. QED
    BY <2>2 DEF EditsLead
<1>3. QED
    BY <1>1, <1>2 DEF EditsLead
-----------------------------------------------------------------------------
(* What follows the user's files goes on doing so.                         *)

LEMMA ServerFollowsKept ==
    ASSUME SyncInv, SyncInv', NEW c \in Client, ServerFollows(c), LocalGrows(c),
           DOMAIN syncRoot' \subseteq DOMAIN syncRoot,
           \A p \in DOMAIN syncRoot' : syncRoot'[p] = syncRoot[p],
           \A p : Storing(c, p) => Storing(c, p)'
    PROVE  ServerFollows(c)'
<1>1. ASSUME NEW p \in DOMAIN syncRoot', ~Storing(c, p)'
      PROVE  Outdated(c, p, syncRoot[p].ts)'
  <2>1. p \in DOMAIN syncRoot /\ ~Storing(c, p) /\ syncRoot'[p].ts = syncRoot[p].ts
    BY <1>1
  <2>2. Outdated(c, p, syncRoot[p].ts) /\ syncRoot[p].ts \in Time
    BY <2>1, DirFacts DEF SyncInv, Kinds, Entry, ServerFollows
  <2>3. QED
    <3>1. PICK t \in Time : t = syncRoot'[p].ts /\ t = syncRoot[p].ts
      BY <2>1, <2>2
    <3>2. Outdated(c, p, t)'
      BY <2>2, <3>1, OutdatedStays
    <3>3. QED
      BY <3>1, <3>2
<1>2. QED
    BY <1>1 DEF ServerFollows

LEMMA UploadStillFollows ==
    ASSUME SyncInv, SyncInv', NEW c \in Client, LocalGrows(c),
           NEW request \in Asked, UploadFollows(c, request)
    PROVE  UploadFollows(c, request)'
<1>1. request.type = "SendFileToServer" => request.ts \in Time
    BY DEF Asked
<1>2. QED
    BY <1>1, OutdatedStays DEF UploadFollows

LEMMA ReplyStillFollows ==
    ASSUME SyncInv, SyncInv', NEW c \in Client, LocalGrows(c), ReplyFollows(c),
           reply'[c] = reply[c]
    PROVE  ReplyFollows(c)'
<1>1. reply[c].type = "ServerFileList" => reply[c].files \in List
  <2>1. reply[c] \in Answered \cup {NoReply}
    BY DEF SyncInv, Kinds
  <2>2. reply[c].type = "ServerFileList" => reply[c] \in Answered
    BY <2>1 DEF NoReply
  <2>3. QED
    BY <2>2 DEF Answered
<1>2. ASSUME NEW p \in DOMAIN reply[c].files, reply[c].type = "ServerFileList"
      PROVE  Outdated(c, p, reply[c].files[p])'
  <2>1. PICK t \in Time : t = reply[c].files[p]
    BY <1>1, <1>2, ListFacts
  <2>2. Outdated(c, p, t)
    BY <1>2, <2>1 DEF ReplyFollows
  <2>3. Outdated(c, p, t)'
    BY <2>2, OutdatedStays
  <2>4. QED
    BY <2>1, <2>3
<1>3. QED
    BY <1>2 DEF ReplyFollows

LEMMA ListStillFollows ==
    ASSUME SyncInv, SyncInv', NEW c \in Client, LocalGrows(c), ListFollows(c),
           handler'[c].list = handler[c].list
    PROVE  ListFollows(c)'
<1>1. handler[c].list \in List
    BY DEF SyncInv, Kinds, Workers, Worker
<1>2. ASSUME NEW p \in DOMAIN handler[c].list
      PROVE  Outdated(c, p, handler[c].list[p])'
  <2>1. PICK t \in Time : t = handler[c].list[p]
    BY <1>1, ListFacts
  <2>2. Outdated(c, p, t)
    BY <2>1 DEF ListFollows
  <2>3. Outdated(c, p, t)'
    BY <2>2, OutdatedStays
  <2>4. QED
    BY <2>1, <2>3
<1>3. QED
    BY <1>2 DEF ListFollows

LEMMA InboxStillFollows ==
    ASSUME SyncInv, SyncInv', NEW c \in Client, LocalGrows(c),
           \A i \in 1 .. Len(inbox'[c]) :
              \E request \in Asked :
                 request = inbox'[c][i] /\ UploadFollows(c, request)
    PROVE  (\A i \in 1 .. Len(inbox[c]) : UploadFollows(c, inbox[c][i]))'
<1>1. ASSUME NEW i \in 1 .. Len(inbox'[c])
      PROVE  UploadFollows(c, inbox[c][i])'
  <2>1. PICK request \in Asked :
            request = inbox'[c][i] /\ UploadFollows(c, request)
    OBVIOUS
  <2>2. UploadFollows(c, request)'
    BY <2>1, UploadStillFollows
  <2>3. QED
    BY <2>1, <2>2
<1>2. QED
    BY <1>1

LEMMA InboxFacts ==
    ASSUME SyncInv, NEW c \in Client
    PROVE  /\ inbox \in [Client -> Seq(Asked)] /\ inbox[c] \in Seq(Asked)
           /\ Len(inbox[c]) \in Nat
           /\ \A i \in 1 .. Len(inbox[c]) : inbox[c][i] \in Asked
           /\ reply \in [Client -> Answered \cup {NoReply}]
           /\ handler[c].pc # "idle" => inbox[c] # <<>> /\ Len(inbox[c]) \in Nat \ {0}
<1>1. inbox[c] \in Seq(Asked)
    BY DEF SyncInv, Kinds
<1>2. handler[c].pc # "idle" => inbox[c] # <<>>
    BY DEF SyncInv, Talk
<1>3. QED
    BY <1>1, <1>2, EmptySeq DEF SyncInv, Kinds

\* What a client's step may do to its conversation.
Converses(c) ==
    \/ UNCHANGED connVars
    \/ HangUp(c)
    \/ \E request \in Asked : Send(c, request) /\ UploadFollows(c, request)

LEMMA ClientMessagesFollow ==
    ASSUME SyncInv, SyncInv', NEW c \in Client, MessagesFollow(c), LocalGrows(c),
           Converses(c)
    PROVE  /\ MessagesFollow(c)'
           /\ handler[c].pc # "idle" => Head(inbox'[c]) = Head(inbox[c])
<1>1. CASE UNCHANGED inbox[c] /\ reply'[c] \in {reply[c], NoReply}
  <2>1. \A i \in 1 .. Len(inbox'[c]) :
            \E request \in Asked :
                request = inbox'[c][i] /\ UploadFollows(c, request)
    BY <1>1, InboxFacts DEF MessagesFollow
  <2>2. ReplyFollows(c)'
    <3>1. CASE reply'[c] = NoReply
      BY <3>1 DEF ReplyFollows, NoReply
    <3>2. CASE reply'[c] = reply[c]
      BY <3>2, ReplyStillFollows DEF MessagesFollow
    <3>3. QED
      BY <1>1, <3>1, <3>2
  <2>3. QED
    BY <1>1, <2>1, <2>2, InboxStillFollows DEF MessagesFollow
<1>2. ASSUME NEW request \in Asked, Send(c, request), UploadFollows(c, request)
      PROVE  /\ MessagesFollow(c)'
             /\ handler[c].pc # "idle" => Head(inbox'[c]) = Head(inbox[c])
  <2>1. inbox'[c] = Append(inbox[c], request) /\ reply' = reply
    BY <1>2, InboxFacts DEF Send
  <2>2. \A i \in 1 .. Len(inbox'[c]) :
            \E r \in Asked : r = inbox'[c][i] /\ UploadFollows(c, r)
    BY <1>2, <2>1, InboxFacts DEF MessagesFollow
  <2>3. ReplyFollows(c)'
    BY <2>1, ReplyStillFollows DEF MessagesFollow
  <2>4. handler[c].pc # "idle" => Head(inbox'[c]) = Head(inbox[c])
    BY <2>1, InboxFacts
  <2>5. QED
    BY <2>2, <2>3, <2>4, InboxStillFollows DEF MessagesFollow
<1>3. UNCHANGED connVars \/ HangUp(c)
          => UNCHANGED inbox[c] /\ reply'[c] \in {reply[c], NoReply}
    BY InboxFacts DEF connVars, HangUp
<1>4. QED
    BY <1>1, <1>2, <1>3 DEF Converses

\* A step that leaves the server alone.
LEMMA ClientLeads ==
    ASSUME SyncInv, SyncInv', NEW c \in Client, LeadInv(c), LocalGrows(c),
           UNCHANGED <<syncRoot, handler>>, Converses(c),
           EditsLead(c)', PassFollows(c)'
    PROVE  LeadInv(c)'
<1>1. MessagesFollow(c)' /\ (handler[c].pc # "idle" => Head(inbox'[c]) = Head(inbox[c]))
    BY ClientMessagesFollow DEF LeadInv
<1>2. \A p : Storing(c, p) => Storing(c, p)'
    BY <1>1 DEF Storing, Requested
<1>3. ServerFollows(c)'
    BY <1>2, ServerFollowsKept DEF LeadInv
<1>4. ListFollows(c)'
    BY ListStillFollows DEF LeadInv
<1>5. QED
    BY <1>1, <1>3, <1>4 DEF LeadInv
-----------------------------------------------------------------------------
(* The passes.                                                             *)

LEMMA RemoteStillFollows ==
    ASSUME SyncInv, SyncInv', NEW c \in Client, PassFollows(c), LocalGrows(c),
           pass'[c].remote = pass[c].remote
    PROVE  (\A p \in DOMAIN pass[c].remote : Outdated(c, p, pass[c].remote[p]))'
<1>1. ASSUME NEW p \in DOMAIN pass[c].remote
      PROVE  Outdated(c, p, pass'[c].remote[p])
             /\ \E t \in Time : t = pass'[c].remote[p] /\ Outdated(c, p, t)'
  <2>1. PICK t \in Time : t = pass[c].remote[p]
    BY CurrentFacts, ListFacts
  <2>2. Outdated(c, p, t)
    BY <2>1 DEF PassFollows
  <2>3. Outdated(c, p, t)'
    BY <2>2, OutdatedStays
  <2>4. QED
    BY <2>1, <2>2, <2>3
<1>2. QED
    BY <1>1

\* A pass that has compared,
LEMMA PassGoesOn ==
    ASSUME SyncInv, SyncInv', NEW c \in Client, PassFollows(c), LocalGrows(c),
           pass'[c].remote = pass[c].remote, pass'[c].mine = pass[c].mine,
           pass[c].pc \notin Early, pass'[c].pc \notin Early \cup {"read"},
           pass'[c].pc \in Downloading => pass'[c].todo \subseteq Deleted'
    PROVE  PassFollows(c)'
<1>1. ModifiedOrAdded(c)' = ModifiedOrAdded(c)
    BY DEF ModifiedOrAdded
<1>2. QED
    BY <1>1, RemoteStillFollows DEF PassFollows, LocalGrows, Early

\* one that has not yet,
LEMMA PassStarts ==
    ASSUME SyncInv, SyncInv', NEW c \in Client, PassFollows(c), LocalGrows(c),
           pass'[c].remote = pass[c].remote, pass'[c].pc \in Early \ {"stat"}
    PROVE  PassFollows(c)'
BY RemoteStillFollows DEF PassFollows, Early, Downloading

\* and one that knows nothing.
LEMMA PassForgets ==
    ASSUME NEW c \in Client, DOMAIN pass'[c].remote = {},
           pass'[c].pc \notin Downloading \cup {"read"}
    PROVE  PassFollows(c)'
BY DEF PassFollows, ModifiedOrAdded, getModifiedOrAdded

LEMMA ExitForgets ==
    ASSUME SyncInv, NEW c \in Client, NEW pc \in {"closed", "aborted"}, Exit(c, pc)
    PROVE  PassFollows(c)'
<1>1. Len(inbox[c]) \in Nat /\ pass \in [Client -> Passes]
    BY InboxFacts, PassKinds
<1>2. pass'[c] = [NewPass EXCEPT !.pc = pc, !.unanswered = Len(inbox[c])]
    BY <1>1 DEF Exit, Disconnected
<1>3. pass'[c].pc = pc /\ DOMAIN pass'[c].remote = {}
    BY <1>2, NothingIsList DEF NewPass
<1>4. QED
    BY <1>3, PassForgets DEF Downloading

\* The variables of a pass that a step of a loop leaves alone.
LEMMA LoopKeeps ==
    ASSUME SyncInv, NEW c \in Client, NEW pc, NEW todo, Loop(c, pc, todo)
    PROVE  /\ pass'[c].pc = pc /\ pass'[c].todo = todo
           /\ UNCHANGED <<pass[c].remote, pass[c].mine, pass[c].stamp, pass[c].data,
                          pass[c].adds>>
BY PassKinds DEF Loop, Passes

LEMMA MoveKeeps ==
    ASSUME SyncInv, NEW c \in Client, NEW pc, Move(c, pc)
    PROVE  /\ pass'[c].pc = pc /\ pass'[c].todo = pass[c].todo
           /\ UNCHANGED <<pass[c].remote, pass[c].mine, pass[c].stamp, pass[c].data,
                          pass[c].adds>>
           /\ Current(c)' = Current(c)
<1>1. /\ pass'[c].pc = pc /\ pass'[c].todo = pass[c].todo
      /\ UNCHANGED <<pass[c].remote, pass[c].mine, pass[c].stamp, pass[c].data,
                          pass[c].adds>>
    BY PassKinds DEF Move, Passes
<1>2. QED
    BY <1>1, CurrentStays
-----------------------------------------------------------------------------
(* The client's steps.                                                     *)

\* A file that was deleted once may go, come and change.
LEMMA UntouchedElsewhere ==
    ASSUME SyncInv, NEW c \in Client, UNCHANGED deleted, NEW q \in Deleted,
           NEW f, local'[c] \in {Drop(local[c], q), Put(local[c], q, f)}
    PROVE  Untouched(c)
<1>1. UNCHANGED Deleted
    BY DEF Deleted
<1>2. ASSUME NEW p \in Path \ Deleted'
      PROVE  /\ p \in DOMAIN local'[c] <=> p \in DOMAIN local[c]
             /\ p \in DOMAIN local[c] => local'[c][p] = local[c][p]
  <2>1. p # q
    BY <1>1, <1>2
  <2>2. CASE local'[c] = Drop(local[c], q)
    BY <2>1, <2>2 DEF Drop
  <2>3. CASE local'[c] = Put(local[c], q, f)
    BY <2>1, <2>3 DEF Put
  <2>4. QED
    BY <2>2, <2>3
<1>3. QED
    BY <1>1, <1>2 DEF Untouched

LEMMA UntouchedAtAll ==
    ASSUME NEW c \in Client, UNCHANGED <<deleted, local>>
    PROVE  Untouched(c)
BY DEF Untouched, Deleted

LEMMA TakesConverses ==
    ASSUME NEW c \in Client, Receive(c)
    PROVE  Converses(c)
BY DEF Receive, HangUp, Converses

LEMMA AsksConverses ==
    ASSUME NEW c \in Client, NEW request \in Asked, Send(c, request),
           request.type # "SendFileToServer"
    PROVE  Converses(c)
BY DEF Converses, UploadFollows

\* A client that works on a deletion or a download works on a path that was
\* deleted once.
LEMMA CurrentDeleted ==
    ASSUME SyncInv, NEW c \in Client, PassFollows(c),
           pass[c].pc \in {"unlinkGone", "unlinkOld", "request", "awaitFile", "save",
                           "setTime"}
    PROVE  Current(c) \in Deleted /\ Current(c) \in Path
<1>1. pass[c].todo # {} /\ pass[c].todo \subseteq Deleted
    BY DEF SyncInv, Knows, HasOne, PassFollows, Downloading
<1>2. QED
    BY <1>1, CurrentFacts

\* The first messages of a process and of a pass.
LEMMA FetchStep ==
    ASSUME SyncInv, SyncInv', NEW c \in Client, LeadInv(c),
           UNCHANGED <<deleted, local>>,
           AskTime(c) \/ CheckTimeDiff(c) \/ AskFileList(c) \/ TakeFileList(c)
           \/ Wake(c)
    PROVE  Converses(c) /\ PassFollows(c)'
<1>1. LocalGrows(c) /\ Untouched(c) /\ PassFollows(c) /\ MessagesFollow(c)
    BY UntouchedAtAll, UntouchedGrows DEF LeadInv
<1>k. pass \in [Client -> Passes] /\ pass[c] \in Passes
    BY PassKinds
<1>2. CASE AskTime(c)
  <2>1. Converses(c)
    BY <1>2, AsksConverses DEF AskTime, Asked
  <2>2. /\ pass'[c].remote = pass[c].remote /\ pass'[c].pc = "awaitTime"
    BY <1>2, <1>k DEF AskTime, Passes
  <2>3. QED
    BY <1>1, <2>1, <2>2, PassStarts DEF Early
<1>3. CASE CheckTimeDiff(c)
  <2>1. Converses(c)
    BY <1>3, TakesConverses DEF CheckTimeDiff
  <2>2. CASE Exit(c, "closed")
    BY <2>1, <2>2, ExitForgets
  <2>3. CASE pass' = [pass EXCEPT ![c].pc = "top", ![c].stamp = 0]
    <3>1. /\ pass'[c].remote = pass[c].remote /\ pass'[c].pc = "top"
      BY <2>3, <1>k DEF Passes
    <3>2. QED
      BY <1>1, <2>1, <3>1, PassStarts DEF Early
  <2>4. QED
    BY <1>3, <2>2, <2>3 DEF CheckTimeDiff
<1>4. CASE AskFileList(c)
  <2>1. Converses(c)
    BY <1>4, AsksConverses DEF AskFileList, Ask, Asked
  <2>2. /\ pass'[c].remote = pass[c].remote /\ pass'[c].pc = "awaitList"
    BY <1>4, MoveKeeps DEF AskFileList, Ask
  <2>3. QED
    BY <1>1, <2>1, <2>2, PassStarts DEF Early
<1>5. CASE TakeFileList(c)
  <2>1. Converses(c) /\ reply[c].type = "ServerFileList"
    BY <1>5, TakesConverses, TakenAnswer DEF TakeFileList, ClientAt
  <2>2. /\ pass'[c].remote = reply[c].files /\ pass'[c].pc = "scan"
    BY <1>5, <1>k DEF TakeFileList, Passes
  <2>3. reply[c].files \in List
    BY <1>5, <2>1, TakenAnswer DEF TakeFileList, Answered
  <2>4. ASSUME NEW p \in DOMAIN reply[c].files
        PROVE  \E t \in Time : t = reply[c].files[p] /\ Outdated(c, p, t)'
    <3>1. PICK t \in Time : t = reply[c].files[p]
      BY <2>3, ListFacts
    <3>2. Outdated(c, p, t)
      BY <1>1, <2>1, <3>1 DEF MessagesFollow, ReplyFollows
    <3>3. QED
      BY <1>1, <3>1, <3>2, OutdatedStays
  <2>5. (\A p \in DOMAIN pass[c].remote : Outdated(c, p, pass[c].remote[p]))'
    BY <2>2, <2>4
  <2>6. QED
    BY <2>1, <2>2, <2>5 DEF PassFollows, Early, Downloading
<1>6. CASE Wake(c)
  <2>1. Converses(c)
    BY <1>6 DEF Wake, Converses
  <2>2. /\ pass'[c].remote = pass[c].remote /\ pass'[c].pc = "top"
    BY <1>6, MoveKeeps DEF Wake
  <2>3. QED
    BY <1>1, <2>1, <2>2, PassStarts DEF Early
<1>7. QED
    BY <1>2, <1>3, <1>4, <1>5, <1>6

\* The scan, and what it is compared with.
LEMMA ScanStep ==
    ASSUME SyncInv, SyncInv', NEW c \in Client, LeadInv(c),
           UNCHANGED <<deleted, local>>,
           ScanNames(c) \/ ScanTime(c) \/ CompareScans(c)
    PROVE  Converses(c) /\ PassFollows(c)'
<1>1. LocalGrows(c) /\ PassFollows(c) /\ UNCHANGED Deleted
    BY UntouchedAtAll, UntouchedGrows DEF LeadInv, Deleted
<1>2. Converses(c)
    BY DEF ScanNames, ScanTime, CompareScans, Converses
<1>k. /\ pass \in [Client -> Passes] /\ pass[c] \in Passes
      /\ pass[c].remote \in List /\ pass[c].mine \in List
    BY PassKinds DEF Passes
<1>3. CASE ScanNames(c)
  <2>1. /\ pass'[c].pc = "stat" /\ pass'[c].todo = DOMAIN local[c]
        /\ pass'[c].remote = pass[c].remote /\ DOMAIN pass'[c].mine = {}
    BY <1>3, <1>k, NothingIsList DEF ScanNames, Passes
  <2>2. DOMAIN pass[c].remote \subseteq DOMAIN local[c] \cup Deleted
    BY <1>1 DEF PassFollows, Outdated
  <2>3. QED
    BY <1>1, <1>2, <2>1, <2>2, RemoteStillFollows
       DEF PassFollows, Early, Downloading
<1>4. CASE ScanTime(c) /\ ~Exit(c, "aborted")
  <2>1. DEFINE q == Current(c)
               mine == IF HasCurrent(c) THEN Put(pass[c].mine, q, local[c][q].ts)
                       ELSE pass[c].mine
  <2>2. /\ pass'[c].pc = "stat" /\ pass'[c].remote = pass[c].remote
        /\ pass'[c].todo = pass[c].todo \ {q} /\ pass'[c].mine = mine
    BY <1>4, <1>k DEF ScanTime, ClientAt, Passes
  <2>3. ASSUME NEW p \in DOMAIN pass[c].remote, p \notin Deleted
        PROVE  /\ p \in (pass[c].todo \ {q}) \cup DOMAIN mine
               /\ p \in DOMAIN mine => pass[c].remote[p] <= mine[p]
    <3>1. p \in DOMAIN local[c] /\ pass[c].remote[p] <= local[c][p].ts
      BY <1>1, <2>3 DEF PassFollows, Outdated
    <3>2. /\ p \in pass[c].todo \cup DOMAIN pass[c].mine
          /\ p \in DOMAIN pass[c].mine => pass[c].remote[p] <= pass[c].mine[p]
      BY <1>1, <1>4, <2>3 DEF PassFollows, ScanTime, ClientAt
    <3>3. CASE p = q
      <4>1. mine = Put(pass[c].mine, q, local[c][q].ts)
        BY <3>1, <3>3 DEF HasCurrent
      <4>2. p \in DOMAIN mine /\ mine[p] = local[c][p].ts
        BY <3>3, <4>1 DEF Put
      <4>3. QED
        BY <3>1, <4>2
    <3>4. CASE p # q
      <4>1. /\ p \in DOMAIN mine <=> p \in DOMAIN pass[c].mine
            /\ p \in DOMAIN mine => mine[p] = pass[c].mine[p]
        BY <3>4 DEF Put
      <4>2. QED
        BY <3>2, <3>4, <4>1
    <3>5. QED
      BY <3>3, <3>4
  <2>4. QED
    <3>1. HIDE DEF q, mine
    <3>2. QED
      BY <1>1, <1>2, <2>2, <2>3, RemoteStillFollows
         DEF PassFollows, Early, Downloading
<1>5. CASE ScanTime(c) /\ Exit(c, "aborted")
    BY <1>2, <1>5, ExitForgets
<1>6. CASE CompareScans(c)
  <2>1. /\ pass'[c].pc = "sendDeletes" /\ pass'[c].remote = pass[c].remote
        /\ pass'[c].mine = pass[c].mine
    BY <1>6, <1>k DEF CompareScans, Passes
  <2>2. ASSUME NEW p \in getModifiedOrAdded(pass[c].mine, pass[c].remote)
        PROVE  p \in Deleted
    <3>1. /\ p \in DOMAIN pass[c].remote
          /\ p \in DOMAIN pass[c].mine => pass[c].mine[p] < pass[c].remote[p]
      BY DEF getModifiedOrAdded
    <3>2. /\ p \in DOMAIN pass[c].mine \cup Deleted
          /\ p \in DOMAIN pass[c].mine =>
                p \in Deleted \/ pass[c].remote[p] <= pass[c].mine[p]
      BY <1>1, <1>6, <3>1 DEF PassFollows, CompareScans, ClientAt, LoopDone
    <3>3. /\ pass[c].remote[p] \in Nat
          /\ p \in DOMAIN pass[c].mine => pass[c].mine[p] \in Nat
      BY <1>k, <3>1, ListFacts, TimeFacts
    <3>4. QED
      BY <3>1, <3>2, <3>3
  <2>3. ModifiedOrAdded(c)' \subseteq Deleted'
    BY <1>1, <2>1, <2>2 DEF ModifiedOrAdded
  <2>4. QED
    BY <1>1, <1>2, <2>1, <2>3, RemoteStillFollows DEF PassFollows, Downloading
<1>7. QED
    BY <1>3, <1>4, <1>5, <1>6

\* The deletions and the files that are sent.
LEMMA SendStep ==
    ASSUME SyncInv, SyncInv', NEW c \in Client, LeadInv(c),
           UNCHANGED <<deleted, local>>,
           SendDelete(c) \/ TakeDeleted(c) \/ AddBack(c) \/ FindAdd(c) \/ StampAdd(c)
           \/ ReadAdd(c) \/ TakeAdded(c)
    PROVE  Converses(c) /\ PassFollows(c)'
<1>1. LocalGrows(c) /\ PassFollows(c) /\ UNCHANGED Deleted
    BY UntouchedAtAll, UntouchedGrows DEF LeadInv, Deleted
<1>k. pass \in [Client -> Passes] /\ pass[c] \in Passes
    BY PassKinds
<1>2. CASE SendDelete(c)
  <2>1. CASE LoopDone(c)
    <3>1. Move(c, "addBack") /\ UNCHANGED connVars
      BY <1>2, <2>1 DEF SendDelete
    <3>2. QED
      BY <1>1, <1>2, <3>1, MoveKeeps, PassGoesOn
         DEF SendDelete, ClientAt, Early, Downloading, Converses
  <2>2. CASE ~LoopDone(c)
    <3>1. DEFINE r == [type |-> "MarkAsDeleted", path |-> Current(c)]
    <3>2. Send(c, r) /\ Move(c, "awaitDeleted")
      BY <1>2, <2>2 DEF SendDelete, Ask
    <3>3. r \in Asked /\ r.type # "SendFileToServer"
      BY <2>2, CurrentFacts DEF LoopDone, Asked
    <3>4. Converses(c)
      <4>1. HIDE DEF r
      <4>2. QED
        BY <3>2, <3>3, AsksConverses
    <3>5. QED
      BY <1>1, <1>2, <3>2, <3>4, MoveKeeps, PassGoesOn
         DEF SendDelete, ClientAt, Early, Downloading
  <2>3. QED
    BY <2>1, <2>2
<1>3. CASE TakeDeleted(c)
    BY <1>1, <1>3, TakesConverses, LoopKeeps, PassGoesOn
       DEF TakeDeleted, NextPath, ClientAt, Early, Downloading
<1>4. CASE AddBack(c)
    BY <1>1, <1>4, LoopKeeps, PassGoesOn
       DEF AddBack, ClientAt, Early, Downloading, Converses
<1>5. CASE FindAdd(c)
  <2>1. Converses(c)
    BY <1>5 DEF FindAdd, Converses
  <2>2. CASE LoopDone(c) /\ pass[c].adds # "first"
    <3>1. pass'[c] = [NewPass EXCEPT !.pc = "idle"]
      BY <1>5, <1>k, <2>2 DEF FindAdd, AfterAdds
    <3>2. pass'[c].pc = "idle" /\ DOMAIN pass'[c].remote = {}
      BY <3>1, NothingIsList DEF NewPass
    <3>3. QED
      BY <2>1, <3>2, PassForgets DEF Downloading
  <2>3. CASE Move(c, "askDeleted") \/ Move(c, "stamp")
    BY <1>1, <1>5, <2>1, <2>3, MoveKeeps, PassGoesOn
       DEF FindAdd, ClientAt, Early, Downloading
  <2>4. CASE NextPath(c, "sendAdds")
    BY <1>1, <1>5, <2>1, <2>4, LoopKeeps, PassGoesOn
       DEF FindAdd, NextPath, ClientAt, Early, Downloading
  <2>5. QED
    BY <1>5, <2>2, <2>3, <2>4 DEF FindAdd, AfterAdds
<1>6. CASE StampAdd(c)
  <2>1. Converses(c)
    BY <1>6 DEF StampAdd, Converses
  <2>2. CASE Exit(c, "aborted")
    BY <2>1, <2>2, ExitForgets
  <2>3. CASE HasCurrent(c) /\ pass' = [pass EXCEPT ![c].pc = "read",
                                        ![c].stamp = local[c][Current(c)].ts]
    <3>1. /\ pass'[c].pc = "read" /\ pass'[c].stamp = local[c][Current(c)].ts
          /\ pass'[c].todo = pass[c].todo
          /\ UNCHANGED <<pass[c].remote, pass[c].mine>>
      BY <1>k, <2>3 DEF Passes
    <3>2. Current(c)' = Current(c) /\ ModifiedOrAdded(c)' = ModifiedOrAdded(c)
      BY <3>1, CurrentStays DEF ModifiedOrAdded
    <3>3. Outdated(c, Current(c), pass[c].stamp)'
      <4>1. local[c][Current(c)].ts \in Nat
        BY <2>3, LocalFacts DEF HasCurrent
      <4>2. QED
        BY <2>3, <3>1, <3>2, <4>1 DEF Outdated, HasCurrent
    <3>4. QED
      BY <1>1, <1>6, <2>1, <3>1, <3>2, <3>3, RemoteStillFollows
         DEF StampAdd, ClientAt, PassFollows, Early, Downloading
  <2>4. CASE NextPath(c, "sendAdds")
    BY <1>1, <1>6, <2>1, <2>4, LoopKeeps, PassGoesOn
       DEF StampAdd, NextPath, ClientAt, Early, Downloading
  <2>5. QED
    BY <1>6, <2>2, <2>3, <2>4 DEF StampAdd
<1>7. CASE ReadAdd(c)
  <2>1. CASE HasCurrent(c)
    <3>1. DEFINE r == [type |-> "SendFileToServer", path |-> Current(c),
                       ts |-> pass[c].stamp, data |-> local[c][Current(c)].data]
    <3>2. Send(c, r) /\ Move(c, "awaitAdded")
      BY <1>7, <2>1 DEF ReadAdd, Ask
    <3>3. r \in Asked
      <4>1. Current(c) \in Path /\ local[c][Current(c)].data \in Nat
        BY <2>1, LocalFacts DEF HasCurrent, Entry
      <4>2. pass[c].stamp \in Time
        BY <1>k DEF Passes
      <4>3. QED
        BY <4>1, <4>2 DEF Asked
    <3>4. UploadFollows(c, r)
      BY <1>1, <1>7 DEF UploadFollows, PassFollows, ReadAdd, ClientAt
    <3>5. Converses(c)
      <4>1. HIDE DEF r
      <4>2. QED
        BY <3>2, <3>3, <3>4 DEF Converses
    <3>6. QED
      BY <1>1, <1>7, <3>2, <3>5, MoveKeeps, PassGoesOn
         DEF ReadAdd, ClientAt, Early, Downloading
  <2>2. CASE ~HasCurrent(c)
    BY <1>7, <2>2, ExitForgets DEF ReadAdd, Converses
  <2>3. QED
    BY <2>1, <2>2
<1>8. CASE TakeAdded(c)
  <2>1. /\ pass'[c].pc = "sendAdds" /\ UNCHANGED <<pass[c].remote, pass[c].mine>>
    BY <1>8, <1>k DEF TakeAdded, Passes
  <2>2. QED
    BY <1>1, <1>8, <2>1, TakesConverses, PassGoesOn
       DEF TakeAdded, ClientAt, Early, Downloading
<1>9. QED
    BY <1>2, <1>3, <1>4, <1>5, <1>6, <1>7, <1>8

\* The deletions by others.
LEMMA GoneStep ==
    ASSUME SyncInv, SyncInv', NEW c \in Client, LeadInv(c), UNCHANGED deleted,
           AskDeletedList(c) \/ TakeDeletedList(c) \/ FindGone(c) \/ UnlinkGone(c)
    PROVE  Untouched(c) /\ Converses(c) /\ PassFollows(c)'
<1>1. PassFollows(c) /\ UNCHANGED Deleted
    BY DEF LeadInv, Deleted
<1>2. ASSUME UNCHANGED local
      PROVE  Untouched(c) /\ LocalGrows(c)
    BY <1>2, UntouchedAtAll, UntouchedGrows
<1>3. CASE AskDeletedList(c)
  <2>1. Converses(c)
    BY <1>3, AsksConverses DEF AskDeletedList, Ask, Asked
  <2>2. QED
    BY <1>1, <1>2, <1>3, <2>1, MoveKeeps, PassGoesOn
       DEF AskDeletedList, Ask, ClientAt, Early, Downloading
<1>4. CASE TakeDeletedList(c)
    BY <1>1, <1>2, <1>4, TakesConverses, LoopKeeps, PassGoesOn
       DEF TakeDeletedList, ClientAt, Early, Downloading
<1>5. CASE FindGone(c)
  <2>1. Converses(c) /\ Untouched(c) /\ LocalGrows(c)
    BY <1>2, <1>5 DEF FindGone, Converses
  <2>2. CASE Loop(c, "download", ModifiedOrAdded(c) \ pass[c].deletedByUser)
    <3>1. ModifiedOrAdded(c) \subseteq Deleted'
      BY <1>1, <1>5 DEF PassFollows, FindGone, ClientAt, Early
    <3>2. QED
      BY <1>1, <1>5, <2>1, <2>2, <3>1, LoopKeeps, PassGoesOn
         DEF FindGone, ClientAt, Early
  <2>3. CASE Move(c, "unlinkGone")
    BY <1>1, <1>5, <2>1, <2>3, MoveKeeps, PassGoesOn
       DEF FindGone, ClientAt, Early, Downloading
  <2>4. CASE NextPath(c, "removeGone")
    BY <1>1, <1>5, <2>1, <2>4, LoopKeeps, PassGoesOn
       DEF FindGone, NextPath, ClientAt, Early, Downloading
  <2>5. QED
    BY <1>5, <2>2, <2>3, <2>4 DEF FindGone
<1>6. CASE UnlinkGone(c)
  <2>1. Converses(c)
    BY <1>6 DEF UnlinkGone, Converses
  <2>2. CASE HasCurrent(c)
    <3>1. local'[c] = Drop(local[c], Current(c))
      BY <1>6, <2>2 DEF UnlinkGone, SyncInv, Kinds
    <3>2. Current(c) \in Deleted
      BY <1>1, <1>6, CurrentDeleted DEF UnlinkGone, ClientAt
    <3>3. Untouched(c) /\ LocalGrows(c)
      BY <3>1, <3>2, UntouchedElsewhere, UntouchedGrows
    <3>4. QED
      BY <1>1, <1>6, <2>1, <2>2, <3>3, LoopKeeps, PassGoesOn
         DEF UnlinkGone, NextPath, ClientAt, Early, Downloading
  <2>3. CASE ~HasCurrent(c)
    BY <1>2, <1>6, <2>1, <2>3, ExitForgets DEF UnlinkGone
  <2>4. QED
    BY <2>2, <2>3
<1>7. QED
    BY <1>3, <1>4, <1>5, <1>6

\* The downloads: what they bring was deleted once.
LEMMA DownloadStep ==
    ASSUME SyncInv, SyncInv', NEW c \in Client, LeadInv(c), UNCHANGED deleted,
           FindDownload(c) \/ UnlinkOld(c) \/ RequestFile(c) \/ TakeFile(c)
           \/ SaveFile(c) \/ SetFileTime(c)
    PROVE  Untouched(c) /\ Converses(c) /\ PassFollows(c)'
<1>1. PassFollows(c) /\ UNCHANGED Deleted
    BY DEF LeadInv, Deleted
<1>2. ASSUME UNCHANGED local
      PROVE  Untouched(c) /\ LocalGrows(c)
    BY <1>2, UntouchedAtAll, UntouchedGrows
<1>k. /\ pass \in [Client -> Passes] /\ pass[c] \in Passes
      /\ local \in [Client -> Dir] /\ local[c] \in Dir
    BY PassKinds DEF SyncInv, Kinds
<1>d. ASSUME pass[c].pc \in Downloading
      PROVE  pass[c].todo \subseteq Deleted'
    BY <1>1, <1>d DEF PassFollows
<1>3. CASE FindDownload(c)
  <2>1. Converses(c) /\ Untouched(c) /\ LocalGrows(c)
    BY <1>2, <1>3 DEF FindDownload, Converses
  <2>2. CASE LoopDone(c)
    <3>1. /\ pass'[c].pc = "sendAdds" /\ UNCHANGED <<pass[c].remote, pass[c].mine>>
      BY <1>3, <1>k, <2>2 DEF FindDownload, Passes
    <3>2. QED
      BY <1>1, <1>3, <2>1, <3>1, PassGoesOn
         DEF FindDownload, ClientAt, Early, Downloading
  <2>3. CASE ~LoopDone(c)
    <3>1. PICK pc \in {"unlinkOld", "request"} : Move(c, pc)
      BY <1>3, <2>3 DEF FindDownload
    <3>2. QED
      BY <1>1, <1>3, <1>d, <2>1, <3>1, MoveKeeps, PassGoesOn
         DEF FindDownload, ClientAt, Early, Downloading
  <2>4. QED
    BY <2>2, <2>3
<1>4. CASE UnlinkOld(c)
  <2>1. Converses(c)
    BY <1>4 DEF UnlinkOld, Converses
  <2>2. CASE HasCurrent(c)
    <3>1. local'[c] = Drop(local[c], Current(c))
      BY <1>4, <1>k, <2>2 DEF UnlinkOld
    <3>2. Current(c) \in Deleted
      BY <1>1, <1>4, CurrentDeleted DEF UnlinkOld, ClientAt
    <3>3. Untouched(c) /\ LocalGrows(c)
      BY <3>1, <3>2, UntouchedElsewhere, UntouchedGrows
    <3>4. QED
      BY <1>1, <1>4, <1>d, <2>1, <2>2, <3>3, MoveKeeps, PassGoesOn
         DEF UnlinkOld, ClientAt, Early, Downloading
  <2>3. CASE ~HasCurrent(c)
    BY <1>2, <1>4, <2>1, <2>3, ExitForgets DEF UnlinkOld
  <2>4. QED
    BY <2>2, <2>3
<1>5. CASE RequestFile(c)
  <2>1. [type |-> "GetFileByPath", path |-> Current(c)] \in Asked
    BY <1>1, <1>5, CurrentDeleted DEF RequestFile, ClientAt, Asked
  <2>2. Converses(c)
    BY <1>5, <2>1, AsksConverses DEF RequestFile, Ask
  <2>3. QED
    BY <1>1, <1>2, <1>5, <1>d, <2>2, MoveKeeps, PassGoesOn
       DEF RequestFile, Ask, ClientAt, Early, Downloading
<1>6. CASE TakeFile(c)
  <2>1. Converses(c) /\ Untouched(c) /\ LocalGrows(c)
    BY <1>2, <1>6, TakesConverses DEF TakeFile
  <2>2. CASE pass' = [pass EXCEPT ![c].pc = "save", ![c].data = reply[c].data]
    <3>1. /\ pass'[c].pc = "save" /\ pass'[c].todo = pass[c].todo
          /\ UNCHANGED <<pass[c].remote, pass[c].mine>>
      BY <1>k, <2>2 DEF Passes
    <3>2. QED
      BY <1>1, <1>6, <1>d, <2>1, <3>1, PassGoesOn
         DEF TakeFile, ClientAt, Early, Downloading
  <2>3. CASE NextPath(c, "download")
    BY <1>1, <1>6, <1>d, <2>1, <2>3, LoopKeeps, PassGoesOn
       DEF TakeFile, NextPath, ClientAt, Early, Downloading
  <2>4. QED
    BY <1>6, <2>2, <2>3 DEF TakeFile
<1>7. CASE SaveFile(c)
  <2>1. local'[c] = Put(local[c], Current(c), [ts |-> now, data |-> pass[c].data])
    BY <1>7, <1>k DEF SaveFile
  <2>2. Current(c) \in Deleted
    BY <1>1, <1>7, CurrentDeleted DEF SaveFile, ClientAt
  <2>3. Untouched(c) /\ LocalGrows(c)
    BY <2>1, <2>2, UntouchedElsewhere, UntouchedGrows
  <2>4. /\ pass'[c].pc = "setTime" /\ pass'[c].todo = pass[c].todo
        /\ UNCHANGED <<pass[c].remote, pass[c].mine>>
    BY <1>7, <1>k DEF SaveFile, Passes
  <2>5. QED
    BY <1>1, <1>7, <1>d, <2>3, <2>4, PassGoesOn
       DEF SaveFile, ClientAt, Early, Downloading, Converses
<1>8. CASE SetFileTime(c)
  <2>1. Converses(c)
    BY <1>8 DEF SetFileTime, Converses
  <2>2. CASE HasCurrent(c)
    <3>1. DEFINE f == [local[c][Current(c)] EXCEPT !.ts = pass[c].remote[Current(c)]]
    <3>2. local'[c] = Put(local[c], Current(c), f)
      <4>1. local'[c] = [local[c] EXCEPT ![Current(c)] = f]
        BY <1>8, <1>k, <2>2 DEF SetFileTime
      <4>2. DOMAIN local[c] \cup {Current(c)} = DOMAIN local[c]
        BY <2>2 DEF HasCurrent
      <4>3. PICK paths \in SUBSET Path : local[c] \in [paths -> Entry]
        BY <1>k DEF Dir
      <4>4. HIDE DEF f
      <4>5. [local[c] EXCEPT ![Current(c)] = f]
               = [p \in DOMAIN local[c] |-> IF p = Current(c) THEN f ELSE local[c][p]]
        BY <4>3
      <4>6. QED
        BY <4>1, <4>2, <4>5 DEF Put
    <3>3. Current(c) \in Deleted
      BY <1>1, <1>8, CurrentDeleted DEF SetFileTime, ClientAt
    <3>4. Untouched(c) /\ LocalGrows(c)
      <4>1. HIDE DEF f
      <4>2. QED
        BY <3>2, <3>3, UntouchedElsewhere, UntouchedGrows
    <3>5. QED
      BY <1>1, <1>8, <1>d, <2>1, <2>2, <3>4, LoopKeeps, PassGoesOn
         DEF SetFileTime, NextPath, ClientAt, Early, Downloading
  <2>3. CASE ~HasCurrent(c)
    BY <1>2, <1>8, <2>1, <2>3, ExitForgets DEF SetFileTime
  <2>4. QED
    BY <2>2, <2>3
<1>9. QED
    BY <1>3, <1>4, <1>5, <1>6, <1>7, <1>8

LEMMA ClientFollows ==
    ASSUME SyncInv, SyncInv', NEW c \in Client, LeadInv(c), ClientSteps(c)
    PROVE  Untouched(c) /\ Converses(c) /\ PassFollows(c)'
<1>1. UNCHANGED deleted
    BY DEF ClientSteps, userVars, history
<1>2. CASE UNCHANGED local /\ (AskTime(c) \/ CheckTimeDiff(c) \/ AskFileList(c)
           \/ TakeFileList(c) \/ Wake(c))
    BY <1>1, <1>2, FetchStep, UntouchedAtAll
<1>3. CASE UNCHANGED local /\ (ScanNames(c) \/ ScanTime(c) \/ CompareScans(c))
    BY <1>1, <1>3, ScanStep, UntouchedAtAll
<1>4. CASE UNCHANGED local /\ (SendDelete(c) \/ TakeDeleted(c) \/ AddBack(c)
           \/ FindAdd(c) \/ StampAdd(c) \/ ReadAdd(c) \/ TakeAdded(c))
    BY <1>1, <1>4, SendStep, UntouchedAtAll
<1>5. CASE AskDeletedList(c) \/ TakeDeletedList(c) \/ FindGone(c) \/ UnlinkGone(c)
    BY <1>1, <1>5, GoneStep
<1>6. CASE FindDownload(c) \/ UnlinkOld(c) \/ RequestFile(c) \/ TakeFile(c)
           \/ SaveFile(c) \/ SetFileTime(c)
    BY <1>1, <1>6, DownloadStep
<1>7. AskTime(c) \/ CheckTimeDiff(c) \/ AskFileList(c) \/ TakeFileList(c) \/ Wake(c)
      \/ ScanNames(c) \/ ScanTime(c) \/ CompareScans(c) \/ SendDelete(c)
      \/ TakeDeleted(c) \/ AddBack(c) \/ FindAdd(c) \/ StampAdd(c) \/ ReadAdd(c) \/ TakeAdded(c)
      => UNCHANGED local
    BY DEF AskTime, CheckTimeDiff, AskFileList, TakeFileList, Wake, ScanNames,
           ScanTime, CompareScans, SendDelete, TakeDeleted, AddBack, FindAdd, StampAdd, ReadAdd,
           TakeAdded
<1>8. QED
    BY <1>2, <1>3, <1>4, <1>5, <1>6, <1>7 DEF ClientSteps, Synchronise

LEMMA ClientKeepsLead ==
    ASSUME SyncInv, SyncInv', NEW c \in Client, LeadInv(c), ClientSteps(c)
    PROVE  LeadInv(c)'
<1>1. UNCHANGED <<syncRoot, handler, now, edited, deleted>>
    BY DEF ClientSteps, serverVars, store, userVars, history
<1>2. Untouched(c) /\ Converses(c) /\ PassFollows(c)'
    BY ClientFollows
<1>3. EditsLead(c)'
  <2>1. now <= now'
    BY <1>1, TimeFacts DEF SyncInv, Kinds
  <2>2. QED
    BY <1>1, <1>2, <2>1, EditsLeadKept DEF LeadInv
<1>4. QED
    BY <1>1, <1>2, <1>3, UntouchedGrows, ClientLeads
-----------------------------------------------------------------------------
(* The server's steps.                                                     *)

LEMMA ServerTouchesNothing ==
    ASSUME NEW c \in Client, UNCHANGED <<clientVars, userVars>>
    PROVE  /\ Untouched(c)
           /\ UNCHANGED <<Deleted, Current(c), ModifiedOrAdded(c), pass, local, edited>>
           /\ PassFollows(c) => PassFollows(c)'
           /\ \A p, t : Outdated(c, p, t)' <=> Outdated(c, p, t)
BY DEF clientVars, userVars, history, Untouched, Deleted, Current, ModifiedOrAdded,
       PassFollows, Outdated

\* A step that leaves the queues alone.
LEMMA SilentStepLeads ==
    ASSUME SyncInv, SyncInv', NEW c \in Client, LeadInv(c),
           UNCHANGED <<now, connVars, clientVars, userVars>>,
           ServerFollows(c)', ListFollows(c)'
    PROVE  LeadInv(c)'
<1>1. /\ Untouched(c) /\ UNCHANGED edited
      /\ PassFollows(c)'
    BY ServerTouchesNothing DEF LeadInv
<1>2. EditsLead(c)'
  <2>1. now <= now'
    BY TimeFacts DEF SyncInv, Kinds
  <2>2. QED
    BY <1>1, <2>1, EditsLeadKept DEF LeadInv
<1>3. MessagesFollow(c)'
    BY <1>1, UntouchedGrows, ClientMessagesFollow DEF Converses, LeadInv
<1>4. QED
    BY <1>1, <1>2, <1>3 DEF LeadInv

\* A step that stores nothing, other than an answer.
LEMMA QuietStepLeads ==
    ASSUME SyncInv, SyncInv', NEW c \in Client, LeadInv(c),
           UNCHANGED <<now, connVars, clientVars, userVars>>,
           DOMAIN syncRoot' \subseteq DOMAIN syncRoot,
           \A p \in DOMAIN syncRoot' : syncRoot'[p] = syncRoot[p],
           ListFollows(c)',
           \/ UNCHANGED handler
           \/ handler[c].pc \notin {"writeFile", "setTime"}
    PROVE  LeadInv(c)'
<1>1. \A p : Storing(c, p) => Storing(c, p)'
    BY DEF Storing, Requested, connVars
<1>2. ServerFollows(c)'
    BY <1>1, ServerTouchesNothing, UntouchedGrows, ServerFollowsKept DEF LeadInv
<1>3. QED
    BY <1>2, SilentStepLeads

\* An answer.
LEMMA AnswerLeads ==
    ASSUME SyncInv, SyncInv', NEW c \in Client, LeadInv(c),
           handler[c].pc \notin {"idle", "writeFile", "setTime"},
           NEW response, Finish(c, response),
           response.type = "ServerFileList" =>
               \A p \in DOMAIN response.files : Outdated(c, p, response.files[p]),
           UNCHANGED <<syncRoot, now, clientVars, userVars>>
    PROVE  LeadInv(c)'
<1>1. /\ Untouched(c) /\ LocalGrows(c) /\ UNCHANGED edited /\ PassFollows(c)'
    BY ServerTouchesNothing, UntouchedGrows DEF LeadInv
<1>2. EditsLead(c)'
  <2>1. now <= now'
    BY TimeFacts DEF SyncInv, Kinds
  <2>2. QED
    BY <1>1, <2>1, EditsLeadKept DEF LeadInv
<1>3. ServerFollows(c)'
  <2>1. \A p : ~Storing(c, p)
    BY DEF Storing
  <2>2. QED
    BY <1>1, <2>1, ServerFollowsKept DEF LeadInv
<1>4. /\ inbox'[c] = Tail(inbox[c])
      /\ reply'[c] \in {reply[c], response}
    BY InboxFacts DEF Finish, Answer
<1>5. \A i \in 1 .. Len(inbox'[c]) :
          \E r \in Asked : r = inbox'[c][i] /\ UploadFollows(c, r)
  <2>1. TAKE i \in 1 .. Len(inbox'[c])
  <2>2. i + 1 \in 1 .. Len(inbox[c]) /\ inbox'[c][i] = inbox[c][i + 1]
    BY <1>4, InboxFacts, RestOfQueue
  <2>3. QED
    BY <2>2, InboxFacts DEF LeadInv, MessagesFollow
<1>6. ReplyFollows(c)'
  <2>1. CASE reply'[c] = reply[c]
    BY <1>1, <2>1, ReplyStillFollows DEF LeadInv, MessagesFollow
  <2>2. CASE reply'[c] = response
    BY <2>2, ServerTouchesNothing DEF ReplyFollows
  <2>3. QED
    BY <1>4, <2>1, <2>2
<1>7. ListFollows(c)'
  <2>1. handler'[c] = Idle
    BY DEF Finish, SyncInv, Kinds, Workers
  <2>2. QED
    BY <2>1, NothingIsList DEF Idle, ListFollows
<1>8. QED
    BY <1>1, <1>2, <1>3, <1>5, <1>6, <1>7, InboxStillFollows
       DEF LeadInv, MessagesFollow

\* The steps that read no time of a file.
LEMMA ListStays ==
    ASSUME SyncInv, NEW c \in Client,
           \/ UNCHANGED handler
           \/ \E step : Goto(c, step)
           \/ \E step :
                 handler' = [handler EXCEPT ![c].pc = step, ![c].linked = TRUE]
           \/ \E step, names :
                 handler' = [handler EXCEPT ![c].pc = step, ![c].names = names]
           \/ \E step, others : GotoUnlinking(c, step, others)
    PROVE  handler'[c].list = handler[c].list
<1>1. handler \in [Client -> Worker] /\ handler[c] \in Worker
    BY DEF SyncInv, Kinds, Workers
<1>2. QED
    BY <1>1 DEF Goto, GotoUnlinking, Worker

LEMMA ServerKeepsLead ==
    ASSUME SyncInv, SyncInv', NEW c \in Client, LeadInv(c), ServerSteps(c)
    PROVE  LeadInv(c)'
<1> USE DEF At
<1>u. UNCHANGED <<clientVars, userVars>>
    BY DEF ServerSteps
<1>k. syncRoot \in Dir /\ syncRoot' \in Dir /\ ServerFollows(c)
    BY DEF SyncInv, Kinds, LeadInv
<1>l. handler'[c].list = handler[c].list => ListFollows(c)'
    BY <1>u, ServerTouchesNothing, UntouchedGrows, ListStillFollows DEF LeadInv
<1>a. ASSUME NEW reason, Abort(reason)
      PROVE  LeadInv(c)'
  <2>1. ListFollows(c)'
    BY <1>a, <1>l, ListStays DEF Abort
  <2>2. QED
    BY <1>a, <1>u, <2>1, QuietStepLeads DEF Abort, store
<1>r. ASSUME handler[c].pc \notin {"idle", "writeFile", "setTime"}, NEW response,
             response.type # "ServerFileList", Finish(c, response),
             UNCHANGED <<syncRoot, now>>
      PROVE  LeadInv(c)'
    BY <1>r, <1>u, AnswerLeads
<1>q. ASSUME handler[c].pc \notin {"writeFile", "setTime"},
             UNCHANGED <<syncRoot, now, connVars>>, ListFollows(c)'
      PROVE  LeadInv(c)'
    BY <1>q, <1>u, QuietStepLeads
<1>g. ASSUME handler[c].pc \notin {"writeFile", "setTime"},
             UNCHANGED <<syncRoot, now, connVars>>,
             UNCHANGED handler \/ \E step : Goto(c, step)
      PROVE  LeadInv(c)'
    BY <1>g, <1>l, <1>q, ListStays
<1>1. CASE Resolve(c)
    BY <1>1, <1>g DEF Resolve, store
<1>2. CASE SendTimeStamp(c)
    BY <1>2, <1>r DEF SendTimeStamp, store
<1>3. CASE ListFiles(c)
  <2>1. handler'[c].list = handler[c].list
    BY <1>3, ListStays DEF ListFiles
  <2>2. QED
    BY <1>3, <1>l, <1>q, <2>1 DEF ListFiles, store
<1>4. CASE StatFile(c)
  <2>1. CASE \E reason : Abort(reason)
    BY <1>a, <2>1
  <2>2. CASE \A reason : ~Abort(reason)
    <3>1. PICK p \in handler[c].names :
            /\ handler' = [handler EXCEPT ![c].names = @ \ {p},
                  ![c].list = IF p \in DOMAIN syncRoot
                              THEN Put(@, p, syncRoot[p].ts) ELSE @]
            /\ UNCHANGED <<store, status, now, connVars>>
      BY <1>4, <2>2 DEF StatFile
    <3>2. handler'[c].list = IF p \in DOMAIN syncRoot
                             THEN Put(handler[c].list, p, syncRoot[p].ts)
                             ELSE handler[c].list
      BY <3>1 DEF SyncInv, Kinds, Workers, Worker
    <3>3. CASE p \notin DOMAIN syncRoot
      BY <1>4, <1>l, <1>q, <3>1, <3>2, <3>3 DEF StatFile, store
    <3>4. CASE p \in DOMAIN syncRoot
      <4>1. Outdated(c, p, syncRoot[p].ts)
        BY <1>4, <1>k, <3>4 DEF ServerFollows, Storing, StatFile
      <4>2. handler'[c].list = Put(handler[c].list, p, syncRoot[p].ts)
        BY <3>2, <3>4
      <4>3. ASSUME NEW q \in DOMAIN handler'[c].list
            PROVE  Outdated(c, q, handler'[c].list[q])
        <5>1. CASE q = p
          BY <4>1, <4>2, <4>3, <5>1 DEF Put
        <5>2. CASE q # p
          BY <4>2, <4>3, <5>2 DEF Put, LeadInv, ListFollows
        <5>3. QED
          BY <5>1, <5>2
      <4>4. ListFollows(c)'
        <5>1. ASSUME NEW q \in DOMAIN handler'[c].list
              PROVE  Outdated(c, q, handler[c].list[q])'
          <6>1. \A t : Outdated(c, q, t)' <=> Outdated(c, q, t)
            BY <1>u, ServerTouchesNothing
          <6>2. QED
            BY <4>3, <5>1, <6>1
        <5>2. QED
          BY <5>1 DEF ListFollows
      <4>5. QED
        BY <1>4, <1>q, <3>1, <4>4 DEF StatFile, store
    <3>5. QED
      BY <3>3, <3>4
  <2>3. QED
    BY <2>1, <2>2
<1>4s. CASE SendFileList(c)
  <2>1. DEFINE r == [type |-> "ServerFileList", files |-> handler[c].list]
  <2>2. Finish(c, r) /\ UNCHANGED <<syncRoot, now>>
    BY <1>4s DEF SendFileList, store
  <2>3. \A p \in DOMAIN r.files : Outdated(c, p, r.files[p])
    BY DEF LeadInv, ListFollows
  <2>4. HIDE DEF r
  <2>5. QED
    BY <1>4s, <1>u, <2>2, <2>3, AnswerLeads DEF SendFileList
<1>5. CASE FindRequested(c)
  <2>1. CASE Exists(c)
    BY <1>5, <1>g, <2>1 DEF FindRequested, store
  <2>2. CASE ~Exists(c)
    BY <1>5, <1>r, <2>2 DEF FindRequested, store
  <2>3. QED
    BY <2>1, <2>2
<1>6. CASE CheckRequested(c)
    BY <1>6, <1>g DEF CheckRequested, Assert, store
<1>7. CASE ReadRequested(c)
    BY <1>7, <1>r DEF ReadRequested, store
<1>8. CASE TruncateFile(c)
  <2>1. /\ handler'[c].pc = "writeFile" /\ UNCHANGED <<now, connVars>>
        /\ syncRoot' = Put(syncRoot, Requested(c), [ts |-> now, data |-> Torn])
    BY <1>8 DEF TruncateFile, SyncInv, Kinds, Workers, Worker
  <2>2. ASSUME NEW p \in DOMAIN syncRoot', ~Storing(c, p)'
        PROVE  p \in DOMAIN syncRoot /\ syncRoot'[p] = syncRoot[p] /\ ~Storing(c, p)
    BY <1>8, <2>1, <2>2 DEF Storing, Requested, connVars, Put, TruncateFile
  <2>3. ServerFollows(c)'
    <3>1. ASSUME NEW p \in DOMAIN syncRoot', ~Storing(c, p)'
          PROVE  Outdated(c, p, syncRoot[p].ts)'
      <4>1. Outdated(c, p, syncRoot[p].ts) /\ syncRoot'[p] = syncRoot[p]
        BY <1>k, <2>2, <3>1 DEF ServerFollows
      <4>2. QED
        BY <1>u, <4>1, ServerTouchesNothing
    <3>2. QED
      BY <3>1 DEF ServerFollows
  <2>4. ListFollows(c)'
    BY <1>8, <1>l, ListStays DEF TruncateFile
  <2>5. QED
    BY <1>u, <2>1, <2>3, <2>4, SilentStepLeads
<1>9. CASE WriteFile(c)
  <2>1. /\ handler'[c].pc = "setTime" /\ UNCHANGED <<now, connVars>>
        /\ \/ UNCHANGED syncRoot
           \/ \E f : syncRoot' = Put(syncRoot, Requested(c), f)
    BY <1>9 DEF WriteFile, Goto, SyncInv, Kinds, Workers
  <2>2. ASSUME NEW p \in DOMAIN syncRoot', ~Storing(c, p)'
        PROVE  p \in DOMAIN syncRoot /\ syncRoot'[p] = syncRoot[p] /\ ~Storing(c, p)
    BY <1>9, <2>1, <2>2 DEF Storing, Requested, connVars, Put, WriteFile
  <2>3. ServerFollows(c)'
    <3>1. ASSUME NEW p \in DOMAIN syncRoot', ~Storing(c, p)'
          PROVE  Outdated(c, p, syncRoot[p].ts)'
      <4>1. Outdated(c, p, syncRoot[p].ts) /\ syncRoot'[p] = syncRoot[p]
        BY <1>k, <2>2, <3>1 DEF ServerFollows
      <4>2. QED
        BY <1>u, <4>1, ServerTouchesNothing
    <3>2. QED
      BY <3>1 DEF ServerFollows
  <2>4. ListFollows(c)'
    BY <1>9, <1>l, ListStays DEF WriteFile
  <2>5. QED
    BY <1>u, <2>1, <2>3, <2>4, SilentStepLeads
<1>10. CASE SetTime(c)
  <2>1. CASE Exists(c)
    <3>1. /\ UNCHANGED <<now, connVars>>
          /\ syncRoot' = [syncRoot EXCEPT ![Requested(c)].ts = Head(inbox[c]).ts]
      BY <1>10, <2>1 DEF SetTime
    <3>2. Outdated(c, Requested(c), Head(inbox[c]).ts)
      <4>1. Head(inbox[c]).type = "SendFileToServer" /\ inbox[c] # <<>>
        BY <1>10, Serving, ServesTable DEF SetTime
      <4>2. /\ Head(inbox[c]) = inbox[c][1] /\ 1 \in 1 .. Len(inbox[c])
        BY <4>1, InboxFacts, RestOfQueue
      <4>3. QED
        BY <4>1, <4>2 DEF LeadInv, MessagesFollow, UploadFollows, Requested
    <3>3. ASSUME NEW p \in DOMAIN syncRoot'
          PROVE  Outdated(c, p, syncRoot'[p].ts)
      <4>1. p \in DOMAIN syncRoot /\ DOMAIN syncRoot' = DOMAIN syncRoot
        BY <3>1
      <4>2. CASE p = Requested(c)
        BY <1>k, <2>1, <3>1, <3>2, <4>2, DirFacts DEF Exists, Entry
      <4>3. CASE p # Requested(c)
        BY <1>k, <3>1, <4>1, <4>3 DEF ServerFollows, Storing
      <4>4. QED
        BY <4>2, <4>3
    <3>4. ServerFollows(c)'
      <4>1. ASSUME NEW p \in DOMAIN syncRoot'
            PROVE  Outdated(c, p, syncRoot[p].ts)'
        BY <1>u, <3>3, ServerTouchesNothing
      <4>2. QED
        BY <4>1 DEF ServerFollows
    <3>5. ListFollows(c)'
      BY <1>10, <1>l, <2>1, ListStays DEF SetTime
    <3>6. QED
      BY <1>u, <3>1, <3>4, <3>5, SilentStepLeads
  <2>2. CASE ~Exists(c)
    BY <1>10, <1>a, <2>2 DEF SetTime
  <2>3. QED
    BY <2>1, <2>2
<1>11. CASE CheckList(c)
  <2>1. CASE listFile.exists
    BY <1>11, <1>g, <2>1 DEF CheckList
  <2>2. CASE ~listFile.exists
    BY <1>11, <1>a, <2>2 DEF CheckList
  <2>3. QED
    BY <2>1, <2>2
<1>12. CASE UnlinkList(c)
  <2>1. handler'[c].list = handler[c].list
    BY <1>12, ListStays DEF UnlinkList
  <2>2. QED
    BY <1>12, <1>l, <1>q, <2>1 DEF UnlinkList
<1>13. CASE RewriteList(c)
    BY <1>13, <1>r DEF RewriteList
<1>14. CASE GetServerDeletedList(c)
    BY <1>14, <1>r DEF GetServerDeletedList, store
<1>15. CASE OpenList(c)
  <2>1. handler'[c].list = handler[c].list
    BY <1>15, ListStays DEF OpenList
  <2>2. QED
    BY <1>15, <1>l, <1>q, <2>1 DEF OpenList
<1>16. CASE CheckMark(c) \/ Mark(c) \/ SaveMark(c) \/ Overwritten(c)
    BY <1>16, <1>g DEF CheckMark, Mark, SaveMark, Overwritten, store
<1>17. CASE FindMarked(c)
  <2>1. CASE Exists(c)
    BY <1>17, <1>g, <2>1 DEF FindMarked, store
  <2>2. CASE ~Exists(c)
    BY <1>17, <1>r, <2>2 DEF FindMarked, store
  <2>3. QED
    BY <2>1, <2>2
<1>18. CASE CheckMarked(c)
    BY <1>18, <1>g DEF CheckMarked, Assert, store
<1>19. CASE UnlinkFile(c)
  <2>1. /\ DOMAIN syncRoot' \subseteq DOMAIN syncRoot
        /\ \A p \in DOMAIN syncRoot' : syncRoot'[p] = syncRoot[p]
    BY <1>19 DEF UnlinkFile, Drop
  <2>2. ListFollows(c)'
    BY <1>19, <1>l, ListStays DEF UnlinkFile
  <2>3. QED
    BY <1>19, <1>u, <2>1, <2>2, QuietStepLeads DEF UnlinkFile
<1>20. CASE AnswerDeleted(c)
    BY <1>20, <1>r DEF AnswerDeleted, store
<1>21. CASE Race(c)
    BY <1>21, <1>a DEF Race
<1>22. QED
    BY <1>1, <1>2, <1>3, <1>4, <1>4s, <1>5, <1>6, <1>7, <1>8, <1>9, <1>10, <1>11,
       <1>12, <1>13, <1>14, <1>15, <1>16, <1>17, <1>18, <1>19, <1>20, <1>21
       DEF ServerSteps, Handle
-----------------------------------------------------------------------------
(* Everything else.                                                        *)

\* A step of a user or of the clock.
LEMMA RestFollows ==
    ASSUME SyncInv, SyncInv', NEW c \in Client, LeadInv(c), LocalGrows(c),
           UNCHANGED <<syncRoot, handler, connVars, pass>>, EditsLead(c)'
    PROVE  LeadInv(c)'
<1>1. UNCHANGED <<Current(c), ModifiedOrAdded(c)>> /\ Deleted \subseteq Deleted'
    BY DEF Current, ModifiedOrAdded, LocalGrows
<1>2. (pass[c].pc = "read" => Outdated(c, Current(c), pass[c].stamp))'
  <2>1. PICK t \in Time : t = pass[c].stamp
    BY PassKinds DEF Passes
  <2>2. CASE pass[c].pc = "read"
    <3>1. Outdated(c, Current(c), t)
      BY <2>1, <2>2 DEF LeadInv, PassFollows
    <3>2. PICK p : p = Current(c)
      OBVIOUS
    <3>3. Outdated(c, p, t)'
      BY <3>1, <3>2, OutdatedStays
    <3>4. QED
      BY <1>1, <2>1, <3>2, <3>3
  <2>3. CASE pass[c].pc # "read"
    BY <2>3
  <2>4. QED
    BY <2>2, <2>3
<1>3. PassFollows(c)'
    BY <1>1, <1>2, RemoteStillFollows DEF LeadInv, PassFollows
<1>4. QED
    BY <1>3, ClientLeads DEF Converses

LEMMA TickKeepsLead ==
    ASSUME SyncInv, SyncInv', NEW c \in Client, LeadInv(c), Tick
    PROVE  LeadInv(c)'
<1>1. /\ Untouched(c) /\ UNCHANGED <<syncRoot, handler, connVars, pass, edited>>
      /\ now <= now'
    BY TimeFacts, UntouchedAtAll
       DEF Tick, TimePasses, SyncInv, Kinds, store, clientVars, userVars, history
<1>2. QED
    BY <1>1, EditsLeadKept, UntouchedGrows, RestFollows DEF LeadInv

LEMMA ResetKeepsLead ==
    ASSUME SyncInv, SyncInv', NEW c \in Client, LeadInv(c), NEW d, Reset(d)
    PROVE  LeadInv(c)'
<1>1. /\ Untouched(c) /\ UNCHANGED <<syncRoot, handler, connVars, pass, edited>>
      /\ now <= now'
    BY TimeFacts, UntouchedAtAll
       DEF Reset, SyncInv, Kinds, store, clientVars, userVars, history
<1>2. QED
    BY <1>1, EditsLeadKept, UntouchedGrows, RestFollows DEF LeadInv

\* A user's write is the newest of all.
LEMMA WriteKeepsLead ==
    ASSUME SyncInv, SyncInv', NEW c \in Client, LeadInv(c), NEW q \in Path,
           UserWrite(c, q)
    PROVE  LeadInv(c)'
<1>k. /\ now \in Time /\ local \in [Client -> Dir]
      /\ EditsLead(c)
    BY DEF SyncInv, Kinds, LeadInv
<1>1. UNCHANGED <<syncRoot, handler, connVars, pass, now, Deleted>>
    BY DEF UserWrite, serverVars, store, Deleted
<1>2. PICK f \in [ts : {now}, data : Nat] : local'[c] = Put(local[c], q, f)
  <2>1. spent["edits"] + 2 \in Nat
    BY DEF SyncInv, Kinds
  <2>2. local'[c] = Put(local[c], q, [ts |-> now, data |-> spent["edits"] + 2])
    BY <1>k DEF UserWrite
  <2>3. QED
    BY <2>1, <2>2
<1>3. ASSUME NEW p \in DOMAIN local[c], p \notin Deleted
      PROVE  /\ p \in DOMAIN local'[c]
             /\ local[c][p].ts <= now /\ local[c][p].ts <= local'[c][p].ts
  <2>1. /\ local[c][p].ts \in Nat /\ edited \in Nat /\ now \in Nat
        /\ local[c][p].ts <= edited /\ edited <= now
    BY <1>k, <1>3, LocalFacts, TimeFacts DEF EditsLead
  <2>2. p \in DOMAIN local'[c] /\ local'[c][p] \in {f, local[c][p]}
    BY <1>2 DEF Put
  <2>3. QED
    BY <2>1, <2>2
<1>4. LocalGrows(c)
    BY <1>1, <1>3 DEF LocalGrows
<1>5. EditsLead(c)'
  <2>1. ASSUME NEW p \in DOMAIN local'[c], p \notin Deleted'
        PROVE  local'[c][p].ts <= edited'
    <3>1. edited' = now /\ now <= now
      BY <1>k, TimeFacts DEF UserWrite
    <3>2. \/ local'[c][p] = f
          \/ p \in DOMAIN local[c] /\ local'[c][p] = local[c][p]
      BY <1>2, <2>1 DEF Put
    <3>3. QED
      BY <1>1, <1>3, <2>1, <3>1, <3>2
  <2>2. edited' \in Time /\ edited' <= now'
    BY <1>1, <1>k, TimeFacts DEF UserWrite
  <2>3. QED
    BY <2>1, <2>2 DEF EditsLead
<1>6. QED
    BY <1>1, <1>4, <1>5, RestFollows

LEMMA DeleteKeepsLead ==
    ASSUME SyncInv, SyncInv', NEW c \in Client, LeadInv(c), NEW q \in Path,
           UserDelete(c, q)
    PROVE  LeadInv(c)'
<1>1. UNCHANGED <<syncRoot, handler, connVars, pass, now, edited>>
    BY DEF UserDelete, serverVars, store
<1>2. Deleted \cup {q} \subseteq Deleted'
    BY DEF UserDelete, Deleted, SyncInv, Kinds
<1>3. local'[c] = Drop(local[c], q)
    BY DEF UserDelete, SyncInv, Kinds
<1>4. Untouched(c)
    BY <1>2, <1>3 DEF Untouched, Drop
<1>5. now <= now'
    BY <1>1, TimeFacts DEF SyncInv, Kinds
<1>6. QED
    BY <1>1, <1>4, <1>5, EditsLeadKept, UntouchedGrows, RestFollows DEF LeadInv

\* A client that gives up, is killed, or starts again.
LEMMA FaultKeepsLead ==
    ASSUME SyncInv, SyncInv', NEW c \in Client, LeadInv(c),
           TimesOut(c) \/ IsKilled(c) \/ StartsAgain(c)
    PROVE  LeadInv(c)'
<1>1. UNCHANGED <<syncRoot, handler, now, edited, deleted>>
    BY DEF TimesOut, IsKilled, StartsAgain, Restart, serverVars, store, history
<1>k. /\ PassFollows(c) /\ pass \in [Client -> Passes] /\ local \in [Client -> Dir]
      /\ now <= now'
    BY <1>1, PassKinds, TimeFacts DEF LeadInv, SyncInv, Kinds
<1>2. /\ Untouched(c) /\ Converses(c) /\ PassFollows(c)'
  <2>1. CASE TimesOut(c)
    <3>1. Converses(c) /\ Untouched(c) /\ LocalGrows(c)
      BY <1>1, <2>1, UntouchedAtAll, UntouchedGrows
         DEF TimesOut, NoAnswer, GiveUp, Converses
    <3>2. CASE ClientAt(c, "awaitDeleted")
      <4>1. Loop(c, "addBack", {})
        BY <2>1, <3>2 DEF TimesOut, NoAnswer
      <4>2. QED
        BY <1>k, <3>1, <3>2, <4>1, LoopKeeps, PassGoesOn
           DEF ClientAt, Early, Downloading
    <3>3. CASE ClientAt(c, "awaitAdded")
               /\ pass' = [pass EXCEPT ![c].pc = "askDeleted", ![c].stamp = 0,
                                       ![c].todo = {}]
      <4>1. /\ pass'[c].pc = "askDeleted"
            /\ UNCHANGED <<pass[c].remote, pass[c].mine>>
        BY <1>k, <3>3 DEF Passes
      <4>2. QED
        BY <1>k, <3>1, <3>3, <4>1, PassGoesOn DEF ClientAt, Early, Downloading
    <3>4. CASE Exit(c, "closed")
      BY <3>1, <3>4, ExitForgets
    <3>5. QED
      BY <2>1, <3>2, <3>3, <3>4 DEF TimesOut, NoAnswer
  <2>2. CASE IsKilled(c)
    <3>1. Converses(c) /\ PassFollows(c)'
      BY <2>2, ExitForgets DEF IsKilled, Crash, Converses
    <3>2. CASE UNCHANGED local
      BY <1>1, <3>1, <3>2, UntouchedAtAll
    <3>3. CASE /\ ClientAt(c, "save")
               /\ local' = [local EXCEPT ![c] =
                               Put(@, Current(c), [ts |-> now, data |-> Torn])]
      <4>1. local'[c] = Put(local[c], Current(c), [ts |-> now, data |-> Torn])
        BY <1>k, <3>3
      <4>2. Current(c) \in Deleted
        BY <1>k, <3>3, CurrentDeleted DEF ClientAt
      <4>3. QED
        BY <1>1, <3>1, <4>1, <4>2, UntouchedElsewhere
    <3>4. QED
      BY <2>2, <3>2, <3>3 DEF IsKilled, Crash
  <2>3. CASE StartsAgain(c)
    <3>1. pass'[c] = NewPass /\ UNCHANGED <<local, connVars>>
      BY <1>k, <2>3 DEF StartsAgain, Restart
    <3>2. pass'[c].pc = "start" /\ DOMAIN pass'[c].remote = {}
      BY <3>1, NothingIsList DEF NewPass
    <3>3. QED
      BY <1>1, <3>1, <3>2, UntouchedAtAll, PassForgets DEF Converses, Downloading
  <2>4. QED
    BY <2>1, <2>2, <2>3
<1>3. EditsLead(c)'
    BY <1>1, <1>k, <1>2, EditsLeadKept DEF LeadInv
<1>4. QED
    BY <1>1, <1>2, <1>3, UntouchedGrows, ClientLeads
-----------------------------------------------------------------------------
(* One client.                                                             *)

LEMMA InitLeads ==
    ASSUME SyncInv, NEW c \in Client, Remote = {}, Init
    PROVE  LeadInv(c)
<1>1. /\ edited = 1 /\ now = 2 /\ edited \in Time
      /\ syncRoot = [p \in Shared |-> [ts |-> 1, data |-> 1]]
      /\ local[c] = [p \in Shared |-> [ts |-> 1, data |-> 1]]
      /\ inbox[c] = <<>> /\ reply[c] = NoReply /\ pass[c] = NewPass
    BY TimeFacts DEF Init, ConnInit, ClientInit
<1>2. EditsLead(c) /\ ServerFollows(c) /\ ListFollows(c)
  <2>1. DOMAIN handler[c].list = {}
    BY NothingIsList DEF Init, ServerInit, Idle
  <2>2. QED
    BY <1>1, <2>1 DEF EditsLead, ServerFollows, ListFollows, Outdated
<1>3. MessagesFollow(c)
    BY <1>1 DEF MessagesFollow, ReplyFollows, NoReply
<1>4. pass[c].pc = "start" /\ DOMAIN pass[c].remote = {}
    BY <1>1, NothingIsList DEF NewPass
<1>5. PassFollows(c)
    BY <1>4 DEF PassFollows, Early, Downloading
<1>6. QED
    BY <1>2, <1>3, <1>5 DEF LeadInv

LEMMA NextKeepsLead ==
    ASSUME SyncInv, SyncInv', NEW c \in Client, Client = {c}, LeadInv(c),
           [Next]_syncVars
    PROVE  LeadInv(c)'
<1>1. CASE UNCHANGED syncVars
  <2>1. /\ Untouched(c) /\ UNCHANGED <<syncRoot, handler, connVars, pass, edited>>
        /\ now <= now'
    BY <1>1, TimeFacts, UntouchedAtAll
       DEF syncVars, serverVars, store, SyncInv, Kinds, clientVars, userVars, history
  <2>2. QED
    BY <2>1, EditsLeadKept, UntouchedGrows, RestFollows DEF LeadInv
<1>2. CASE Tick
    BY <1>2, TickKeepsLead
<1>3. CASE ServerSteps(c)
    BY <1>3, ServerKeepsLead
<1>4. CASE ClientSteps(c)
    BY <1>4, ClientKeepsLead
<1>5. CASE TimesOut(c) \/ IsKilled(c) \/ StartsAgain(c)
    BY <1>5, FaultKeepsLead
<1>6. CASE Reset(c)
    BY <1>6, ResetKeepsLead
<1>7. CASE \E p \in Path : UserWrite(c, p) \/ UserDelete(c, p)
    BY <1>7, WriteKeepsLead, DeleteKeepsLead
<1>8. QED
    BY <1>1, <1>2, <1>3, <1>4, <1>5, <1>6, <1>7 DEF Next

LEMMA LeadInvariant ==
    ASSUME NEW c0, Client = {c0}, Remote = {}
    PROVE  Spec => [](SyncInv /\ LeadInv(c0))
<1>0. c0 \in Client
    OBVIOUS
<1>1. Init => SyncInv /\ LeadInv(c0)
    BY <1>0, InitSyncInv, InitLeads
<1>2. SyncInv /\ LeadInv(c0) /\ [Next]_syncVars => (SyncInv /\ LeadInv(c0))'
    BY <1>0, NextKeepsSyncInv, NextKeepsLead
<1>3. QED
    BY <1>1, <1>2, PTL DEF Spec

-----------------------------------------------------------------------------
(* Edits that a scan has seen, with any number of clients.                 *)

Sending == {"sendAdds", "stamp", "read", "awaitAdded"}

\* A pass after its scan and before its downloads, the first time it sends.
Comparing == Sending \cup
    {"sendDeletes", "awaitDeleted", "addBack", "askDeleted", "awaitDeletedList",
     "removeGone", "unlinkGone"}

\* The pass has the time of the user's file, or the file is newer than the scan.
Seen(c, p) ==
    \/ p \in fresh[c]
    \/ p \in DOMAIN pass[c].mine /\ pass[c].mine[p] = local[c][p].ts

\* The files that the downloads have not touched yet.
Open(c) == IF pass[c].pc \in {"download", "unlinkOld"} THEN pass[c].todo
           ELSE pass[c].todo \ {Current(c)}

SeenInv(c) ==
    /\ pass[c].adds # "first" => pass[c].pc \in Sending
    /\ pass[c].pc = "stat" =>
          \A p \in DOMAIN local[c] \ pass[c].todo : Seen(c, p)
    /\ pass[c].pc \in Comparing /\ pass[c].adds = "first" =>
          \A p \in DOMAIN local[c] : Seen(c, p)
    /\ pass[c].pc \in Downloading =>
          /\ pass[c].todo \subseteq ModifiedOrAdded(c)
          /\ \A p \in DOMAIN local[c] \cap Open(c) : Seen(c, p)
    /\ pass[c].pc \in {"request", "awaitFile", "save"} =>
          (Current(c) \in DOMAIN local[c] => Current(c) \in fresh[c])

SeenAll == fresh \in [Client -> SUBSET Path] /\ \A c \in Client : SeenInv(c)

\* A step leaves the user's files alone, those in but excepted, or they are
\* fresh now.
Spares(c, but) ==
    \A p \in DOMAIN local'[c] \ but :
        \/ p \in fresh'[c]
        \/ /\ p \in DOMAIN local[c] /\ local'[c][p] = local[c][p]
           /\ p \notin fresh[c]

LEMMA SeenStays ==
    ASSUME NEW c \in Client, NEW but, Spares(c, but),
           pass'[c].mine = pass[c].mine, NEW p \in DOMAIN local'[c] \ but,
           p \in DOMAIN local[c] => Seen(c, p)
    PROVE  Seen(c, p)'
BY DEF Spares, Seen

LEMMA SparesIfSame ==
    ASSUME NEW c \in Client, UNCHANGED <<local[c], fresh[c]>>, NEW but
    PROVE  Spares(c, but)
BY DEF Spares

LEMMA SparesIfDropped ==
    ASSUME NEW c \in Client, NEW q, local'[c] = Drop(local[c], q),
           fresh'[c] = fresh[c], NEW but
    PROVE  Spares(c, but)
BY DEF Spares, Drop

LEMMA SparesTheOthers ==
    ASSUME NEW c \in Client, NEW q, NEW f, local'[c] = Put(local[c], q, f),
           fresh'[c] = fresh[c]
    PROVE  Spares(c, {q})
BY DEF Spares, Put

\* Where a pass stays as it is.
LEMMA SeenKept ==
    ASSUME NEW c \in Client, SeenInv(c), Spares(c, {}), pass'[c] = pass[c]
    PROVE  SeenInv(c)'
<1>1. UNCHANGED <<Current(c), Open(c), ModifiedOrAdded(c)>>
    BY DEF Current, Open, ModifiedOrAdded
<1>2. ASSUME NEW p \in DOMAIN local'[c], p \in DOMAIN local[c] => Seen(c, p)
      PROVE  Seen(c, p)'
    BY <1>2, SeenStays
<1>3. pass[c].pc = "stat" => \A p \in DOMAIN local'[c] \ pass[c].todo : Seen(c, p)'
    BY <1>2 DEF SeenInv
<1>4. pass[c].pc \in Comparing /\ pass[c].adds = "first" =>
          \A p \in DOMAIN local'[c] : Seen(c, p)'
    BY <1>2 DEF SeenInv
<1>5. pass[c].pc \in Downloading => \A p \in DOMAIN local'[c] \cap Open(c) : Seen(c, p)'
    BY <1>2 DEF SeenInv
<1>6. pass[c].pc \in {"request", "awaitFile", "save"} =>
          (Current(c) \in DOMAIN local'[c] => Current(c) \in fresh'[c])
    BY DEF SeenInv, Spares
<1>7. QED
    BY <1>1, <1>3, <1>4, <1>5, <1>6 DEF SeenInv

\* Where it has nothing to compare with,
LEMMA SeenRests ==
    ASSUME NEW c \in Client, pass'[c].adds = "first",
           pass'[c].pc \in {"start", "awaitTime", "top", "awaitList", "scan", "idle",
                            "closed", "aborted"}
    PROVE  SeenInv(c)'
BY DEF SeenInv, Comparing, Sending, Downloading

\* where it goes on before its downloads,
LEMMA SeenCompares ==
    ASSUME NEW c \in Client, SeenInv(c), Spares(c, {}),
           UNCHANGED <<pass[c].mine, pass[c].adds>>,
           pass[c].pc \in Comparing, pass'[c].pc \in Comparing,
           pass[c].adds # "first" => pass'[c].pc \in Sending
    PROVE  SeenInv(c)'
<1>1. pass'[c].adds = "first" => \A p \in DOMAIN local'[c] : Seen(c, p)'
    BY SeenStays DEF SeenInv
<1>2. QED
    BY <1>1 DEF SeenInv, Comparing, Sending, Downloading

\* and where it downloads.
LEMMA SeenDownloads ==
    ASSUME NEW c \in Client, SeenInv(c), NEW but, Spares(c, but),
           UNCHANGED <<pass[c].mine, pass[c].remote, pass[c].adds>>,
           pass[c].pc \in Downloading, pass'[c].pc \in Downloading,
           pass'[c].todo \subseteq pass[c].todo,
           Open(c)' \subseteq Open(c), Open(c)' \cap but = {},
           pass'[c].pc \in {"request", "awaitFile", "save"} =>
              (Current(c)' \in DOMAIN local'[c] => Current(c)' \in fresh'[c])
    PROVE  SeenInv(c)'
<1>1. \A p \in DOMAIN local'[c] \cap Open(c)' : Seen(c, p)'
    BY SeenStays DEF SeenInv
<1>2. UNCHANGED ModifiedOrAdded(c)
    BY DEF ModifiedOrAdded
<1>3. QED
    BY <1>1, <1>2 DEF SeenInv, Comparing, Sending, Downloading

LEMMA ExitSees ==
    ASSUME SyncInv, NEW c \in Client, NEW pc \in {"closed", "aborted"}, Exit(c, pc)
    PROVE  SeenInv(c)'
<1>1. Len(inbox[c]) \in Nat /\ pass \in [Client -> Passes]
    BY InboxFacts, PassKinds
<1>2. pass'[c] = [NewPass EXCEPT !.pc = pc, !.unanswered = Len(inbox[c])]
    BY <1>1 DEF Exit, Disconnected
<1>3. pass'[c].pc = pc /\ pass'[c].adds = "first"
    BY <1>2 DEF NewPass
<1>4. QED
    BY <1>3, SeenRests
-----------------------------------------------------------------------------
(* The steps of a pass.                                                    *)

\* A client's step is about its own directory.
LEMMA OthersUntouched ==
    ASSUME SyncInv, SeenAll, NEW c \in Client, ClientSteps(c), NEW d \in Client \ {c}
    PROVE  UNCHANGED <<pass[d], local[d], fresh[d]>>
<1>k. /\ pass \in [Client -> Passes] /\ local \in [Client -> Dir]
      /\ fresh \in [Client -> SUBSET Path]
    BY PassKinds DEF SyncInv, Kinds, SeenAll
<1>1. fresh'[d] = fresh[d]
    BY <1>k DEF ClientSteps
<1>2. ASSUME NEW pc, NEW todo, Loop(c, pc, todo) \/ Move(c, pc) \/ Exit(c, pc)
      PROVE  pass'[d] = pass[d]
    BY <1>2, <1>k DEF Loop, Move, Exit
<1>3. pass'[d] = pass[d]
  <2>1. CASE AskTime(c) \/ CheckTimeDiff(c) \/ AskFileList(c) \/ TakeFileList(c)
             \/ ScanNames(c) \/ ScanTime(c) \/ CompareScans(c) \/ Wake(c)
    BY <1>2, <1>k, <2>1 DEF AskTime, CheckTimeDiff, AskFileList, Ask, TakeFileList,
           ScanNames, ScanTime, CompareScans, Wake
  <2>2. CASE SendDelete(c) \/ TakeDeleted(c) \/ AddBack(c) \/ FindAdd(c)
             \/ StampAdd(c) \/ ReadAdd(c) \/ TakeAdded(c)
    BY <1>2, <1>k, <2>2 DEF SendDelete, Ask, TakeDeleted, NextPath, AddBack, FindAdd,
           AfterAdds, StampAdd, ReadAdd, TakeAdded
  <2>3. CASE AskDeletedList(c) \/ TakeDeletedList(c) \/ FindGone(c) \/ UnlinkGone(c)
    BY <1>2, <2>3 DEF AskDeletedList, Ask, TakeDeletedList, FindGone, NextPath,
           UnlinkGone
  <2>4. CASE FindDownload(c) \/ UnlinkOld(c) \/ RequestFile(c) \/ TakeFile(c)
             \/ SaveFile(c) \/ SetFileTime(c)
    BY <1>2, <1>k, <2>4 DEF FindDownload, UnlinkOld, RequestFile, Ask, TakeFile,
           NextPath, SaveFile, SetFileTime
  <2>5. QED
    BY <2>1, <2>2, <2>3, <2>4 DEF ClientSteps, Synchronise
<1>4. local'[d] = local[d]
    BY <1>k DEF ClientSteps, Synchronise, AskTime, CheckTimeDiff, AskFileList,
           TakeFileList, ScanNames, ScanTime, CompareScans, Wake, SendDelete,
           TakeDeleted, AddBack, FindAdd, StampAdd, ReadAdd, TakeAdded,
           AskDeletedList, TakeDeletedList, FindGone, UnlinkGone, FindDownload,
           UnlinkOld, RequestFile, TakeFile, SaveFile, SetFileTime
<1>5. QED
    BY <1>1, <1>3, <1>4

\* What a step finds.
LEMMA SeenFacts ==
    ASSUME SyncInv, SeenAll, NEW c \in Client, ClientSteps(c)
    PROVE  /\ pass \in [Client -> Passes] /\ pass[c] \in Passes
           /\ local \in [Client -> Dir] /\ local[c] \in Dir
           /\ fresh' \in [Client -> SUBSET Path]
           /\ SeenInv(c)
           /\ pass[c].pc \notin Sending => pass[c].adds = "first"
           /\ ~(ClientAt(c, "stat") /\ ~LoopDone(c)) => fresh'[c] = fresh[c]
           /\ pass[c].pc \in HasOne => Current(c) \in pass[c].todo
<1>1. /\ pass \in [Client -> Passes] /\ pass[c] \in Passes
      /\ local \in [Client -> Dir] /\ local[c] \in Dir
      /\ fresh \in [Client -> SUBSET Path] /\ SeenInv(c)
    BY PassKinds DEF SyncInv, Kinds, SeenAll
<1>2. fresh' \in [Client -> SUBSET Path]
    BY <1>1 DEF ClientSteps
<1>3. ~(ClientAt(c, "stat") /\ ~LoopDone(c)) => fresh'[c] = fresh[c]
    BY <1>1 DEF ClientSteps
<1>4. pass[c].pc \in HasOne => Current(c) \in pass[c].todo
    BY CurrentFacts DEF SyncInv, Knows
<1>5. QED
    BY <1>1, <1>2, <1>3, <1>4 DEF SeenInv

\* The messages and the scan.
LEMMA ScanSees ==
    ASSUME SyncInv, SeenAll, NEW c \in Client, ClientSteps(c),
           AskTime(c) \/ CheckTimeDiff(c) \/ AskFileList(c) \/ TakeFileList(c)
           \/ ScanNames(c) \/ ScanTime(c) \/ CompareScans(c) \/ Wake(c)
    PROVE  SeenInv(c)'
<1>k. /\ pass \in [Client -> Passes] /\ pass[c] \in Passes /\ SeenInv(c)
      /\ local'[c] = local[c] /\ pass[c].adds = "first"
    BY SeenFacts DEF AskTime, CheckTimeDiff, AskFileList, TakeFileList, ScanNames,
           ScanTime, CompareScans, Wake, ClientAt, Sending
<1>1. CASE AskTime(c) \/ AskFileList(c) \/ TakeFileList(c) \/ Wake(c)
  <2>1. /\ pass'[c].adds = "first"
        /\ pass'[c].pc \in {"awaitTime", "awaitList", "scan", "top"}
    BY <1>1, <1>k DEF AskTime, AskFileList, Ask, TakeFileList, Wake, Move, Passes
  <2>2. QED
    BY <2>1, SeenRests
<1>2. CASE CheckTimeDiff(c)
  <2>1. CASE Exit(c, "closed")
    BY <2>1, ExitSees
  <2>2. CASE pass' = [pass EXCEPT ![c].pc = "top", ![c].stamp = 0]
    <3>1. pass'[c].adds = "first" /\ pass'[c].pc = "top"
      BY <1>k, <2>2 DEF Passes
    <3>2. QED
      BY <3>1, SeenRests
  <2>3. QED
    BY <1>2, <2>1, <2>2 DEF CheckTimeDiff
<1>3. CASE ScanNames(c)
  <2>1. /\ pass'[c].adds = "first" /\ pass'[c].pc = "stat"
        /\ pass'[c].todo = DOMAIN local[c]
    BY <1>3, <1>k DEF ScanNames, Passes
  <2>2. QED
    BY <1>k, <2>1 DEF SeenInv, Comparing, Sending, Downloading
<1>4. CASE ScanTime(c)
  <2>1. CASE Exit(c, "aborted")
    BY <2>1, ExitSees
  <2>2. CASE ~Exit(c, "aborted")
    <3>1. DEFINE q == Current(c)
                 mine == IF HasCurrent(c)
                         THEN Put(pass[c].mine, q, local[c][q].ts)
                         ELSE pass[c].mine
    <3>2. /\ pass'[c].pc = "stat" /\ pass'[c].adds = "first"
          /\ pass'[c].todo = pass[c].todo \ {q} /\ pass'[c].mine = mine
      BY <1>4, <1>k, <2>2 DEF ScanTime, ClientAt, Passes
    <3>3. fresh'[c] = fresh[c] \ {q}
      BY <1>4 DEF ScanTime, ClientSteps, SeenAll
    <3>4. ASSUME NEW p \in DOMAIN local[c] \ (pass[c].todo \ {q})
          PROVE  Seen(c, p)'
      <4>1. CASE p = q
        <5>1. mine = Put(pass[c].mine, q, local[c][q].ts)
          BY <3>4, <4>1 DEF HasCurrent
        <5>2. p \in DOMAIN mine /\ mine[p] = local[c][p].ts
          BY <4>1, <5>1 DEF Put
        <5>3. QED
          BY <1>k, <3>2, <5>2 DEF Seen
      <4>2. CASE p # q
        <5>1. Seen(c, p)
          BY <1>4, <1>k, <3>4, <4>2 DEF ScanTime, ClientAt, SeenInv
        <5>2. /\ p \in DOMAIN mine <=> p \in DOMAIN pass[c].mine
              /\ p \in DOMAIN mine => mine[p] = pass[c].mine[p]
          BY <4>2 DEF Put
        <5>3. p \in fresh'[c] <=> p \in fresh[c]
          BY <3>3, <4>2
        <5>4. QED
          <6>1. HIDE DEF q, mine
          <6>2. QED
            BY <1>k, <3>2, <5>1, <5>2, <5>3 DEF Seen
      <4>3. QED
        BY <4>1, <4>2
    <3>5. QED
      <4>1. HIDE DEF q, mine
      <4>2. QED
        BY <1>k, <3>2, <3>4 DEF SeenInv, Comparing, Sending, Downloading
  <2>3. QED
    BY <2>1, <2>2
<1>5. CASE CompareScans(c)
  <2>1. /\ pass'[c].pc = "sendDeletes" /\ UNCHANGED <<pass[c].mine, pass[c].adds>>
    BY <1>5, <1>k DEF CompareScans, Passes
  <2>2. fresh'[c] = fresh[c]
    BY <1>5, SeenFacts DEF CompareScans
  <2>3. \A p \in DOMAIN local[c] : Seen(c, p)
    BY <1>5, <1>k DEF CompareScans, ClientAt, LoopDone, SeenInv
  <2>4. \A p \in DOMAIN local'[c] : Seen(c, p)'
    BY <1>k, <2>1, <2>2, <2>3, SparesIfSame, SeenStays
  <2>5. QED
    BY <1>k, <2>1, <2>4 DEF SeenInv, Comparing, Sending, Downloading
<1>6. QED
    BY <1>1, <1>2, <1>3, <1>4, <1>5

\* What is sent and removed.
LEMMA CompareSees ==
    ASSUME SyncInv, SeenAll, NEW c \in Client, ClientSteps(c),
           SendDelete(c) \/ TakeDeleted(c) \/ AddBack(c) \/ FindAdd(c) \/ StampAdd(c)
           \/ ReadAdd(c) \/ TakeAdded(c) \/ AskDeletedList(c) \/ TakeDeletedList(c)
           \/ FindGone(c) \/ UnlinkGone(c)
    PROVE  SeenInv(c)'
<1>k. /\ pass \in [Client -> Passes] /\ pass[c] \in Passes /\ SeenInv(c)
      /\ local \in [Client -> Dir]
      /\ pass[c].pc \in Comparing
      /\ pass[c].pc \notin Sending => pass[c].adds = "first"
      /\ fresh'[c] = fresh[c]
    BY SeenFacts DEF SendDelete, TakeDeleted, AddBack, FindAdd, StampAdd, ReadAdd,
           TakeAdded, AskDeletedList, TakeDeletedList, FindGone, UnlinkGone, ClientAt,
           Comparing, Sending
<1>s. Spares(c, {})
  <2>1. CASE UNCHANGED local
    BY <1>k, <2>1, SparesIfSame
  <2>2. CASE UnlinkGone(c) /\ HasCurrent(c)
    BY <1>k, <2>2, SparesIfDropped DEF UnlinkGone
  <2>3. QED
    BY <2>1, <2>2 DEF SendDelete, TakeDeleted, AddBack, FindAdd, StampAdd, ReadAdd,
           TakeAdded, AskDeletedList, TakeDeletedList, FindGone, UnlinkGone
<1>e. ASSUME Exit(c, "aborted")
      PROVE  SeenInv(c)'
    BY <1>e, ExitSees
<1>m. ASSUME NEW pc \in Comparing, NEW todo, Move(c, pc) \/ Loop(c, pc, todo),
             pass[c].pc \in Sending => pc \in Sending \/ pass[c].adds = "first"
      PROVE  SeenInv(c)'
    BY <1>k, <1>m, <1>s, MoveKeeps, LoopKeeps, SeenCompares
<1>n. ASSUME NEW pc \in Comparing, NextPath(c, pc),
             pass[c].pc \in Sending => pc \in Sending
      PROVE  SeenInv(c)'
    BY <1>m, <1>n DEF NextPath
<1>1. CASE SendDelete(c)
    BY <1>1, <1>m DEF SendDelete, Ask, ClientAt, Sending, Comparing
<1>2. CASE TakeDeleted(c)
    BY <1>2, <1>n DEF TakeDeleted, ClientAt, Sending, Comparing
<1>3. CASE AddBack(c)
    BY <1>3, <1>m DEF AddBack, ClientAt, Sending, Comparing
<1>4. CASE FindAdd(c)
  <2>1. CASE LoopDone(c) /\ pass[c].adds # "first"
    <3>1. pass'[c] = [NewPass EXCEPT !.pc = "idle"]
      BY <1>4, <1>k, <2>1 DEF FindAdd, AfterAdds
    <3>2. pass'[c].pc = "idle" /\ pass'[c].adds = "first"
      BY <3>1 DEF NewPass
    <3>3. QED
      BY <3>2, SeenRests
  <2>2. CASE LoopDone(c) /\ pass[c].adds = "first"
    BY <1>4, <1>m, <2>2 DEF FindAdd, AfterAdds, Comparing
  <2>3. CASE ~LoopDone(c)
    BY <1>4, <1>m, <1>n, <2>3 DEF FindAdd, Sending, Comparing
  <2>4. QED
    BY <2>1, <2>2, <2>3
<1>5. CASE StampAdd(c)
  <2>1. CASE pass' = [pass EXCEPT ![c].pc = "read",
                                  ![c].stamp = local[c][Current(c)].ts]
    <3>1. pass'[c].pc = "read" /\ UNCHANGED <<pass[c].mine, pass[c].adds>>
      BY <1>k, <2>1 DEF Passes
    <3>2. QED
      BY <1>k, <1>s, <3>1, SeenCompares DEF Sending, Comparing
  <2>2. QED
    BY <1>5, <1>e, <1>n, <2>1 DEF StampAdd, Sending, Comparing
<1>6. CASE ReadAdd(c)
    BY <1>6, <1>e, <1>m DEF ReadAdd, Ask, Sending, Comparing
<1>7. CASE TakeAdded(c)
  <2>1. pass'[c].pc = "sendAdds" /\ UNCHANGED <<pass[c].mine, pass[c].adds>>
    BY <1>7, <1>k DEF TakeAdded, Passes
  <2>2. QED
    BY <1>k, <1>s, <2>1, SeenCompares DEF Sending, Comparing
<1>8. CASE AskDeletedList(c)
    BY <1>8, <1>m DEF AskDeletedList, Ask, ClientAt, Sending, Comparing
<1>9. CASE TakeDeletedList(c)
    BY <1>9, <1>m DEF TakeDeletedList, ClientAt, Sending, Comparing
<1>10. CASE FindGone(c)
  <2>1. CASE LoopDone(c)
    <3>1. /\ pass'[c].pc = "download"
          /\ pass'[c].todo = ModifiedOrAdded(c) \ pass[c].deletedByUser
          /\ UNCHANGED <<pass[c].mine, pass[c].remote, pass[c].adds>>
      BY <1>10, <2>1, LoopKeeps DEF FindGone
    <3>2. pass[c].adds = "first"
      BY <1>10, <1>k DEF FindGone, ClientAt, Sending
    <3>3. \A p \in DOMAIN local'[c] : Seen(c, p)'
      BY <1>k, <1>s, <3>1, <3>2, SeenStays DEF SeenInv
    <3>4. UNCHANGED ModifiedOrAdded(c)
      BY <3>1 DEF ModifiedOrAdded
    <3>5. QED
      BY <3>1, <3>2, <3>3, <3>4 DEF SeenInv, Comparing, Sending
  <2>2. CASE ~LoopDone(c)
    BY <1>10, <1>m, <1>n, <2>2 DEF FindGone, ClientAt, Sending, Comparing
  <2>3. QED
    BY <2>1, <2>2
<1>11. CASE UnlinkGone(c)
    BY <1>11, <1>e, <1>n DEF UnlinkGone, ClientAt, Sending, Comparing
<1>12. QED
    BY <1>1, <1>2, <1>3, <1>4, <1>5, <1>6, <1>7, <1>8, <1>9, <1>10, <1>11

\* The downloads.
LEMMA DownloadSees ==
    ASSUME SyncInv, SeenAll, NEW c \in Client, ClientSteps(c),
           FindDownload(c) \/ UnlinkOld(c) \/ RequestFile(c) \/ TakeFile(c)
           \/ SaveFile(c) \/ SetFileTime(c)
    PROVE  SeenInv(c)'
<1>k. /\ pass \in [Client -> Passes] /\ pass[c] \in Passes /\ SeenInv(c)
      /\ local \in [Client -> Dir] /\ local[c] \in Dir
      /\ pass[c].pc \in Downloading /\ pass[c].adds = "first"
      /\ fresh'[c] = fresh[c]
    BY SeenFacts DEF FindDownload, UnlinkOld, RequestFile, TakeFile, SaveFile,
           SetFileTime, ClientAt, Downloading, Sending
<1>e. ASSUME Exit(c, "aborted")
      PROVE  SeenInv(c)'
    BY <1>e, ExitSees
<1>1. CASE FindDownload(c)
  <2>1. CASE LoopDone(c)
    <3>1. pass'[c].pc = "sendAdds" /\ pass'[c].adds = "last"
      BY <1>1, <1>k, <2>1 DEF FindDownload, Passes
    <3>2. QED
      BY <3>1 DEF SeenInv, Sending, Downloading
  <2>2. CASE ~LoopDone(c)
    <3>1. PICK pc \in {"unlinkOld", "request"} :
              Move(c, pc) /\ (pc = "request" => ~HasCurrent(c))
      BY <1>1, <2>2 DEF FindDownload
    <3>2. /\ pass'[c].pc = pc /\ pass'[c].todo = pass[c].todo
          /\ UNCHANGED <<pass[c].mine, pass[c].remote, pass[c].adds>>
          /\ Current(c)' = Current(c) /\ UNCHANGED local
      BY <1>1, <3>1, MoveKeeps DEF FindDownload
    <3>3. Open(c)' \subseteq Open(c)
      BY <1>1, <3>2 DEF FindDownload, ClientAt, Open
    <3>4. Spares(c, {})
      BY <1>k, <3>2, SparesIfSame
    <3>5. QED
      BY <1>k, <3>1, <3>2, <3>3, <3>4, SeenDownloads DEF Downloading, HasCurrent
  <2>3. QED
    BY <2>1, <2>2
<1>2. CASE UnlinkOld(c) /\ HasCurrent(c)
  <2>1. /\ pass'[c].pc = "request" /\ pass'[c].todo = pass[c].todo
        /\ UNCHANGED <<pass[c].mine, pass[c].remote, pass[c].adds>>
        /\ Current(c)' = Current(c)
    BY <1>2, MoveKeeps DEF UnlinkOld
  <2>2. local'[c] = Drop(local[c], Current(c))
    BY <1>2, <1>k DEF UnlinkOld
  <2>3. Spares(c, {}) /\ Current(c) \notin DOMAIN local'[c]
    BY <1>k, <2>2, SparesIfDropped DEF Drop
  <2>4. Open(c)' \subseteq Open(c)
    BY <1>2, <2>1 DEF UnlinkOld, ClientAt, Open
  <2>5. QED
    BY <1>k, <2>1, <2>3, <2>4, SeenDownloads DEF Downloading
<1>3. CASE UnlinkOld(c) /\ ~HasCurrent(c)
    BY <1>3, <1>e DEF UnlinkOld
<1>4. CASE RequestFile(c)
  <2>1. /\ pass[c].pc = "request" /\ pass'[c].pc = "awaitFile"
        /\ pass'[c].todo = pass[c].todo
        /\ UNCHANGED <<pass[c].mine, pass[c].remote, pass[c].adds>>
        /\ Current(c)' = Current(c) /\ UNCHANGED local
    BY <1>4, MoveKeeps DEF RequestFile, Ask, ClientAt
  <2>2. Spares(c, {}) /\ Open(c)' \subseteq Open(c)
    BY <1>k, <2>1, SparesIfSame DEF Open
  <2>3. QED
    BY <1>k, <2>1, <2>2, SeenDownloads DEF Downloading, SeenInv
<1>5. CASE TakeFile(c)
  <2>1. UNCHANGED local /\ pass[c].pc = "awaitFile" /\ Spares(c, {})
    BY <1>5, <1>k, SparesIfSame DEF TakeFile, ClientAt
  <2>2. CASE pass' = [pass EXCEPT ![c].pc = "save", ![c].data = reply[c].data]
    <3>1. /\ pass'[c].pc = "save" /\ pass'[c].todo = pass[c].todo
          /\ UNCHANGED <<pass[c].mine, pass[c].remote, pass[c].adds>>
      BY <1>k, <2>2 DEF Passes
    <3>2. Current(c)' = Current(c)
      BY <3>1, CurrentStays
    <3>3. Open(c)' \subseteq Open(c)
      BY <2>1, <3>1, <3>2 DEF Open
    <3>4. QED
      BY <1>k, <2>1, <3>1, <3>2, <3>3, SeenDownloads DEF Downloading, SeenInv
  <2>3. CASE NextPath(c, "download")
    <3>1. /\ pass'[c].pc = "download" /\ pass'[c].todo = pass[c].todo \ {Current(c)}
          /\ UNCHANGED <<pass[c].mine, pass[c].remote, pass[c].adds>>
      BY <2>3, LoopKeeps DEF NextPath
    <3>2. Open(c)' \subseteq Open(c)
      BY <2>1, <3>1 DEF Open
    <3>3. QED
      BY <1>k, <2>1, <3>1, <3>2, SeenDownloads DEF Downloading
  <2>4. QED
    BY <1>5, <2>2, <2>3 DEF TakeFile
<1>6. CASE SaveFile(c)
  <2>1. /\ pass[c].pc = "save"
        /\ pass'[c].pc = "setTime" /\ pass'[c].todo = pass[c].todo
        /\ UNCHANGED <<pass[c].mine, pass[c].remote, pass[c].adds>>
    BY <1>6, <1>k DEF SaveFile, ClientAt, Passes
  <2>2. Current(c)' = Current(c)
    BY <2>1, CurrentStays
  <2>3. Spares(c, {Current(c)})
    BY <1>6, <1>k, SparesTheOthers DEF SaveFile
  <2>4. Open(c)' \subseteq Open(c) /\ Open(c)' \cap {Current(c)} = {}
    BY <2>1, <2>2 DEF Open
  <2>5. QED
    BY <1>k, <2>1, <2>3, <2>4, SeenDownloads DEF Downloading
<1>7. CASE SetFileTime(c) /\ HasCurrent(c)
  <2>1. /\ pass[c].pc = "setTime"
        /\ pass'[c].pc = "download" /\ pass'[c].todo = pass[c].todo \ {Current(c)}
        /\ UNCHANGED <<pass[c].mine, pass[c].remote, pass[c].adds>>
    BY <1>7, LoopKeeps DEF SetFileTime, NextPath, ClientAt
  <2>2. Spares(c, {Current(c)})
    <3>1. local'[c] = [local[c] EXCEPT ![Current(c)] =
                          [@ EXCEPT !.ts = pass[c].remote[Current(c)]]]
      BY <1>7, <1>k DEF SetFileTime
    <3>2. PICK paths \in SUBSET Path : local[c] \in [paths -> Entry]
      BY <1>k DEF Dir
    <3>3. ASSUME NEW p \in DOMAIN local'[c] \ {Current(c)}
          PROVE  p \in DOMAIN local[c] /\ local'[c][p] = local[c][p]
      BY <3>1, <3>2, <3>3
    <3>4. QED
      BY <1>k, <3>3 DEF Spares
  <2>3. Open(c)' \subseteq Open(c) /\ Open(c)' \cap {Current(c)} = {}
    BY <2>1 DEF Open
  <2>4. QED
    BY <1>k, <2>1, <2>2, <2>3, SeenDownloads DEF Downloading
<1>8. CASE SetFileTime(c) /\ ~HasCurrent(c)
    BY <1>8, <1>e DEF SetFileTime
<1>9. QED
    BY <1>1, <1>2, <1>3, <1>4, <1>5, <1>6, <1>7, <1>8
-----------------------------------------------------------------------------
(* Everything else.                                                        *)

\* What a user does to a file is fresh, or gone.
LEMMA UserSpares ==
    ASSUME SyncInv, SeenAll, NEW c \in Client, NEW q \in Path,
           UserWrite(c, q) \/ UserDelete(c, q), NEW d \in Client
    PROVE  /\ Spares(d, {}) /\ pass'[d] = pass[d]
           /\ fresh' \in [Client -> SUBSET Path]
<1>k. local \in [Client -> Dir] /\ fresh \in [Client -> SUBSET Path]
    BY DEF SyncInv, Kinds, SeenAll
<1>1. CASE UserWrite(c, q)
  <2>1. /\ fresh' = [fresh EXCEPT ![c] = @ \cup {q}] /\ pass' = pass
        /\ \E f : local' = [local EXCEPT ![c] = Put(@, q, f)]
    BY <1>1 DEF UserWrite
  <2>2. QED
    BY <1>k, <2>1 DEF Spares, Put
<1>2. CASE UserDelete(c, q)
  <2>1. /\ fresh' = [fresh EXCEPT ![c] = @ \ {q}] /\ pass' = pass
        /\ local' = [local EXCEPT ![c] = Drop(@, q)]
    BY <1>2 DEF UserDelete
  <2>2. QED
    BY <1>k, <2>1 DEF Spares, Drop
<1>3. QED
    BY <1>1, <1>2

\* A client that gives up, is killed, or starts again.
LEMMA FaultSees ==
    ASSUME SyncInv, SeenAll, NEW c \in Client,
           TimesOut(c) \/ IsKilled(c) \/ StartsAgain(c)
    PROVE  SeenAll'
<1>k. /\ pass \in [Client -> Passes] /\ pass[c] \in Passes
      /\ local \in [Client -> Dir] /\ SeenInv(c) /\ fresh' = fresh
    BY PassKinds DEF SyncInv, Kinds, SeenAll, TimesOut, IsKilled, StartsAgain, history
<1>1. ASSUME NEW d \in Client \ {c}
      PROVE  SeenInv(d)'
  <2>1. UNCHANGED <<pass[d], local[d], fresh[d]>>
    BY <1>k DEF TimesOut, IsKilled, StartsAgain, NoAnswer, Crash, Restart, Loop, Exit
  <2>2. QED
    BY <2>1, SparesIfSame, SeenKept DEF SeenAll
<1>2. SeenInv(c)'
  <2>1. CASE IsKilled(c)
    BY <2>1, ExitSees DEF IsKilled, Crash
  <2>2. CASE StartsAgain(c)
    <3>1. pass'[c].pc = "start" /\ pass'[c].adds = "first"
      BY <1>k, <2>2 DEF StartsAgain, Restart, NewPass
    <3>2. QED
      BY <3>1, SeenRests
  <2>3. CASE TimesOut(c)
    <3>1. Spares(c, {})
      BY <1>k, <2>3, SparesIfSame DEF TimesOut, NoAnswer
    <3>2. CASE ClientAt(c, "awaitDeleted")
      <4>1. pass'[c].pc = "addBack" /\ UNCHANGED <<pass[c].mine, pass[c].adds>>
        BY <2>3, <3>2, LoopKeeps DEF TimesOut, NoAnswer
      <4>2. QED
        BY <1>k, <3>1, <3>2, <4>1, SeenCompares
           DEF ClientAt, SeenInv, Comparing, Sending
    <3>3. CASE ClientAt(c, "awaitAdded") /\ pass[c].adds = "first"
      <4>1. pass'[c].pc = "askDeleted" /\ UNCHANGED <<pass[c].mine, pass[c].adds>>
        BY <1>k, <2>3, <3>3 DEF TimesOut, NoAnswer, ClientAt, Passes
      <4>2. QED
        BY <1>k, <3>1, <3>3, <4>1, SeenCompares DEF ClientAt, Comparing, Sending
    <3>4. CASE Exit(c, "closed")
      BY <3>4, ExitSees
    <3>5. QED
      BY <2>3, <3>2, <3>3, <3>4 DEF TimesOut, NoAnswer
  <2>4. QED
    BY <2>1, <2>2, <2>3
<1>3. QED
    BY <1>k, <1>1, <1>2 DEF SeenAll

LEMMA NextSees ==
    ASSUME SyncInv, SeenAll, [Next]_syncVars
    PROVE  SeenAll'
<1>1. CASE UNCHANGED <<pass, local, fresh>>
  <2>1. \A c \in Client : SeenInv(c)'
    BY <1>1, SparesIfSame, SeenKept DEF SeenAll
  <2>2. QED
    BY <1>1, <2>1 DEF SeenAll
<1>2. ASSUME NEW c \in Client, ClientSteps(c)
      PROVE  SeenAll'
  <2>1. SeenInv(c)'
    BY <1>2, ScanSees, CompareSees, DownloadSees DEF ClientSteps, Synchronise
  <2>2. ASSUME NEW d \in Client \ {c}
        PROVE  SeenInv(d)'
    BY <1>2, OthersUntouched, SparesIfSame, SeenKept DEF SeenAll
  <2>3. QED
    BY <1>2, <2>1, <2>2, SeenFacts DEF SeenAll
<1>3. ASSUME NEW c \in Client, NEW q \in Path, UserWrite(c, q) \/ UserDelete(c, q)
      PROVE  SeenAll'
    BY <1>3, UserSpares, SeenKept DEF SeenAll
<1>4. CASE \E c \in Client : TimesOut(c) \/ IsKilled(c) \/ StartsAgain(c)
    BY <1>4, FaultSees
<1>5. Tick \/ (\E c \in Client : ServerSteps(c) \/ Reset(c)) \/ UNCHANGED syncVars
          => UNCHANGED <<pass, local, fresh>>
    BY DEF Tick, ServerSteps, Reset, syncVars, clientVars, userVars, history
<1>6. QED
    BY <1>1, <1>2, <1>3, <1>4, <1>5 DEF Next

LEMMA SeenInvariant == Spec => [](SyncInv /\ SeenAll)
<1>1. Init => SeenAll
  <2>1. ASSUME Init, NEW c \in Client
        PROVE  SeenInv(c)
    <3>1. pass[c].pc = "start" /\ pass[c].adds = "first"
      BY <2>1 DEF Init, ClientInit, NewPass
    <3>2. QED
      BY <3>1 DEF SeenInv, Comparing, Sending, Downloading
  <2>2. QED
    BY <2>1 DEF Init, SeenAll
<1>2. SyncInv /\ SeenAll /\ [Next]_syncVars => SeenAll'
    BY NextSees
<1>3. QED
    BY <1>1, <1>2, SyncInvariant, PTL DEF Spec

\* A fault is counted.
LEMMA FaultsAreCounted ==
    ASSUME SyncInv, NEW what \in {"edits", "deletes", "timeouts", "crashes", "restarts"},
           NEW bound, Spend(what, bound)
    PROVE  spent' # spent
BY DEF SyncInv, Kinds, Spend

\* A client's step keeps a file that its scan has seen.
LEMMA StepRespects ==
    ASSUME SyncInv, SeenAll, FinalIfNotRecreated, ~Recreate, NEW c \in Client,
           ClientSteps(c), NEW p \in DOMAIN local[c], p \notin fresh[c]
    PROVE  Respects(c, p)
<1>k. /\ pass[c] \in Passes /\ local \in [Client -> Dir] /\ local[c] \in Dir
      /\ SeenInv(c) /\ p \in Path
    BY SeenFacts, DirFacts
<1>1. CASE UNCHANGED local
    BY <1>1 DEF Respects
<1>2. CASE UnlinkGone(c)
  <2>1. pass[c].todo # {} /\ pass[c].todo \subseteq Deleted
    BY <1>2 DEF SyncInv, Knows, HasOne, UnlinkGone, ClientAt
  <2>2. Current(c) \in gone
    BY <2>1, CurrentIsDue DEF FinalIfNotRecreated
  <2>3. p = Current(c) \/ (p \in DOMAIN local'[c] /\ local'[c][p] = local[c][p])
    BY <1>2, <1>k DEF UnlinkGone, Drop
  <2>4. QED
    BY <2>2, <2>3 DEF Respects
<1>3. CASE UnlinkOld(c)
  <2>1. p = Current(c) \/ (p \in DOMAIN local'[c] /\ local'[c][p] = local[c][p])
    BY <1>3, <1>k DEF UnlinkOld, Drop
  <2>2. CASE p = Current(c)
    <3>1. p \in pass[c].todo /\ p \in Open(c) /\ pass[c].pc \in Downloading
      BY <1>3, <2>2, SeenFacts DEF UnlinkOld, ClientAt, HasOne, Open, Downloading
    <3>2. /\ Seen(c, p) /\ p \in ModifiedOrAdded(c)
      BY <1>k, <3>1 DEF SeenInv
    <3>3. /\ p \in DOMAIN pass[c].remote
          /\ p \in DOMAIN pass[c].mine /\ pass[c].mine[p] = local[c][p].ts
          /\ pass[c].mine[p] < pass[c].remote[p]
      BY <3>2 DEF Seen, ModifiedOrAdded, getModifiedOrAdded
    <3>4. pass[c].mine[p] \in Nat /\ pass[c].remote[p] \in Nat
      BY <1>k, <3>3, ListFacts, TimeFacts DEF Passes
    <3>5. QED
      BY <3>3, <3>4 DEF Respects
  <2>3. QED
    BY <2>1, <2>2 DEF Respects
<1>4. CASE SaveFile(c)
  <2>1. p # Current(c)
    BY <1>4, <1>k DEF SaveFile, ClientAt, SeenInv
  <2>2. p \in DOMAIN local'[c] /\ local'[c][p] = local[c][p]
    BY <1>4, <1>k, <2>1 DEF SaveFile, Put
  <2>3. QED
    BY <2>2 DEF Respects
<1>5. CASE SetFileTime(c)
  <2>1. CASE p = Current(c)
    BY <1>5, <2>1 DEF SetFileTime, Respects
  <2>2. CASE p # Current(c)
    <3>1. PICK paths \in SUBSET Path : local[c] \in [paths -> Entry]
      BY <1>k DEF Dir
    <3>2. p \in DOMAIN local'[c] /\ local'[c][p] = local[c][p]
      BY <1>5, <1>k, <2>2, <3>1 DEF SetFileTime
    <3>3. QED
      BY <3>2 DEF Respects
  <2>3. QED
    BY <2>1, <2>2
<1>6. QED
    BY <1>1, <1>2, <1>3, <1>4, <1>5
       DEF ClientSteps, Synchronise, AskTime, CheckTimeDiff, AskFileList,
           TakeFileList, ScanNames, ScanTime, CompareScans, Wake, SendDelete,
           TakeDeleted, AddBack, FindAdd, StampAdd, ReadAdd, TakeAdded,
           AskDeletedList, TakeDeletedList, FindGone, FindDownload, RequestFile,
           TakeFile

\* With any number of clients, if no path is written again after its deletion,
\* client_logic.cpp takes a file whose time its scan has read out of the user's
\* directory, or replaces it, only in favour of a newer one or because the path
\* was deleted.
THEOREM SeenEditsAreKept ==
    ASSUME ~Recreate
    PROVE  Spec => SeenEditsKept
<1>1. ASSUME SyncInv, SeenAll, FinalIfNotRecreated, Next, NEW c \in Client,
             NEW p \in DOMAIN local[c], p \notin fresh[c]
      PROVE  Respects(c, p)
  <2>1. CASE ClientSteps(c)
    BY <1>1, <2>1, StepRespects
  <2>2. CASE \E d \in Client \ {c} : ClientSteps(d)
    BY <1>1, <2>2, OthersUntouched DEF Respects
  <2>3. CASE Tick \/ \E d \in Client : ServerSteps(d) \/ Reset(d)
    BY <1>1, <2>3 DEF Tick, ServerSteps, Reset, clientVars, Respects
  <2>4. CASE \E d \in Client :
                 \/ TimesOut(d) \/ IsKilled(d) \/ StartsAgain(d)
                 \/ \E q \in Path : UserWrite(d, q) \/ UserDelete(d, q)
    BY <1>1, <2>4, FaultsAreCounted
       DEF TimesOut, IsKilled, StartsAgain, UserWrite, UserDelete, Respects
  <2>5. QED
    BY <1>1, <2>1, <2>2, <2>3, <2>4 DEF Next
<1>2. SyncInv /\ SeenAll /\ FinalIfNotRecreated /\ [Next]_syncVars
         => [\A c \in Client : \A p \in DOMAIN local[c] :
                p \in fresh[c] \/ Respects(c, p)]_syncVars
    BY <1>1
<1>3. QED
    BY <1>2, SeenInvariant, FinalDeletions, PTL DEF Spec, SeenEditsKept
-----------------------------------------------------------------------------
(* Equal times, equal contents: the invariant.                             *)

\* A file of the server goes with the user's: with the same time it has the
\* same content.  What was deleted once is at the client because it was
\* downloaded, and the download may have been torn.
ServerCopy(c, p, f) ==
    p \in DOMAIN local[c] =>
        IF p \in Deleted THEN local[c][p].data \in {f.data, Torn}
        ELSE f.ts = local[c][p].ts => f.data = local[c][p].data

\* So does an upload on its way.
UploadCopy(c, request) ==
    request.path \in DOMAIN local[c] =>
        LET f == local[c][request.path]
        IN  IF request.path \in Deleted
            THEN request.ts = f.ts /\ request.data = f.data
            ELSE request.ts = f.ts => request.data = f.data

Stored(p, f) == p \in DOMAIN syncRoot /\ syncRoot[p] = f

Pending(c, request) == \E i \in 1 .. Len(inbox[c]) : inbox[c][i] = request

ServerCopies(c) ==
    \A p \in Path : \A f \in Entry :
        Stored(p, f) => Storing(c, p) \/ ServerCopy(c, p, f)

UploadsCopy(c) ==
    \A request \in Asked :
        Pending(c, request) /\ request.type = "SendFileToServer" =>
            UploadCopy(c, request)

\* An upload that nobody interferes with.
Writes(c) ==
    /\ handler[c].pc = "writeFile" =>
          /\ handler[c].linked /\ Requested(c) \in DOMAIN syncRoot
          /\ syncRoot[Requested(c)].data = Torn
    /\ handler[c].pc = "setTime" =>
          /\ Requested(c) \in DOMAIN syncRoot
          /\ syncRoot[Requested(c)].data = Head(inbox[c]).data

IsCopy(p, d) == p \in DOMAIN syncRoot => syncRoot[p].data = d

\* What a pass is about to send or to save; while it saves, the server has
\* nothing to do.
PassCopies(c) ==
    /\ pass[c].pc = "read" /\ Current(c) \in DOMAIN local[c] \cap Deleted =>
          pass[c].stamp = local[c][Current(c)].ts
    /\ pass[c].pc \in {"save", "setTime"} => inbox[c] = <<>>
    /\ pass[c].pc = "save" => IsCopy(Current(c), pass[c].data)
    /\ pass[c].pc = "awaitFile" /\ reply[c] # NoReply /\ reply[c].status = 0 =>
          IsCopy(Current(c), reply[c].data)

CopyInv(c) == ServerCopies(c) /\ UploadsCopy(c) /\ Writes(c) /\ PassCopies(c)

\* The user's files as far as they were are as they were.
Shrinks(c) ==
    \A p \in DOMAIN local'[c] :
        /\ p \in DOMAIN local[c] /\ local'[c][p] = local[c][p]
        /\ p \in Deleted' <=> p \in Deleted

LEMMA CopiesStay ==
    ASSUME NEW c \in Client, Shrinks(c)
    PROVE  /\ \A p, f : ServerCopy(c, p, f) => ServerCopy(c, p, f)'
           /\ \A request : UploadCopy(c, request) => UploadCopy(c, request)'
BY DEF Shrinks, ServerCopy, UploadCopy

\* A client whose handler has nothing to do.
LEMMA NothingPending ==
    ASSUME SyncInv, NEW c \in Client, inbox[c] = <<>>
    PROVE  /\ handler[c].pc = "idle" /\ \A p : ~Storing(c, p)
           /\ \A request : ~Pending(c, request)
BY DEF SyncInv, Talk, Storing, Pending

\* An answer that has arrived leaves the handler without work.
LEMMA AnsweredAll ==
    ASSUME SyncInv, NEW c \in Client, reply[c] # NoReply
    PROVE  inbox[c] = <<>> /\ waiting[c]
BY DEF SyncInv, Talk
-----------------------------------------------------------------------------
(* The clients' steps.                                                     *)

\* What a client's step may do to its conversation.
Tells(c) ==
    \/ UNCHANGED connVars
    \/ HangUp(c)
    \/ \E request \in Asked :
          /\ Send(c, request)
          /\ request.type = "SendFileToServer" => UploadCopy(c, request)

LEMMA TellsFacts ==
    ASSUME SyncInv, NEW c \in Client, Tells(c)
    PROVE  /\ \A request \in Asked :
                 Pending(c, request)' =>
                    \/ Pending(c, request)
                    \/ request.type = "SendFileToServer" => UploadCopy(c, request)
           /\ handler[c].pc # "idle" => Head(inbox'[c]) = Head(inbox[c])
<1>1. CASE UNCHANGED connVars \/ HangUp(c)
    BY <1>1 DEF connVars, HangUp, Pending
<1>2. ASSUME NEW r \in Asked, Send(c, r),
             r.type = "SendFileToServer" => UploadCopy(c, r)
      PROVE  /\ \A request \in Asked :
                   Pending(c, request)' =>
                      \/ Pending(c, request)
                      \/ request.type = "SendFileToServer" => UploadCopy(c, request)
             /\ handler[c].pc # "idle" => Head(inbox'[c]) = Head(inbox[c])
  <2>1. inbox'[c] = Append(inbox[c], r)
    BY <1>2, InboxFacts DEF Send
  <2>2. ASSUME NEW i \in 1 .. Len(inbox'[c])
        PROVE  inbox'[c][i] = r \/ \E j \in 1 .. Len(inbox[c]) : inbox'[c][i] = inbox[c][j]
    BY <2>1, InboxFacts
  <2>3. handler[c].pc # "idle" => Head(inbox'[c]) = Head(inbox[c])
    BY <2>1, InboxFacts
  <2>4. QED
    BY <1>2, <2>2, <2>3 DEF Pending
<1>3. QED
    BY <1>1, <1>2 DEF Tells

\* A step that leaves the server alone, and takes nothing to the user but away.
LEMMA ClientCopies ==
    ASSUME SyncInv, NEW c \in Client, CopyInv(c), Shrinks(c), Tells(c),
           UNCHANGED <<syncRoot, handler>>, PassCopies(c)'
    PROVE  CopyInv(c)'
<1>1. handler[c].pc # "idle" => Head(inbox'[c]) = Head(inbox[c])
    BY TellsFacts
<1>2. Writes(c)'
    BY <1>1 DEF CopyInv, Writes, Requested
<1>3. \A p : Storing(c, p) => Storing(c, p)'
    BY <1>1 DEF Storing, Requested
<1>4. ServerCopies(c)'
    BY <1>3, CopiesStay DEF CopyInv, ServerCopies, Stored
<1>5. UploadsCopy(c)'
    BY TellsFacts, CopiesStay DEF CopyInv, UploadsCopy
<1>6. QED
    BY <1>2, <1>4, <1>5 DEF CopyInv

\* A step by which something that was deleted once comes back or changes.
LEMMA DownloadCopies ==
    ASSUME SyncInv, NEW c \in Client, CopyInv(c), inbox[c] = <<>>,
           UNCHANGED <<syncRoot, handler, inbox, Deleted>>,
           NEW q \in Deleted, NEW g, local'[c] = Put(local[c], q, g),
           \A f : Stored(q, f) => g.data \in {f.data, Torn},
           PassCopies(c)'
    PROVE  CopyInv(c)'
<1>1. /\ handler[c].pc = "idle" /\ \A p : ~Storing(c, p)
      /\ \A request : ~Pending(c, request)
    BY NothingPending
<1>2. Writes(c)' /\ UploadsCopy(c)'
    BY <1>1 DEF Writes, UploadsCopy, Pending
<1>3. ASSUME NEW p \in Path, NEW f \in Entry, Stored(p, f)
      PROVE  ServerCopy(c, p, f)'
  <2>1. ServerCopy(c, p, f)
    BY <1>1, <1>3 DEF CopyInv, ServerCopies
  <2>2. QED
    BY <1>3, <2>1 DEF ServerCopy, Put
<1>4. ServerCopies(c)'
    BY <1>3 DEF ServerCopies, Stored
<1>5. QED
    BY <1>2, <1>4 DEF CopyInv

LEMMA SameShrinks ==
    ASSUME NEW c \in Client, UNCHANGED <<local, deleted>>
    PROVE  Shrinks(c)
BY DEF Shrinks, Deleted

LEMMA DropShrinks ==
    ASSUME NEW c \in Client, NEW q, local'[c] = Drop(local[c], q), UNCHANGED deleted
    PROVE  Shrinks(c)
BY DEF Shrinks, Drop, Deleted

\* Where a pass neither holds nor awaits a file's content.
EmptyHanded(c) == pass[c].pc \notin {"read", "save", "setTime", "awaitFile"}

LEMMA EmptyPassCopies ==
    ASSUME NEW c \in Client, EmptyHanded(c)'
    PROVE  PassCopies(c)'
BY DEF EmptyHanded, PassCopies

LEMMA AsksTells ==
    ASSUME NEW c \in Client, NEW request \in Asked, Send(c, request),
           request.type # "SendFileToServer"
    PROVE  Tells(c)
BY DEF Tells

LEMMA TakesTells ==
    ASSUME NEW c \in Client, Receive(c)
    PROVE  Tells(c)
BY DEF Receive, HangUp, Tells

\* The messages and the comparison.
LEMMA FetchTells ==
    ASSUME SyncInv, NEW c \in Client,
           \/ AskTime(c) \/ CheckTimeDiff(c) \/ AskFileList(c) \/ TakeFileList(c)
           \/ Wake(c) \/ ScanNames(c) \/ ScanTime(c) \/ CompareScans(c)
    PROVE  Tells(c) /\ EmptyHanded(c)'
<1>k. pass \in [Client -> Passes] /\ pass[c] \in Passes
    BY PassKinds
<1>1. CASE AskTime(c)
  <2>1. Tells(c)
    BY <1>1, AsksTells DEF AskTime, Asked
  <2>2. pass'[c].pc = "awaitTime"
    BY <1>1, <1>k DEF AskTime, Passes
  <2>3. QED
    BY <2>1, <2>2 DEF EmptyHanded
<1>2. CASE CheckTimeDiff(c)
  <2>1. pass'[c].pc \in {"closed", "top"}
    BY <1>2, <1>k, ExitPass DEF CheckTimeDiff, Passes
  <2>2. QED
    BY <1>2, <2>1, TakesTells DEF CheckTimeDiff, EmptyHanded
<1>3. CASE AskFileList(c)
  <2>1. Tells(c)
    BY <1>3, AsksTells DEF AskFileList, Ask, Asked
  <2>2. QED
    BY <1>3, <2>1, MoveKeeps DEF AskFileList, Ask, EmptyHanded
<1>4. CASE TakeFileList(c)
  <2>1. pass'[c].pc = "scan"
    BY <1>4, <1>k DEF TakeFileList, Passes
  <2>2. QED
    BY <1>4, <2>1, TakesTells DEF TakeFileList, EmptyHanded
<1>5. CASE Wake(c)
    BY <1>5, MoveKeeps DEF Wake, EmptyHanded, Tells
<1>6. CASE ScanNames(c)
  <2>1. pass'[c].pc = "stat"
    BY <1>6, <1>k DEF ScanNames, Passes
  <2>2. QED
    BY <1>6, <2>1 DEF ScanNames, EmptyHanded, Tells
<1>7. CASE ScanTime(c)
  <2>1. pass'[c].pc \in {"stat", "aborted"}
    BY <1>7, <1>k, ExitPass DEF ScanTime, ClientAt, Passes
  <2>2. QED
    BY <1>7, <2>1 DEF ScanTime, EmptyHanded, Tells
<1>8. CASE CompareScans(c)
  <2>1. pass'[c].pc = "sendDeletes"
    BY <1>8, <1>k DEF CompareScans, Passes
  <2>2. QED
    BY <1>8, <2>1 DEF CompareScans, EmptyHanded, Tells
<1>9. QED
    BY <1>1, <1>2, <1>3, <1>4, <1>5, <1>6, <1>7, <1>8

\* The loops, as far as they handle no content.
LEMMA LoopTells ==
    ASSUME SyncInv, NEW c \in Client,
           \/ SendDelete(c) \/ TakeDeleted(c) \/ AddBack(c) \/ FindAdd(c)
           \/ TakeAdded(c) \/ AskDeletedList(c) \/ TakeDeletedList(c)
           \/ FindGone(c) \/ UnlinkGone(c) \/ FindDownload(c) \/ UnlinkOld(c)
    PROVE  Tells(c) /\ EmptyHanded(c)'
<1>k. pass \in [Client -> Passes] /\ pass[c] \in Passes
    BY PassKinds
<1>1. CASE SendDelete(c)
  <2>1. CASE LoopDone(c)
    BY <1>1, <2>1, MoveKeeps DEF SendDelete, EmptyHanded, Tells
  <2>2. CASE ~LoopDone(c)
    <3>1. DEFINE r == [type |-> "MarkAsDeleted", path |-> Current(c)]
    <3>2. Send(c, r) /\ Move(c, "awaitDeleted")
      BY <1>1, <2>2 DEF SendDelete, Ask
    <3>3. r \in Asked /\ r.type # "SendFileToServer"
      BY <2>2, CurrentFacts DEF LoopDone, Asked
    <3>4. HIDE DEF r
    <3>5. QED
      BY <3>2, <3>3, AsksTells, MoveKeeps DEF EmptyHanded
  <2>3. QED
    BY <2>1, <2>2
<1>2. CASE TakeDeleted(c)
    BY <1>2, TakesTells, LoopKeeps DEF TakeDeleted, NextPath, EmptyHanded
<1>3. CASE AddBack(c)
    BY <1>3, LoopKeeps DEF AddBack, EmptyHanded, Tells
<1>4. CASE FindAdd(c)
  <2>1. CASE LoopDone(c) /\ pass[c].adds # "first"
    <3>1. pass'[c] = [NewPass EXCEPT !.pc = "idle"]
      BY <1>4, <1>k, <2>1 DEF FindAdd, AfterAdds
    <3>2. pass'[c].pc = "idle"
      BY <3>1 DEF NewPass
    <3>3. QED
      BY <1>4, <3>2 DEF FindAdd, EmptyHanded, Tells
  <2>2. CASE Move(c, "askDeleted") \/ Move(c, "stamp")
    BY <1>4, <2>2, MoveKeeps DEF FindAdd, EmptyHanded, Tells
  <2>3. CASE NextPath(c, "sendAdds")
    BY <1>4, <2>3, LoopKeeps DEF FindAdd, NextPath, EmptyHanded, Tells
  <2>4. QED
    BY <1>4, <2>1, <2>2, <2>3 DEF FindAdd, AfterAdds
<1>5. CASE TakeAdded(c)
  <2>1. pass'[c].pc = "sendAdds"
    BY <1>5, <1>k DEF TakeAdded, Passes
  <2>2. QED
    BY <1>5, <2>1, TakesTells DEF TakeAdded, EmptyHanded
<1>6. CASE AskDeletedList(c)
  <2>1. Tells(c)
    BY <1>6, AsksTells DEF AskDeletedList, Ask, Asked
  <2>2. QED
    BY <1>6, <2>1, MoveKeeps DEF AskDeletedList, Ask, EmptyHanded
<1>7. CASE TakeDeletedList(c)
    BY <1>7, TakesTells, LoopKeeps DEF TakeDeletedList, EmptyHanded
<1>8. CASE FindGone(c)
    BY <1>8, LoopKeeps, MoveKeeps DEF FindGone, NextPath, EmptyHanded, Tells
<1>9. CASE UnlinkGone(c)
    BY <1>9, LoopKeeps, ExitPass DEF UnlinkGone, NextPath, EmptyHanded, Tells
<1>10. CASE FindDownload(c)
  <2>1. pass'[c].pc \in {"sendAdds", "unlinkOld", "request"}
    BY <1>10, <1>k, MoveKeeps DEF FindDownload, Passes
  <2>2. QED
    BY <1>10, <2>1 DEF FindDownload, EmptyHanded, Tells
<1>11. CASE UnlinkOld(c)
    BY <1>11, MoveKeeps, ExitPass DEF UnlinkOld, EmptyHanded, Tells
<1>12. QED
    BY <1>1, <1>2, <1>3, <1>4, <1>5, <1>6, <1>7, <1>8, <1>9, <1>10, <1>11

\* The upload of a file.
LEMMA UploadStep ==
    ASSUME SyncInv, NEW c \in Client, LeadInv(c), CopyInv(c),
           UNCHANGED <<local, deleted>>, StampAdd(c) \/ ReadAdd(c)
    PROVE  Tells(c) /\ PassCopies(c)'
<1>k. pass \in [Client -> Passes] /\ pass[c] \in Passes
    BY PassKinds
<1>1. CASE StampAdd(c)
  <2>1. CASE pass' = [pass EXCEPT ![c].pc = "read",
                                  ![c].stamp = local[c][Current(c)].ts]
    <3>1. /\ pass'[c].pc = "read" /\ pass'[c].stamp = local[c][Current(c)].ts
          /\ pass'[c].todo = pass[c].todo
      BY <1>k, <2>1 DEF Passes
    <3>2. Current(c)' = Current(c)
      BY <3>1, CurrentStays
    <3>3. QED
      BY <1>1, <3>1, <3>2 DEF StampAdd, PassCopies, Tells
  <2>2. CASE NextPath(c, "sendAdds") \/ Exit(c, "aborted")
    BY <1>1, <2>2, LoopKeeps, ExitPass, EmptyPassCopies
       DEF StampAdd, NextPath, EmptyHanded, Tells
  <2>3. QED
    BY <1>1, <2>1, <2>2 DEF StampAdd
<1>2. CASE ReadAdd(c) /\ HasCurrent(c)
  <2>1. DEFINE r == [type |-> "SendFileToServer", path |-> Current(c),
                     ts |-> pass[c].stamp, data |-> local[c][Current(c)].data]
  <2>2. Send(c, r) /\ Move(c, "awaitAdded")
    BY <1>2 DEF ReadAdd, Ask
  <2>3. r \in Asked
    <3>1. Current(c) \in Path /\ local[c][Current(c)].data \in Nat
      BY <1>2, LocalFacts DEF HasCurrent, Entry
    <3>2. pass[c].stamp \in Time
      BY <1>k DEF Passes
    <3>3. QED
      BY <3>1, <3>2 DEF Asked
  <2>4. UploadCopy(c, r)
    <3>1. Current(c) \in DOMAIN local[c] \cap Deleted =>
              pass[c].stamp = local[c][Current(c)].ts
      BY <1>2 DEF ReadAdd, ClientAt, CopyInv, PassCopies
    <3>2. QED
      BY <3>1 DEF UploadCopy
  <2>5. Tells(c)
    <3>1. HIDE DEF r
    <3>2. QED
      BY <2>2, <2>3, <2>4 DEF Tells
  <2>6. QED
    BY <2>2, <2>5, MoveKeeps, EmptyPassCopies DEF EmptyHanded
<1>3. CASE ReadAdd(c) /\ ~HasCurrent(c)
    BY <1>3, ExitPass, EmptyPassCopies DEF ReadAdd, EmptyHanded, Tells
<1>4. QED
    BY <1>1, <1>2, <1>3

\* The download of a file.
LEMMA ArriveStep ==
    ASSUME SyncInv, NEW c \in Client, LeadInv(c), CopyInv(c),
           UNCHANGED <<local, deleted, syncRoot>>, RequestFile(c) \/ TakeFile(c)
    PROVE  Tells(c) /\ PassCopies(c)'
<1>k. pass \in [Client -> Passes] /\ pass[c] \in Passes
    BY PassKinds
<1>1. CASE RequestFile(c)
  <2>1. [type |-> "GetFileByPath", path |-> Current(c)] \in Asked
    BY <1>1, CurrentDeleted DEF RequestFile, ClientAt, LeadInv, Asked
  <2>2. Tells(c)
    BY <1>1, <2>1, AsksTells DEF RequestFile, Ask
  <2>3. pass[c].pc = "request" /\ pass'[c].pc = "awaitFile"
    BY <1>1, MoveKeeps DEF RequestFile, Ask, ClientAt
  <2>4. reply'[c] = NoReply
    BY <1>1, <2>3 DEF RequestFile, Ask, Send, SyncInv, Talk, Awaiting
  <2>5. QED
    BY <2>2, <2>3, <2>4 DEF PassCopies
<1>2. CASE TakeFile(c) /\ reply[c].status = 0
  <2>1. /\ pass'[c].pc = "save" /\ pass'[c].todo = pass[c].todo
        /\ pass'[c].data = reply[c].data
    BY <1>2, <1>k DEF TakeFile, Passes
  <2>2. Current(c)' = Current(c)
    BY <2>1, CurrentStays
  <2>3. reply[c] # NoReply /\ inbox[c] = <<>> /\ UNCHANGED inbox
    BY <1>2, AnsweredAll DEF TakeFile, Receive, Arrived
  <2>4. IsCopy(Current(c), reply[c].data)
    BY <1>2, <2>3 DEF TakeFile, ClientAt, CopyInv, PassCopies
  <2>5. PassCopies(c)'
    BY <2>1, <2>2, <2>3, <2>4 DEF PassCopies, IsCopy
  <2>6. QED
    BY <1>2, <2>5, TakesTells DEF TakeFile
<1>3. CASE TakeFile(c) /\ reply[c].status # 0
    BY <1>3, TakesTells, LoopKeeps, EmptyPassCopies
       DEF TakeFile, NextPath, EmptyHanded
<1>4. QED
    BY <1>1, <1>2, <1>3

\* The user gets it.
LEMMA SaveStep ==
    ASSUME SyncInv, NEW c \in Client, LeadInv(c), CopyInv(c),
           UNCHANGED <<syncRoot, handler, deleted>>, SaveFile(c)
    PROVE  CopyInv(c)'
<1>1. DEFINE g == [ts |-> now, data |-> pass[c].data]
<1>2. local'[c] = Put(local[c], Current(c), g)
    BY DEF SaveFile, SyncInv, Kinds
<1>3. Current(c) \in Deleted /\ UNCHANGED Deleted
    BY CurrentDeleted DEF SaveFile, ClientAt, LeadInv, Deleted
<1>4. inbox[c] = <<>> /\ UNCHANGED inbox /\ IsCopy(Current(c), pass[c].data)
    BY DEF SaveFile, ClientAt, CopyInv, PassCopies, connVars
<1>5. \A f : Stored(Current(c), f) => g.data \in {f.data, Torn}
    BY <1>4 DEF Stored, IsCopy
<1>6. PassCopies(c)'
  <2>1. pass'[c].pc = "setTime"
    BY PassKinds DEF SaveFile, Passes
  <2>2. QED
    BY <1>4, <2>1 DEF PassCopies
<1>7. QED
  <2>1. HIDE DEF g
  <2>2. QED
    BY <1>2, <1>3, <1>4, <1>5, <1>6, DownloadCopies

LEMMA SetTimeStep ==
    ASSUME SyncInv, NEW c \in Client, LeadInv(c), CopyInv(c),
           UNCHANGED <<syncRoot, handler, deleted>>, SetFileTime(c), HasCurrent(c)
    PROVE  CopyInv(c)'
<1>1. DEFINE g == [local[c][Current(c)] EXCEPT !.ts = pass[c].remote[Current(c)]]
<1>2. local'[c] = Put(local[c], Current(c), g)
  <2>1. local'[c] = [local[c] EXCEPT ![Current(c)] = g]
    BY DEF SetFileTime, SyncInv, Kinds
  <2>2. DOMAIN local[c] \cup {Current(c)} = DOMAIN local[c]
    BY DEF HasCurrent
  <2>3. PICK paths \in SUBSET Path : local[c] \in [paths -> Entry]
    BY LocalFacts DEF Dir
  <2>4. HIDE DEF g
  <2>5. [local[c] EXCEPT ![Current(c)] = g]
           = [p \in DOMAIN local[c] |-> IF p = Current(c) THEN g ELSE local[c][p]]
    BY <2>3
  <2>6. QED
    BY <2>1, <2>2, <2>5 DEF Put
<1>3. Current(c) \in Deleted /\ UNCHANGED Deleted
    BY CurrentDeleted DEF SetFileTime, ClientAt, LeadInv, Deleted
<1>4. inbox[c] = <<>> /\ UNCHANGED inbox
    BY DEF SetFileTime, ClientAt, CopyInv, PassCopies, connVars
<1>5. ASSUME NEW f, Stored(Current(c), f)
      PROVE  g.data \in {f.data, Torn}
  <2>1. f \in Entry /\ Current(c) \in Path
    BY <1>3, <1>5, DirFacts DEF Stored, SyncInv, Kinds, Deleted
  <2>2. ServerCopy(c, Current(c), f)
    BY <1>4, <1>5, <2>1, NothingPending DEF CopyInv, ServerCopies
  <2>3. local[c][Current(c)] \in Entry
    BY CurrentFacts
  <2>4. g.data = local[c][Current(c)].data
    BY <2>3 DEF Entry
  <2>5. QED
    BY <1>3, <2>2, <2>4 DEF ServerCopy, HasCurrent
<1>6. PassCopies(c)'
    BY LoopKeeps, EmptyPassCopies DEF SetFileTime, NextPath, EmptyHanded
<1>7. QED
  <2>1. HIDE DEF g
  <2>2. QED
    BY <1>2, <1>3, <1>4, <1>5, <1>6, DownloadCopies

LEMMA ClientKeepsCopies ==
    ASSUME SyncInv, NEW c \in Client, LeadInv(c), CopyInv(c), ClientSteps(c)
    PROVE  CopyInv(c)'
<1>1. UNCHANGED <<syncRoot, handler, deleted>>
    BY DEF ClientSteps, serverVars, store, userVars, history
<1>k. local \in [Client -> Dir]
    BY DEF SyncInv, Kinds
<1>2. CASE UNCHANGED local /\ (\/ AskTime(c) \/ CheckTimeDiff(c) \/ AskFileList(c)
           \/ TakeFileList(c) \/ Wake(c) \/ ScanNames(c) \/ ScanTime(c)
           \/ CompareScans(c))
    BY <1>1, <1>2, FetchTells, SameShrinks, EmptyPassCopies, ClientCopies
<1>3. CASE UNCHANGED local /\ (\/ SendDelete(c) \/ TakeDeleted(c) \/ AddBack(c)
           \/ FindAdd(c) \/ TakeAdded(c) \/ AskDeletedList(c) \/ TakeDeletedList(c)
           \/ FindGone(c) \/ FindDownload(c))
    BY <1>1, <1>3, LoopTells, SameShrinks, EmptyPassCopies, ClientCopies
<1>4. CASE UnlinkGone(c) \/ UnlinkOld(c)
  <2>1. Shrinks(c)
    <3>1. CASE UNCHANGED local
      BY <1>1, <3>1, SameShrinks
    <3>2. CASE local' = [local EXCEPT ![c] = Drop(@, Current(c))]
      <4>1. local'[c] = Drop(local[c], Current(c))
        BY <1>k, <3>2
      <4>2. QED
        BY <1>1, <4>1, DropShrinks
    <3>3. QED
      BY <1>4, <3>1, <3>2 DEF UnlinkGone, UnlinkOld
  <2>2. QED
    BY <1>1, <1>4, <2>1, LoopTells, EmptyPassCopies, ClientCopies
<1>5. CASE UNCHANGED local /\ (StampAdd(c) \/ ReadAdd(c))
    BY <1>1, <1>5, UploadStep, SameShrinks, ClientCopies
<1>6. CASE UNCHANGED local /\ (RequestFile(c) \/ TakeFile(c))
    BY <1>1, <1>6, ArriveStep, SameShrinks, ClientCopies
<1>7. CASE SaveFile(c)
    BY <1>1, <1>7, SaveStep
<1>8. CASE SetFileTime(c)
  <2>1. CASE HasCurrent(c)
    BY <1>1, <1>8, <2>1, SetTimeStep
  <2>2. CASE ~HasCurrent(c)
    BY <1>1, <1>8, <2>2, ExitPass, SameShrinks, EmptyPassCopies, ClientCopies
       DEF SetFileTime, EmptyHanded, Tells
  <2>3. QED
    BY <2>1, <2>2
<1>9. AskTime(c) \/ CheckTimeDiff(c) \/ AskFileList(c) \/ TakeFileList(c) \/ Wake(c)
      \/ ScanNames(c) \/ ScanTime(c) \/ CompareScans(c) \/ SendDelete(c)
      \/ TakeDeleted(c) \/ AddBack(c) \/ FindAdd(c) \/ TakeAdded(c) \/ AskDeletedList(c)
      \/ TakeDeletedList(c) \/ FindGone(c) \/ FindDownload(c) \/ StampAdd(c)
      \/ ReadAdd(c) \/ RequestFile(c) \/ TakeFile(c)
      => UNCHANGED local
    BY DEF AskTime, CheckTimeDiff, AskFileList, TakeFileList, Wake, ScanNames,
           ScanTime, CompareScans, SendDelete, TakeDeleted, AddBack, FindAdd, TakeAdded,
           AskDeletedList, TakeDeletedList, FindGone, FindDownload, StampAdd,
           ReadAdd, RequestFile, TakeFile
<1>10. QED
    BY <1>2, <1>3, <1>4, <1>5, <1>6, <1>7, <1>8, <1>9 DEF ClientSteps, Synchronise
-----------------------------------------------------------------------------
(* The server's steps.                                                     *)

LEMMA ServerRests ==
    ASSUME NEW c \in Client, UNCHANGED <<clientVars, userVars>>
    PROVE  /\ UNCHANGED <<pass, Current(c)>>
           /\ \A p, f : ServerCopy(c, p, f)' <=> ServerCopy(c, p, f)
           /\ \A request : UploadCopy(c, request)' <=> UploadCopy(c, request)
BY DEF clientVars, userVars, history, Current, ServerCopy, UploadCopy, Deleted

\* A handler at work has a request whose answer is not there.
LEMMA ServerBusy ==
    ASSUME SyncInv, NEW c \in Client, Handle(c)
    PROVE  inbox[c] # <<>> /\ reply[c] = NoReply
<1>1. inbox[c] = <<>> => handler[c].pc = "idle"
    BY NothingPending
<1>2. handler[c].pc = "idle" => inbox[c] # <<>>
    BY DEF Handle, At, Resolve, SendTimeStamp, ListFiles, StatFile, SendFileList,
           FindRequested, CheckRequested, ReadRequested, TruncateFile, WriteFile,
           SetTime, CheckList, UnlinkList, RewriteList, GetServerDeletedList,
           OpenList, CheckMark, Mark, SaveMark, FindMarked, CheckMarked, UnlinkFile,
           AnswerDeleted, Overwritten, Race
<1>3. QED
    BY <1>1, <1>2, AnsweredAll

\* A step that leaves the queues alone.
LEMMA SilentStepCopies ==
    ASSUME SyncInv, NEW c \in Client, CopyInv(c), inbox[c] # <<>>, reply[c] = NoReply,
           UNCHANGED <<connVars, clientVars, userVars>>,
           ServerCopies(c)', Writes(c)'
    PROVE  CopyInv(c)'
<1>1. UploadsCopy(c)'
    BY ServerRests DEF CopyInv, UploadsCopy, Pending, connVars
<1>2. PassCopies(c)'
    BY ServerRests DEF CopyInv, PassCopies, connVars, clientVars, userVars, history,
                       Deleted
<1>3. QED
    BY <1>1, <1>2 DEF CopyInv

\* What is served in a step that stores nothing.
StoresNothing(c) ==
    /\ DOMAIN syncRoot' \subseteq DOMAIN syncRoot
    /\ \A p \in DOMAIN syncRoot' : syncRoot'[p] = syncRoot[p]
    /\ handler[c].pc \notin {"writeFile", "setTime"}
    /\ handler'[c].pc \notin {"writeFile", "setTime"}

LEMMA NothingStored ==
    ASSUME NEW c \in Client, CopyInv(c), UNCHANGED <<clientVars, userVars>>,
           StoresNothing(c)
    PROVE  ServerCopies(c)' /\ Writes(c)'
<1>1. ASSUME NEW p \in Path, NEW f \in Entry, Stored(p, f)'
      PROVE  ServerCopy(c, p, f)'
  <2>1. Stored(p, f) /\ ~Storing(c, p)
    BY <1>1 DEF Stored, StoresNothing, Storing
  <2>2. ServerCopy(c, p, f)
    BY <2>1 DEF CopyInv, ServerCopies
  <2>3. QED
    BY <2>2, ServerRests
<1>2. ServerCopies(c)'
    BY <1>1 DEF ServerCopies
<1>3. QED
    BY <1>2 DEF Writes, StoresNothing

LEMMA QuietStepCopies ==
    ASSUME SyncInv, NEW c \in Client, CopyInv(c), inbox[c] # <<>>, reply[c] = NoReply,
           UNCHANGED <<connVars, clientVars, userVars>>,
           StoresNothing(c) \/ UNCHANGED <<syncRoot, handler>>
    PROVE  CopyInv(c)'
<1>1. CASE StoresNothing(c)
    BY <1>1, NothingStored, SilentStepCopies
<1>2. CASE UNCHANGED <<syncRoot, handler>>
  <2>1. ServerCopies(c)'
    BY <1>2, ServerRests
       DEF CopyInv, ServerCopies, Stored, Storing, Requested, connVars
  <2>2. Writes(c)'
    BY <1>2 DEF CopyInv, Writes, Requested, connVars
  <2>3. QED
    BY <2>1, <2>2, SilentStepCopies
<1>3. QED
    BY <1>1, <1>2

\* An answer; the one to GetFileByPath has the file's bytes.
LEMMA AnswerCopies ==
    ASSUME SyncInv, NEW c \in Client, CopyInv(c), reply[c] = NoReply,
           handler[c].pc \notin {"idle", "writeFile", "setTime"},
           NEW response, Finish(c, response),
           Serves(handler[c].pc) = "GetFileByPath" /\ response.status = 0 =>
               IsCopy(Requested(c), response.data),
           UNCHANGED <<syncRoot, clientVars, userVars>>
    PROVE  CopyInv(c)'
<1>1. /\ inbox'[c] = Tail(inbox[c]) /\ handler'[c] = Idle
      /\ reply'[c] = IF waiting[c] /\ Len(inbox[c]) = 1 THEN response ELSE NoReply
    BY InboxFacts DEF Finish, Answer, SyncInv, Kinds, Workers
<1>2. handler'[c].pc = "idle"
    BY <1>1 DEF Idle
<1>3. ServerCopies(c)' /\ Writes(c)'
    BY <1>2, NothingStored DEF StoresNothing
<1>4. ASSUME NEW request, Pending(c, request)'
      PROVE  Pending(c, request)
  <2>1. PICK i \in 1 .. Len(inbox'[c]) : inbox'[c][i] = request
    BY <1>4 DEF Pending
  <2>2. i + 1 \in 1 .. Len(inbox[c]) /\ inbox'[c][i] = inbox[c][i + 1]
    BY <1>1, <2>1, InboxFacts, RestOfQueue
  <2>3. QED
    BY <2>1, <2>2 DEF Pending
<1>5. UploadsCopy(c)'
    BY <1>4, ServerRests DEF CopyInv, UploadsCopy
<1>6. ASSUME pass[c].pc = "awaitFile", reply'[c] # NoReply, reply'[c].status = 0
      PROVE  IsCopy(Current(c), reply'[c].data)
  <2>1. waiting[c] /\ Len(inbox[c]) = 1 /\ reply'[c] = response
    BY <1>1, <1>6
  <2>2. Expects(c, inbox[c][Len(inbox[c])])
    BY <2>1 DEF SyncInv, Talk
  <2>3. Head(inbox[c]) = inbox[c][1]
    BY InboxFacts, RestOfQueue
  <2>4. Head(inbox[c]).type = "GetFileByPath" /\ Requested(c) = Current(c)
    BY <1>6, <2>1, <2>2, <2>3 DEF Expects, Fits, Requested
  <2>5. Serves(handler[c].pc) = "GetFileByPath"
    BY <2>4, Serving
  <2>6. QED
    BY <1>6, <2>1, <2>4, <2>5
<1>7. inbox[c] # <<>>
    BY InboxFacts
<1>8. PassCopies(c)'
  <2>1. pass[c].pc \notin {"save", "setTime"}
    BY <1>7 DEF CopyInv, PassCopies
  <2>2. QED
    BY <1>6, <2>1, ServerRests
       DEF CopyInv, PassCopies, IsCopy, clientVars, userVars, history, Deleted
<1>9. QED
    BY <1>3, <1>5, <1>8 DEF CopyInv

\* An upload: the file is truncated, written, and gets its time.
LEMMA UploadCopies ==
    ASSUME SyncInv, NEW c \in Client, CopyInv(c), inbox[c] # <<>>, reply[c] = NoReply,
           UNCHANGED <<connVars, clientVars, userVars>>,
           TruncateFile(c) \/ WriteFile(c) \/ (SetTime(c) /\ Exists(c))
    PROVE  CopyInv(c)'
<1>k. /\ handler \in [Client -> Worker] /\ syncRoot \in Dir
      /\ inbox' = inbox /\ UNCHANGED Requested(c)
      /\ Writes(c) /\ ServerCopies(c) /\ UploadsCopy(c)
    BY DEF SyncInv, Kinds, Workers, connVars, Requested, CopyInv
<1>1. ASSUME \/ \E f : syncRoot' = Put(syncRoot, Requested(c), f)
             \/ syncRoot' = [syncRoot EXCEPT ![Requested(c)].ts = Head(inbox[c]).ts],
             \A f \in Entry :
                 Stored(Requested(c), f)' => \/ Storing(c, Requested(c))'
                                             \/ ServerCopy(c, Requested(c), f)
      PROVE  ServerCopies(c)'
  <2>1. ASSUME NEW p \in Path, NEW f \in Entry, Stored(p, f)', p # Requested(c)
        PROVE  ServerCopy(c, p, f)
    <3>1. Stored(p, f) /\ ~Storing(c, p)
      BY <1>1, <2>1 DEF Stored, Put, Storing
    <3>2. QED
      BY <1>k, <3>1 DEF ServerCopies
  <2>2. ASSUME NEW p \in Path, NEW f \in Entry, Stored(p, f)'
        PROVE  Storing(c, p)' \/ ServerCopy(c, p, f)'
    <3>1. CASE p = Requested(c)
      BY <1>1, <1>k, <2>2, <3>1, ServerRests DEF Storing
    <3>2. CASE p # Requested(c)
      BY <2>1, <2>2, <3>2, ServerRests
    <3>3. QED
      BY <3>1, <3>2
  <2>3. QED
    BY <2>2 DEF ServerCopies
<1>2. CASE TruncateFile(c)
  <2>1. /\ handler'[c].pc = "writeFile" /\ handler'[c].linked
        /\ syncRoot' = Put(syncRoot, Requested(c), [ts |-> now, data |-> Torn])
    BY <1>2, <1>k DEF TruncateFile, Worker
  <2>2. Storing(c, Requested(c))'
    BY <1>k, <2>1 DEF Storing
  <2>3. ServerCopies(c)'
    BY <1>1, <2>1, <2>2
  <2>4. Writes(c)'
    BY <1>k, <2>1 DEF Writes, Put
  <2>5. QED
    BY <2>3, <2>4, SilentStepCopies
<1>3. CASE WriteFile(c)
  <2>1. /\ handler[c].linked /\ Requested(c) \in DOMAIN syncRoot
        /\ syncRoot[Requested(c)].data = Torn
    BY <1>3, <1>k DEF WriteFile, At, Writes
  <2>2. syncRoot' = Put(syncRoot, Requested(c), [ts |-> now, data |-> Head(inbox[c]).data])
    BY <1>3, <2>1 DEF WriteFile
  <2>3. handler'[c].pc = "setTime"
    BY <1>3, <1>k DEF WriteFile, Goto, Worker
  <2>4. Storing(c, Requested(c))'
    BY <1>k, <2>3 DEF Storing
  <2>5. ServerCopies(c)'
    BY <1>1, <2>2, <2>4
  <2>6. Writes(c)'
    BY <1>k, <2>2, <2>3 DEF Writes, Put
  <2>7. QED
    BY <2>5, <2>6, SilentStepCopies
<1>4. CASE SetTime(c) /\ Exists(c)
  <2>1. /\ syncRoot' = [syncRoot EXCEPT ![Requested(c)].ts = Head(inbox[c]).ts]
        /\ handler'[c].pc = "checkList"
    BY <1>4, <1>k DEF SetTime, Goto, Worker
  <2>2. syncRoot[Requested(c)].data = Head(inbox[c]).data
    BY <1>4, <1>k DEF SetTime, At, Writes
  <2>3. UploadCopy(c, Head(inbox[c]))
    <3>1. Head(inbox[c]).type = "SendFileToServer" /\ Head(inbox[c]) \in Asked
      BY <1>4, Serving, ServesTable DEF SetTime, At
    <3>2. Pending(c, Head(inbox[c]))
      BY InboxFacts, RestOfQueue DEF Pending
    <3>3. QED
      BY <1>k, <3>1, <3>2 DEF UploadsCopy
  <2>4. ASSUME NEW f \in Entry, Stored(Requested(c), f)'
        PROVE  ServerCopy(c, Requested(c), f)
    <3>1. f.ts = Head(inbox[c]).ts /\ f.data = Head(inbox[c]).data
      BY <1>4, <1>k, <2>1, <2>2, <2>4, DirFacts DEF Stored, Exists, Entry
    <3>2. QED
      BY <2>3, <3>1 DEF UploadCopy, ServerCopy, Requested
  <2>5. ServerCopies(c)'
    BY <1>1, <2>1, <2>4
  <2>6. Writes(c)'
    BY <2>1 DEF Writes
  <2>7. QED
    BY <2>5, <2>6, SilentStepCopies
<1>5. QED
    BY <1>2, <1>3, <1>4

LEMMA ServerKeepsCopies ==
    ASSUME SyncInv, NEW c \in Client, CopyInv(c), ServerSteps(c)
    PROVE  CopyInv(c)'
<1> USE DEF At
<1>u. /\ UNCHANGED <<clientVars, userVars>> /\ Handle(c)
      /\ inbox[c] # <<>> /\ reply[c] = NoReply
    BY ServerBusy DEF ServerSteps
<1>k. handler \in [Client -> Worker] /\ Head(inbox[c]) \in Asked
    BY <1>u, InboxFacts, RestOfQueue DEF SyncInv, Kinds, Workers
<1>a. ASSUME NEW reason, Abort(reason)
      PROVE  CopyInv(c)'
    BY <1>a, <1>u, QuietStepCopies DEF Abort, store
<1>r. ASSUME handler[c].pc \notin {"idle", "writeFile", "setTime"}, NEW response,
             Serves(handler[c].pc) = "GetFileByPath" /\ response.status = 0 =>
                 IsCopy(Requested(c), response.data),
             Finish(c, response), UNCHANGED syncRoot
      PROVE  CopyInv(c)'
    BY <1>r, <1>u, AnswerCopies
<1>q. ASSUME handler[c].pc \notin {"writeFile", "setTime"},
             handler'[c].pc \notin {"writeFile", "setTime"},
             UNCHANGED <<syncRoot, connVars>>
      PROVE  CopyInv(c)'
    BY <1>q, <1>u, QuietStepCopies DEF StoresNothing
<1>g. ASSUME NEW step, Goto(c, step)
      PROVE  handler'[c].pc = step
    BY <1>g, <1>k DEF Goto, Worker
<1>1. CASE Resolve(c)
  <2>1. Head(inbox[c]).type \notin {"writeFile", "setTime"}
    BY <1>k DEF Asked
  <2>2. QED
    BY <1>1, <1>g, <1>q, <2>1 DEF Resolve, store
<1>2. CASE SendTimeStamp(c)
    BY <1>2, <1>r, ServesTable DEF SendTimeStamp, store
<1>3. CASE ListFiles(c)
  <2>1. handler'[c].pc = "statFiles"
    BY <1>3, <1>k DEF ListFiles, Worker
  <2>2. QED
    BY <1>3, <1>q, <2>1 DEF ListFiles, store
<1>4. CASE StatFile(c)
  <2>1. CASE \E reason : Abort(reason)
    BY <1>a, <2>1
  <2>2. CASE \A reason : ~Abort(reason)
    <3>1. /\ \E p \in handler[c].names :
               handler' = [handler EXCEPT ![c].names = @ \ {p},
                  ![c].list = IF p \in DOMAIN syncRoot
                              THEN Put(@, p, syncRoot[p].ts) ELSE @]
          /\ UNCHANGED <<syncRoot, connVars>>
      BY <1>4, <2>2 DEF StatFile, store
    <3>2. handler'[c].pc = "statFiles"
      BY <1>4, <1>k, <3>1 DEF StatFile, Worker
    <3>3. QED
      BY <1>4, <1>q, <3>1, <3>2 DEF StatFile
  <2>3. QED
    BY <2>1, <2>2
<1>4s. CASE SendFileList(c)
    BY <1>4s, <1>r, ServesTable DEF SendFileList, store
<1>5. CASE FindRequested(c)
    BY <1>5, <1>g, <1>q, <1>r DEF FindRequested, store
<1>6. CASE CheckRequested(c)
  <2>1. handler'[c].pc \in {"checkFile", "readFile"}
    BY <1>6, <1>g DEF CheckRequested, Assert
  <2>2. QED
    BY <1>6, <1>q, <2>1 DEF CheckRequested, Assert, store
<1>7. CASE ReadRequested(c)
  <2>1. DEFINE d == IF Exists(c) THEN syncRoot[Requested(c)].data ELSE Torn
  <2>2. IsCopy(Requested(c), d)
    BY DEF IsCopy, Exists
  <2>3. Finish(c, [type |-> "FileFromServer", status |-> 0, data |-> d])
    BY <1>7 DEF ReadRequested
  <2>4. QED
    BY <1>7, <1>r, <2>2, <2>3 DEF ReadRequested, store
<1>8. CASE TruncateFile(c) \/ WriteFile(c)
    BY <1>8, <1>u, UploadCopies DEF TruncateFile, WriteFile
<1>10. CASE SetTime(c)
  <2>1. CASE Exists(c)
    BY <1>10, <1>u, <2>1, UploadCopies DEF SetTime
  <2>2. CASE ~Exists(c)
    BY <1>10, <1>a, <2>2 DEF SetTime
  <2>3. QED
    BY <2>1, <2>2
<1>11. CASE CheckList(c)
    BY <1>11, <1>a, <1>g, <1>q DEF CheckList
<1>12. CASE UnlinkList(c)
  <2>1. handler'[c].pc = "rewriteList"
    BY <1>12, <1>k DEF UnlinkList, GotoUnlinking, Worker
  <2>2. QED
    BY <1>12, <1>q, <2>1 DEF UnlinkList
<1>13. CASE RewriteList(c)
    BY <1>13, <1>r, ServesTable DEF RewriteList
<1>14. CASE GetServerDeletedList(c)
    BY <1>14, <1>r, ServesTable DEF GetServerDeletedList, store
<1>15. CASE OpenList(c)
  <2>1. handler'[c].pc = "checkMark"
    BY <1>15, <1>k DEF OpenList, Worker
  <2>2. QED
    BY <1>15, <1>q, <2>1 DEF OpenList
<1>16. CASE CheckMark(c) \/ Mark(c) \/ SaveMark(c) \/ Overwritten(c)
  <2>1. handler'[c].pc \in {"mark", "saveMark", "findFile"}
    BY <1>16, <1>g DEF CheckMark, Mark, SaveMark, Overwritten
  <2>2. QED
    BY <1>16, <1>q, <2>1 DEF CheckMark, Mark, SaveMark, Overwritten, store
<1>17. CASE FindMarked(c)
    BY <1>17, <1>g, <1>q, <1>r, ServesTable DEF FindMarked, store
<1>18. CASE CheckMarked(c)
  <2>1. handler'[c].pc \in {"checkGone", "unlinkFile"}
    BY <1>18, <1>g DEF CheckMarked, Assert
  <2>2. QED
    BY <1>18, <1>q, <2>1 DEF CheckMarked, Assert, store
<1>19. CASE UnlinkFile(c)
  <2>1. /\ DOMAIN syncRoot' \subseteq DOMAIN syncRoot
        /\ \A p \in DOMAIN syncRoot' : syncRoot'[p] = syncRoot[p]
    BY <1>19 DEF UnlinkFile, Drop
  <2>2. handler'[c].pc = "answerDeleted"
    BY <1>19, <1>k DEF UnlinkFile, GotoUnlinking, Worker
  <2>3. QED
    BY <1>19, <1>u, <2>1, <2>2, QuietStepCopies DEF UnlinkFile, StoresNothing
<1>20. CASE AnswerDeleted(c)
    BY <1>20, <1>r, ServesTable DEF AnswerDeleted, store
<1>21. CASE Race(c)
    BY <1>21, <1>a DEF Race
<1>22. QED
    BY <1>u, <1>1, <1>2, <1>3, <1>4, <1>4s, <1>5, <1>6, <1>7, <1>8, <1>10, <1>11, <1>12,
       <1>13, <1>14, <1>15, <1>16, <1>17, <1>18, <1>19, <1>20, <1>21
       DEF Handle
-----------------------------------------------------------------------------
(* Everything else.                                                        *)

\* A step of the clock, or one that leaves everything but the users alone.
LEMMA RestCopies ==
    ASSUME SyncInv, NEW c \in Client, CopyInv(c), Shrinks(c),
           UNCHANGED <<syncRoot, handler, connVars, pass>>
    PROVE  CopyInv(c)'
<1>1. PassCopies(c)'
  <2>1. Current(c)' = Current(c)
    BY CurrentStays
  <2>2. \A p \in DOMAIN local'[c] \cap Deleted' :
            p \in DOMAIN local[c] \cap Deleted /\ local'[c][p] = local[c][p]
    BY DEF Shrinks
  <2>3. pass[c].pc = "read" /\ Current(c) \in DOMAIN local'[c] \cap Deleted' =>
            pass[c].stamp = local'[c][Current(c)].ts
    BY <2>2 DEF CopyInv, PassCopies
  <2>4. QED
    BY <2>1, <2>3 DEF CopyInv, PassCopies, IsCopy, connVars
<1>2. QED
    BY <1>1, ClientCopies DEF Tells

\* A user writes what nobody deleted, in a second of its own: no other file
\* has that time.
LEMMA WriteCopies ==
    ASSUME SyncInv, NEW c \in Client, LeadInv(c), CopyInv(c), NEW q \in Path \ Deleted,
           UserWrite(c, q), edited < now
    PROVE  CopyInv(c)'
<1>k. /\ now \in Nat /\ edited \in Nat /\ local \in [Client -> Dir]
      /\ EditsLead(c)
    BY TimeFacts DEF SyncInv, Kinds, LeadInv, EditsLead
<1>1. UNCHANGED <<syncRoot, handler, connVars, pass, Deleted>>
    BY DEF UserWrite, serverVars, store, Deleted
<1>2. PICK f \in [ts : {now}, data : Nat] : local'[c] = Put(local[c], q, f)
  <2>1. spent["edits"] + 2 \in Nat
    BY DEF SyncInv, Kinds
  <2>2. local'[c] = Put(local[c], q, [ts |-> now, data |-> spent["edits"] + 2])
    BY <1>k DEF UserWrite
  <2>3. QED
    BY <2>1, <2>2
<1>3. ASSUME NEW t \in Time, Outdated(c, q, t)
      PROVE  t # local'[c][q].ts
  <2>1. q \in DOMAIN local[c] /\ t <= local[c][q].ts /\ local[c][q].ts <= edited
    BY <1>3, <1>k DEF Outdated, EditsLead
  <2>2. t \in Nat /\ local[c][q].ts \in Nat
    BY <2>1, LocalFacts, TimeFacts
  <2>3. local'[c][q].ts = now
    BY <1>2 DEF Put
  <2>4. QED
    BY <1>k, <2>1, <2>2, <2>3
<1>4. ASSUME NEW p, p # q
      PROVE  /\ \A g : ServerCopy(c, p, g) => ServerCopy(c, p, g)'
             /\ p \in DOMAIN local'[c] <=> p \in DOMAIN local[c]
             /\ p \in DOMAIN local[c] => local'[c][p] = local[c][p]
    BY <1>1, <1>2, <1>4 DEF Put, ServerCopy
<1>5. ServerCopies(c)'
  <2>1. ASSUME NEW p \in Path, NEW g \in Entry, Stored(p, g), ~Storing(c, p)
        PROVE  ServerCopy(c, p, g)'
    <3>1. CASE p # q
      BY <1>4, <2>1, <3>1 DEF CopyInv, ServerCopies
    <3>2. CASE p = q
      <4>1. Outdated(c, q, g.ts) /\ g.ts \in Time
        BY <2>1, <3>2 DEF LeadInv, ServerFollows, Stored, Entry
      <4>2. QED
        BY <1>1, <1>3, <3>2, <4>1 DEF ServerCopy
    <3>3. QED
      BY <3>1, <3>2
  <2>2. QED
    BY <1>1, <2>1 DEF ServerCopies, Stored, Storing, Requested, connVars
<1>6. UploadsCopy(c)'
  <2>1. ASSUME NEW r \in Asked, Pending(c, r), r.type = "SendFileToServer"
        PROVE  UploadCopy(c, r)'
    <3>1. UploadCopy(c, r) /\ UploadFollows(c, r) /\ r.ts \in Time
      BY <2>1 DEF CopyInv, UploadsCopy, LeadInv, MessagesFollow, Pending, Asked
    <3>2. CASE r.path # q
      BY <1>1, <1>4, <3>1, <3>2 DEF UploadCopy
    <3>3. CASE r.path = q
      <4>1. r.ts # local'[c][q].ts
        BY <1>3, <2>1, <3>1, <3>3 DEF UploadFollows
      <4>2. QED
        BY <1>1, <3>3, <4>1 DEF UploadCopy
    <3>4. QED
      BY <3>2, <3>3
  <2>2. QED
    BY <1>1, <2>1 DEF UploadsCopy, Pending, connVars
<1>7. Writes(c)'
    BY <1>1 DEF CopyInv, Writes, Requested, connVars
<1>8. PassCopies(c)'
  <2>1. Current(c)' = Current(c)
    BY <1>1, CurrentStays
  <2>2. \A p \in DOMAIN local'[c] \cap Deleted' :
            p \in DOMAIN local[c] \cap Deleted /\ local'[c][p] = local[c][p]
    BY <1>1, <1>4
  <2>3. pass[c].pc = "read" /\ Current(c) \in DOMAIN local'[c] \cap Deleted' =>
            pass[c].stamp = local'[c][Current(c)].ts
    BY <2>2 DEF CopyInv, PassCopies
  <2>4. QED
    BY <1>1, <2>1, <2>3 DEF CopyInv, PassCopies, IsCopy, connVars
<1>9. QED
    BY <1>5, <1>6, <1>7, <1>8 DEF CopyInv

LEMMA DeleteCopies ==
    ASSUME SyncInv, NEW c \in Client, CopyInv(c), NEW q \in Path, UserDelete(c, q)
    PROVE  CopyInv(c)'
<1>1. UNCHANGED <<syncRoot, handler, connVars, pass>>
    BY DEF UserDelete, serverVars, store
<1>2. local'[c] = Drop(local[c], q) /\ Deleted \subseteq Deleted' /\ Deleted' \subseteq Deleted \cup {q}
    BY DEF UserDelete, SyncInv, Kinds, Deleted
<1>3. Shrinks(c)
    BY <1>2 DEF Shrinks, Drop
<1>4. QED
    BY <1>1, <1>3, RestCopies

\* A client that gives up, is killed, or starts again.
LEMMA FaultCopies ==
    ASSUME SyncInv, NEW c \in Client, LeadInv(c), CopyInv(c),
           TimesOut(c) \/ IsKilled(c) \/ StartsAgain(c)
    PROVE  CopyInv(c)'
<1>1. UNCHANGED <<syncRoot, handler, now, deleted>>
    BY DEF TimesOut, IsKilled, StartsAgain, serverVars, store, history
<1>k. pass \in [Client -> Passes] /\ local \in [Client -> Dir]
    BY PassKinds DEF SyncInv, Kinds
<1>2. EmptyHanded(c)' /\ Tells(c)
  <2>1. CASE TimesOut(c)
    <3>1. pass'[c].pc \in {"addBack", "askDeleted", "closed"}
      BY <1>k, <2>1, LoopKeeps, ExitPass DEF TimesOut, NoAnswer, Passes
    <3>2. QED
      BY <2>1, <3>1 DEF TimesOut, NoAnswer, GiveUp, EmptyHanded, Tells
  <2>2. CASE IsKilled(c)
    BY <2>2, ExitPass DEF IsKilled, Crash, EmptyHanded, Tells
  <2>3. CASE StartsAgain(c)
    <3>1. pass'[c].pc = "start"
      BY <1>k, <2>3 DEF StartsAgain, Restart, NewPass
    <3>2. QED
      BY <2>3, <3>1 DEF StartsAgain, Restart, EmptyHanded, Tells
  <2>4. QED
    BY <2>1, <2>2, <2>3
<1>3. CASE UNCHANGED local
    BY <1>1, <1>2, <1>3, SameShrinks, EmptyPassCopies, ClientCopies
<1>4. CASE /\ IsKilled(c) /\ ClientAt(c, "save")
           /\ local' = [local EXCEPT ![c] =
                           Put(@, Current(c), [ts |-> now, data |-> Torn])]
  <2>1. local'[c] = Put(local[c], Current(c), [ts |-> now, data |-> Torn])
    BY <1>k, <1>4
  <2>2. Current(c) \in Deleted /\ UNCHANGED Deleted
    BY <1>1, <1>4, CurrentDeleted DEF ClientAt, LeadInv, Deleted
  <2>3. inbox[c] = <<>> /\ UNCHANGED inbox
    BY <1>4 DEF ClientAt, CopyInv, PassCopies, IsKilled, Crash, HangUp
  <2>4. QED
    BY <1>1, <1>2, <2>1, <2>2, <2>3, EmptyPassCopies, DownloadCopies
<1>5. QED
    BY <1>3, <1>4
       DEF TimesOut, NoAnswer, IsKilled, Crash, StartsAgain, Restart
-----------------------------------------------------------------------------
(* Equal times, equal contents.                                            *)

LEMMA InitCopies ==
    ASSUME SyncInv, NEW c \in Client, Remote = {}, Init
    PROVE  CopyInv(c)
<1>1. /\ syncRoot = [p \in Shared |-> [ts |-> 1, data |-> 1]]
      /\ local[c] = [p \in Shared |-> [ts |-> 1, data |-> 1]]
      /\ inbox[c] = <<>> /\ pass[c] = NewPass /\ handler[c] = Idle
    BY DEF Init, ConnInit, ClientInit, ServerInit
<1>2. ServerCopies(c)
    BY <1>1 DEF ServerCopies, ServerCopy, Stored
<1>3. UploadsCopy(c) /\ Writes(c)
    BY <1>1, NothingPending DEF UploadsCopy, Writes
<1>4. PassCopies(c)
    BY <1>1 DEF PassCopies, NewPass
<1>5. QED
    BY <1>2, <1>3, <1>4 DEF CopyInv

LEMMA NextKeepsCopies ==
    ASSUME ~Recreate, ~CoarseClock, SyncInv, NEW c \in Client, Client = {c},
           LeadInv(c), CopyInv(c), [Next]_syncVars
    PROVE  CopyInv(c)'
<1>1. CASE UNCHANGED syncVars \/ Tick \/ Reset(c)
  <2>1. UNCHANGED <<syncRoot, handler, connVars, pass, local, deleted>>
    BY <1>1 DEF syncVars, Tick, Reset, serverVars, store, clientVars, userVars, history
  <2>2. QED
    BY <2>1, SameShrinks, RestCopies
<1>2. CASE ServerSteps(c)
    BY <1>2, ServerKeepsCopies
<1>3. CASE ClientSteps(c)
    BY <1>3, ClientKeepsCopies
<1>4. CASE TimesOut(c) \/ IsKilled(c) \/ StartsAgain(c)
    BY <1>4, FaultCopies
<1>5. ASSUME NEW q \in Path, UserWrite(c, q)
      PROVE  CopyInv(c)'
  <2>1. q \notin Deleted /\ edited < now
    BY <1>5 DEF UserWrite, Deleted
  <2>2. QED
    BY <1>5, <2>1, WriteCopies
<1>6. CASE \E q \in Path : UserDelete(c, q)
    BY <1>6, DeleteCopies
<1>7. QED
    BY <1>1, <1>2, <1>3, <1>4, <1>5, <1>6 DEF Next

\* With one client, nothing at the start that the client does not have, no path
\* written again after its deletion, and no two writes of its user in the same
\* second, whatever rests with the same time on both sides has the same
\* content, or was torn by a kill: the times that client_logic.cpp compares
\* tell contents apart.
THEOREM SoleSameTimeSameContent ==
    ASSUME NEW c0, Client = {c0}, Remote = {}, ~Recreate, ~CoarseClock
    PROVE  Spec => []SameTimeSameContent
<1>0. c0 \in Client
    OBVIOUS
<1>1. SyncInv /\ Init => CopyInv(c0)
    BY <1>0, InitCopies
<1>2. SyncInv /\ LeadInv(c0) /\ CopyInv(c0) /\ [Next]_syncVars => CopyInv(c0)'
    BY <1>0, NextKeepsCopies
<1>3. SyncInv /\ CopyInv(c0) => SameTimeSameContent
  <2>1. ASSUME SyncInv, CopyInv(c0), AtRest,
               NEW p \in DOMAIN local[c0] \cap DOMAIN syncRoot,
               local[c0][p].ts = syncRoot[p].ts
        PROVE  local[c0][p].data \in {syncRoot[p].data, Torn}
    <3>1. p \in Path /\ syncRoot[p] \in Entry /\ Stored(p, syncRoot[p])
      BY <2>1, DirFacts DEF SyncInv, Kinds, Stored
    <3>2. ~Storing(c0, p)
      BY <1>0, <2>1 DEF AtRest, Storing
    <3>3. ServerCopy(c0, p, syncRoot[p])
      BY <2>1, <3>1, <3>2 DEF CopyInv, ServerCopies
    <3>4. QED
      BY <2>1, <3>3 DEF ServerCopy
  <2>2. QED
    BY <2>1 DEF SameTimeSameContent
<1>4. QED
    BY <1>1, <1>2, <1>3, LeadInvariant, PTL DEF Spec
=============================================================================
