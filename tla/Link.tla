-------------------------------- MODULE Link --------------------------------
(***************************************************************************)
(* One connection in detail: at each end a CommunicationManager over a     *)
(* ClientSocketManager, whose sending and receiving threads share a byte   *)
(* vector or a message queue with the thread that uses them, and the       *)
(* socket between them, which delivers bytes in order and in pieces of its *)
(* own choice.  The user of the client's end is ClientLogic, that of the   *)
(* server's end a ClientHandler.                                           *)
(*                                                                         *)
(* The client's socket blocks, so one that is full makes its sender wait.  *)
(* The server's does not: the send fails, and the message is sent again    *)
(* from its start although the peer may have a part of it (SendFails).     *)
(*                                                                         *)
(* Simplifications: a message is HeaderSize pieces of header and a payload *)
(* of PayloadSize pieces; a piece is what send and recv never split.  Of   *)
(* the data races only those that may touch freed memory are modelled, and *)
(* all that such a race can do, down to other contents of the vector, is   *)
(* the end of what is claimed here (status "race").                        *)
(***************************************************************************)
EXTENDS Naturals, SequencesExt

CONSTANTS
    PayloadSize,    \* PayloadSize[e]: of the messages that end e sends
    Room,           \* Room[e]: pieces the socket takes from e at a time
    MaxSends,       \* bound: the requests the client sends
    MaxRepeats      \* bound: sends that fail half-way

End == {"client", "server"}

ASSUME LinkAssumption ==
    /\ PayloadSize \in [End -> Nat]
    /\ Room \in [End -> Nat \ {0}]
    /\ MaxSends \in Nat
    /\ MaxRepeats \in Nat

VARIABLES
    status,     \* "running", or what ended a process
    out,        \* out[e]: mOutgoingBuffer
    sender,     \* sender[e]: where the sending thread is, and what it has sent
                \* of the first message in its present attempt
    wire,       \* wire[e]: pieces on their way from e
    chunk,      \* chunk[e]: pieces the receiving thread of e holds
    buffer,     \* buffer[e]: mIncomingBuffer
    mIncoming,  \* mIncoming[e]: the messages of CommunicationManager
    mStop,      \* the ends that are told to stop
    currentID,  \* the id of the client's newest request
    waiting,    \* does the client wait for the answer to it?
    serving,    \* the request the handler works on, as a sequence
    repeats     \* how many messages were begun anew after a part of them

userVars == <<currentID, waiting, serving>>
linkVars == <<status, out, sender, wire, chunk, buffer, mIncoming, mStop,
              userVars, repeats>>

Peer(e) == IF e = "client" THEN "server" ELSE "client"

HeaderSize == 2

Size(e) == HeaderSize + PayloadSize[e]

Pieces(e, id) == [i \in 1 .. Size(e) |-> [id |-> id, at |-> i]]

Running(e) == status = "running" /\ e \notin mStop

-----------------------------------------------------------------------------
\* CommunicationManager::send and ClientSocketManager::push, which waits for
\* the sending thread to leave the socket.
Push(e, id) ==
    /\ Running(e)
    /\ sender[e].pc # "send"
    /\ out' = [out EXCEPT ![e] = Append(@, id)]

\* Mutation: the sending thread does not look whether there is a message.
LookBlindly(e) ==
    /\ Running(e)
    /\ sender[e].pc = "look"
    /\ sender' = [sender EXCEPT ![e] = [pc |-> "send", sent |-> 0]]
    /\ UNCHANGED <<status, out, wire, chunk, buffer, mIncoming, mStop,
                   userVars, repeats>>

\* The sending thread finds a message and locks the queue.
Look(e) ==
    /\ Running(e)
    /\ sender[e].pc = "look"
    /\ out[e] # <<>>
    /\ sender' = [sender EXCEPT ![e] = [pc |-> "send", sent |-> 0]]
    /\ UNCHANGED <<status, out, wire, chunk, buffer, mIncoming, mStop,
                   userVars, repeats>>

\* Mutation: a message is sent in one go or not at all.
SendWhole(e) ==
    /\ status = "running"
    /\ sender[e].pc = "send"
    /\ Len(wire[e]) + Size(e) <= Room[e]
    /\ wire' = [wire EXCEPT ![e] = @ \o Pieces(e, Head(out[e]))]
    /\ sender' = [sender EXCEPT ![e] = [pc |-> "erase", sent |-> Size(e)]]
    /\ UNCHANGED <<status, out, chunk, buffer, mIncoming, mStop, userVars,
                   repeats>>

\* Mutation: each round sends the bytes from the start of the message.
SendFromStart(e) ==
    /\ status = "running"
    /\ sender[e].pc = "send"
    /\ \E n \in 1 .. Size(e) - sender[e].sent :
          /\ Len(wire[e]) + n <= Room[e]
          /\ LET all == sender[e].sent + n
             IN  /\ wire' = [wire EXCEPT ![e] =
                       @ \o SubSeq(Pieces(e, Head(out[e])), 1, n)]
                 /\ sender' = [sender EXCEPT ![e] =
                       [pc |-> IF all = Size(e) THEN "erase" ELSE "send",
                        sent |-> all]]
    /\ UNCHANGED <<status, out, chunk, buffer, mIncoming, mStop, userVars,
                   repeats>>

\* A round of sendAll: the socket takes as much as it has room for.
Send(e) ==
    /\ status = "running"
    /\ sender[e].pc = "send"
    /\ \E n \in 1 .. Size(e) - sender[e].sent :
          /\ Len(wire[e]) + n <= Room[e]
          /\ LET all == sender[e].sent + n
             IN  /\ wire' = [wire EXCEPT ![e] =
                       @ \o SubSeq(Pieces(e, Head(out[e])), sender[e].sent + 1, all)]
                 /\ sender' = [sender EXCEPT ![e] =
                       [pc |-> IF all = Size(e) THEN "erase" ELSE "send",
                        sent |-> all]]
    /\ UNCHANGED <<status, out, chunk, buffer, mIncoming, mStop, userVars,
                   repeats>>

\* A send of the server's end fails at a full socket: sendAll returns false,
\* and the message stays first in the queue, to be sent from its start.
SendFails ==
    /\ status = "running"
    /\ sender["server"].pc = "send"
    /\ Len(wire["server"]) = Room["server"]
    /\ sender' = [sender EXCEPT !["server"] = [pc |-> "look", sent |-> 0]]
    /\ \/ sender["server"].sent = 0 /\ UNCHANGED repeats
       \/ /\ sender["server"].sent > 0
          /\ repeats < MaxRepeats
          /\ repeats' = repeats + 1
    /\ UNCHANGED <<status, out, wire, chunk, buffer, mIncoming, mStop,
                   userVars>>

\* Mutation: the newest message is erased.
EraseLast(e) ==
    /\ status = "running"
    /\ sender[e].pc = "erase"
    /\ out' = [out EXCEPT ![e] = Front(@)]
    /\ sender' = [sender EXCEPT ![e] = [pc |-> "look", sent |-> 0]]
    /\ UNCHANGED <<status, wire, chunk, buffer, mIncoming, mStop, userVars,
                   repeats>>

\* The message is erased, without the lock.
Erase(e) ==
    /\ status = "running"
    /\ sender[e].pc = "erase"
    /\ out' = [out EXCEPT ![e] = Tail(@)]
    /\ sender' = [sender EXCEPT ![e] = [pc |-> "look", sent |-> 0]]
    /\ UNCHANGED <<status, wire, chunk, buffer, mIncoming, mStop, userVars,
                   repeats>>

\* The receiving thread takes what has arrived,
Receive(e) ==
    /\ Running(e)
    /\ chunk[e] = <<>>
    /\ \E n \in 1 .. Len(wire[Peer(e)]) :
          /\ chunk' = [chunk EXCEPT ![e] = SubSeq(wire[Peer(e)], 1, n)]
          /\ wire' = [wire EXCEPT ![Peer(e)] = SubSeq(@, n + 1, Len(@))]
    /\ UNCHANGED <<status, out, sender, buffer, mIncoming, mStop, userVars,
                   repeats>>

\* and inserts it, without the lock.
Insert(e) ==
    /\ status = "running"
    /\ chunk[e] # <<>>
    /\ buffer' = [buffer EXCEPT ![e] = @ \o chunk[e]]
    /\ chunk' = [chunk EXCEPT ![e] = <<>>]
    /\ UNCHANGED <<status, out, sender, wire, mIncoming, mStop, userVars,
                   repeats>>

Stop(e) ==
    /\ Running(e)
    /\ IF e = "client" THEN ~waiting ELSE serving = <<>>
    /\ mStop' = mStop \cup {e}
    /\ UNCHANGED <<status, out, sender, wire, chunk, buffer, mIncoming,
                   userVars, repeats>>
-----------------------------------------------------------------------------
\* Mutation: a header is taken for a message.
HeaderArrived(e) == Len(buffer[e]) >= HeaderSize

\* ~isIncomingBufferEmpty.
MessageArrived(e) ==
    /\ Len(buffer[e]) >= HeaderSize
    /\ Len(buffer[e]) >= Size(Peer(e))

\* Does the thread that uses e ask for messages?
Asking(e) == Running(e) /\ IF e = "client" THEN waiting ELSE serving = <<>>

\* A round of refreshMessages.  A message that is not whole fails the
\* assertion of pop; pieces of a payload where a header should be have no
\* type, and fail the one of refreshMessages.
Refresh(e) ==
    /\ Asking(e)
    /\ MessageArrived(e)
    /\ LET size == Size(Peer(e))
       IN  IF Len(buffer[e]) < size \/ buffer[e][1].at # 1
           THEN /\ status' = "assertion"
                /\ UNCHANGED <<buffer, mIncoming>>
           ELSE /\ mIncoming' = [mIncoming EXCEPT ![e] = Append(@, buffer[e][1].id)]
                /\ buffer' = [buffer EXCEPT ![e] = SubSeq(@, size + 1, Len(@))]
                /\ UNCHANGED status
    /\ UNCHANGED <<out, sender, wire, chunk, mStop, userVars, repeats>>

\* A thread of one end in a vector while another one of that end makes it
\* longer or shorter: the receiving one inserts while refreshMessages reads,
\* the sending one erases while push appends.
Race(e) ==
    /\ \/ chunk[e] # <<>> /\ Asking(e)
       \/ /\ sender[e].pc = "erase" /\ Running(e)
          /\ IF e = "client" THEN ~waiting /\ currentID < MaxSends
                             ELSE serving # <<>>
    /\ status' = "race"
    /\ UNCHANGED <<out, sender, wire, chunk, buffer, mIncoming, mStop,
                   userVars, repeats>>
-----------------------------------------------------------------------------
\* ClientLogic sends a request with a new id,
Request ==
    /\ ~waiting
    /\ currentID < MaxSends
    /\ currentID' = currentID + 1
    /\ waiting' = TRUE
    /\ Push("client", currentID')
    /\ UNCHANGED <<status, sender, wire, chunk, buffer, mIncoming, mStop,
                   serving, repeats>>

\* finds the answer to it: receive,
TakeAnswer ==
    /\ Asking("client")
    /\ \E i \in DOMAIN mIncoming["client"] :
          /\ mIncoming["client"][i] = currentID
          /\ mIncoming' = [mIncoming EXCEPT !["client"] = RemoveAt(@, i)]
    /\ waiting' = FALSE
    /\ UNCHANGED <<status, out, sender, wire, chunk, buffer, mStop, currentID,
                   serving, repeats>>

\* or gives up: receiveBlocking.
GiveUp ==
    /\ Asking("client")
    /\ ~Contains(mIncoming["client"], currentID)
    /\ waiting' = FALSE
    /\ UNCHANGED <<status, out, sender, wire, chunk, buffer, mIncoming, mStop,
                   currentID, serving, repeats>>

\* Mutation: the newest request is taken.
TakeNewest ==
    /\ Asking("server")
    /\ ~MessageArrived("server")
    /\ mIncoming["server"] # <<>>
    /\ serving' = <<Last(mIncoming["server"])>>
    /\ mIncoming' = [mIncoming EXCEPT !["server"] = Front(@)]
    /\ UNCHANGED <<status, out, sender, wire, chunk, buffer, mStop, currentID,
                   waiting, repeats>>

\* A ClientHandler takes the next request: receiveNext,
TakeNext ==
    /\ Asking("server")
    /\ ~MessageArrived("server")
    /\ mIncoming["server"] # <<>>
    /\ serving' = <<Head(mIncoming["server"])>>
    /\ mIncoming' = [mIncoming EXCEPT !["server"] = Tail(@)]
    /\ UNCHANGED <<status, out, sender, wire, chunk, buffer, mStop, currentID,
                   waiting, repeats>>

\* and answers it, with the request's id.
Respond ==
    /\ serving # <<>>
    /\ Push("server", serving[1])
    /\ serving' = <<>>
    /\ UNCHANGED <<status, sender, wire, chunk, buffer, mIncoming, mStop,
                   currentID, waiting, repeats>>
-----------------------------------------------------------------------------
Init ==
    /\ status = "running"
    /\ out = [e \in End |-> <<>>]
    /\ sender = [e \in End |-> [pc |-> "look", sent |-> 0]]
    /\ wire = [e \in End |-> <<>>]
    /\ chunk = [e \in End |-> <<>>]
    /\ buffer = [e \in End |-> <<>>]
    /\ mIncoming = [e \in End |-> <<>>]
    /\ mStop = {}
    /\ currentID = 0
    /\ waiting = FALSE
    /\ serving = <<>>
    /\ repeats = 0

SendingThread(e) ==
    Look(e) \/ Send(e) \/ Erase(e) \/ (e = "server" /\ SendFails)

ReceivingThread(e) == Receive(e) \/ Insert(e)

Handler == Refresh("server") \/ TakeNext \/ Respond

Logic == Refresh("client") \/ TakeAnswer

Next ==
    \/ Handler \/ Logic \/ Request \/ GiveUp
    \/ \E e \in End :
          SendingThread(e) \/ ReceivingThread(e) \/ Stop(e) \/ Race(e)

\* The four threads of the two socket managers go on, and so do their users.
Spec ==
    /\ Init /\ [][Next]_linkVars
    /\ \A e \in End : WF_linkVars(SendingThread(e)) /\ WF_linkVars(ReceivingThread(e))
    /\ WF_linkVars(Handler) /\ WF_linkVars(Logic)
-----------------------------------------------------------------------------
\* Every variable has a value of its kind.
LinkTypeOK ==
    /\ status \in {"running", "assertion", "race"}
    /\ sender \in [End -> [pc : {"look", "send", "erase"}, sent : Nat]]
    /\ \A e \in End :
          /\ out[e] \in Seq(1 .. MaxSends)
          /\ sender[e].sent <= Size(e)
          /\ sender[e].pc # "look" => out[e] # <<>>
          /\ Len(wire[e]) <= Room[e]
          /\ mIncoming[e] \in Seq(1 .. MaxSends)
    /\ mStop \subseteq End
    /\ currentID \in 0 .. MaxSends
    /\ waiting \in BOOLEAN
    /\ serving \in Seq(1 .. MaxSends)
    /\ repeats \in 0 .. MaxRepeats

\* Are the messages to e framed?  Those to the client no longer are once one of
\* them was begun anew.
Framed(e) == e = "server" \/ repeats = 0

\* No assertion fails: pop returns a message, whose bytes begin with a type
\* (communication_manager.cpp: "Unknown message type"),
KnownType == status # "assertion"

\* as long as every message is framed.
FramedTypeKnown == Framed("client") => KnownType

\* The pieces that have left e and that its peer has not taken as messages.
Stream(e) == buffer[Peer(e)] \o chunk[Peer(e)] \o wire[e]

\* What a receiver finds first, once it is long enough, is one message from
\* its beginning to its end: messages may arrive in any pieces and several at
\* once (ClientSocketManager), and still none gets mixed with another one.
WholeMessages ==
    \A e \in End :
        Framed(e) /\ MessageArrived(e) =>
            \E id \in 1 .. MaxSends :
                SubSeq(buffer[e], 1, Size(Peer(e))) = Pieces(Peer(e), id)

\* When newest is the newest message that e was given to send: the newest one
\* of which a piece has left e, and the one that its peer takes next.
SentUpTo(e, newest) ==
    newest - Len(out[e]) + IF sender[e].sent = 0 THEN 0 ELSE 1

NextFrom(e, newest) ==
    IF Stream(e) = <<>> THEN SentUpTo(e, newest) + 1 ELSE Stream(e)[1].id

LastAnswered ==
    NextFrom("client", currentID) - 1 - Len(mIncoming["server"]) - Len(serving)

\* The pieces from e to its peer that nobody has taken as a message yet.
Unsent(e) ==
    LET all == FlattenSeq([i \in DOMAIN out[e] |-> Pieces(e, out[e][i])])
    IN  SubSeq(all, sender[e].sent + 1, Len(all))

InTransit(e) == chunk[Peer(e)] \o wire[e] \o Unsent(e)

\* What an end has sent arrives, as long as nobody stops.
Arrives ==
    \A e \in End :
        InTransit(e) # <<>> ~>
            \/ InTransit(e) = <<>>
            \/ status # "running" \/ mStop # {} \/ ~Framed(Peer(e))

\* The messages whose headers a stream holds.
HeadersIn(s) ==
    LET headers[n \in 0 .. Len(s)] ==
            IF n = 0 THEN <<>>
            ELSE IF s[n].at = 1 THEN Append(headers[n - 1], s[n].id)
            ELSE headers[n - 1]
    IN  headers[Len(s)]

\* The messages from e to its peer: a header in the stream stands for its
\* message, and of the messages in the queue all are still to be begun but the
\* one being sent.
MessagesFrom(e) ==
    HeadersIn(Stream(e))
        \o SubSeq(out[e], IF sender[e].sent = 0 THEN 1 ELSE 2, Len(out[e]))

Requests == serving \o mIncoming["server"] \o MessagesFrom("client")

Answered == Contains(mIncoming["client"] \o MessagesFrom("server"), currentID)

\* Requests are numbered by the client.  All those after the last one that was
\* answered are on their way, each once and in the order they were sent, and
\* the client will find the answer it waits for if the handler has given it.
InOrder ==
    /\ Requests = [i \in 1 .. currentID - LastAnswered |-> LastAnswered + i]
    /\ Framed("client") /\ waiting => (Answered <=> LastAnswered = currentID)

\* The connection as the other modules know it: one request after the other
\* in the order they were sent, and the answer to the newest one, with
\* whatever is between the two ends left out.
Channel == INSTANCE Connection WITH
               Client  <- {"client"},
               inbox   <- [c \in {"client"} |-> Requests],
               waiting <- [c \in {"client"} |-> waiting],
               reply   <- [c \in {"client"} |->
                              IF waiting /\ Answered
                              THEN [type |-> "Answer", id |-> currentID]
                              ELSE [type |-> "None"]]

ChannelNext ==
    \E c \in {"client"} :
        \/ Channel!Send(c, currentID + 1)
        \/ Channel!Receive(c)
        \/ Channel!GiveUp(c)
        \/ /\ Requests # <<>>
           /\ Channel!Answer(c, [type |-> "Answer", id |-> currentID])

\* The two CommunicationManagers offer what Connection says, up to the first
\* message that is begun anew: nothing is lost, repeated or reordered, and late
\* answers do no harm.
ImplementsConnection ==
    /\ Channel!ConnInit
    /\ [][Framed("client")' => ChannelNext]_(Channel!connVars)
=============================================================================
