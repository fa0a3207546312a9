----------------------------- MODULE Connection -----------------------------
(***************************************************************************)
(* The request/response channel between a client and the server, as        *)
(* CommunicationManager offers it: the server takes requests in the order  *)
(* they were sent (receiveNext), the client blocks for the answer to its   *)
(* newest request (receiveBlocking) and may give up on it, even while the  *)
(* answer is on its way.  The answer to a request the client gave up on    *)
(* carries an id nobody asks for any more; it is dropped here.             *)
(***************************************************************************)
EXTENDS Naturals, Sequences

CONSTANT Client    \* the clients; each has one connection and one handler

VARIABLES
    inbox,      \* inbox[c]: requests of c the server has not answered yet
    waiting,    \* waiting[c]: c is blocked on its newest request
    reply       \* reply[c]: the answer c can take, or NoReply

connVars == <<inbox, waiting, reply>>

NoReply == [type |-> "None"]

ConnInit ==
    /\ inbox = [c \in Client |-> <<>>]
    /\ waiting = [c \in Client |-> FALSE]
    /\ reply = [c \in Client |-> NoReply]

Send(c, request) ==
    /\ inbox' = [inbox EXCEPT ![c] = Append(@, request)]
    /\ waiting' = [waiting EXCEPT ![c] = TRUE]
    /\ UNCHANGED reply

Arrived(c) == waiting[c] /\ reply[c] # NoReply

Receive(c) ==
    /\ Arrived(c)
    /\ waiting' = [waiting EXCEPT ![c] = FALSE]
    /\ reply' = [reply EXCEPT ![c] = NoReply]
    /\ UNCHANGED inbox

\* The client's process is gone, and with it what it waited for.
HangUp(c) ==
    /\ waiting' = [waiting EXCEPT ![c] = FALSE]
    /\ reply' = [reply EXCEPT ![c] = NoReply]
    /\ UNCHANGED inbox

\* receiveBlocking returns nullptr: no answer came within the timeout, or it
\* is not there yet.
GiveUp(c) == waiting[c] /\ HangUp(c)

\* The server answers the oldest request of c.
Answer(c, response) ==
    /\ inbox' = [inbox EXCEPT ![c] = Tail(@)]
    /\ reply' = [reply EXCEPT ![c] =
                    IF waiting[c] /\ Len(inbox[c]) = 1 THEN response ELSE @]
    /\ UNCHANGED waiting
=============================================================================
