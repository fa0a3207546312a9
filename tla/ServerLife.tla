----------------------------- MODULE ServerLife -----------------------------
(***************************************************************************)
(* The life of the server process and of its threads: main (server.cpp),   *)
(* the thread that accepts connections (ServerManager::connectingLoop),    *)
(* the ClientHandler thread of each connection, and the clients that come  *)
(* and go.  What a request does is left out: see SyncServer.               *)
(*                                                                         *)
(* A file descriptor is the identity of a connection: the lowest free one  *)
(* is taken, and it is free again some time after the handler's thread has *)
(* returned, when the sending and the receiving thread of the connection   *)
(* have let go of the socket too.                                          *)
(***************************************************************************)
EXTENDS Naturals, FiniteSets

CONSTANTS
    Conn,           \* connections; one that is over may be made again
    Descriptor,     \* file descriptors left for connections
    CleanupEvery,   \* connections between two cleanups (200 in the code)
    MaxEmpty        \* polls without a request until a handler ends (2000)

ASSUME LifeAssumption ==
    /\ IsFiniteSet(Conn)
    /\ Descriptor \subseteq Nat /\ IsFiniteSet(Descriptor)
    /\ CleanupEvery \in Nat \ {0}
    /\ MaxEmpty \in Nat \ {0}

VARIABLES
    main,               \* where the main thread is; "exited": the process ended
    state,              \* RuntimeContext::state
    messageLoopState,   \* RuntimeContext::messageLoopState
    acceptor,           \* where the accepting thread is
    fresh,              \* the connections whose handler that thread holds
    cleanupTime,
    clients,            \* ClientsManager::clients: handlers, by descriptor
    closing,            \* handlers whose destructor main has entered
    thread,             \* thread[k]: where the handler's thread is
    threadState,        \* ClientHandler::threadState
    emptyLeft,          \* maxEmptyRequests of handleLoop
    id,                 \* ClientHandler::id
    open,               \* the connections whose descriptor is not closed
    client,             \* client[k]: what the client does
    request             \* the connections with a request to be read

contextVars == <<main, state, messageLoopState>>
acceptVars == <<acceptor, fresh, cleanupTime>>
handlerVars == <<thread, threadState, emptyLeft, id, open>>
clientVars == <<client, request>>
outside == <<contextVars, acceptVars, clients, closing>>
inside == <<handlerVars, clientVars>>
lifeVars == <<outside, inside>>

ServerState == {"PENDING", "RUNNING", "CLOSED"}

Alive == main \notin {"done", "exited"}

Free == Descriptor \ {id[k] : k \in open}

Main(from, to) == main = from /\ main' = to

Acceptor(from, to) == Alive /\ acceptor = from /\ acceptor' = to

Thread(k, from, to) ==
    /\ Alive
    /\ thread[k] = from
    /\ thread' = [thread EXCEPT ![k] = to]

-----------------------------------------------------------------------------
\* ServerManager::start; the new thread has not run yet.
Start ==
    /\ Main("start", "commands")
    /\ state' = "RUNNING"
    /\ acceptor' = "begin"
    /\ UNCHANGED <<messageLoopState, fresh, cleanupTime, clients, closing,
                   inside>>

\* checkForExitCommand returns.
Quit ==
    /\ Main("commands", "close")
    /\ UNCHANGED <<state, messageLoopState, acceptVars, clients, closing,
                   inside>>

\* ServerManager::close: RuntimeContext::close,
Close ==
    /\ Main("close", "await")
    /\ state' = "CLOSED"
    /\ UNCHANGED <<messageLoopState, acceptVars, clients, closing, inside>>

\* Mutation: no wait.
AwaitNothing ==
    /\ Main("await", "disconnect")
    /\ UNCHANGED <<state, messageLoopState, acceptVars, clients, closing,
                   inside>>

\* the wait for the accepting thread,
Await ==
    /\ messageLoopState # "RUNNING"
    /\ Main("await", "disconnect")
    /\ UNCHANGED <<state, messageLoopState, acceptVars, clients, closing,
                   inside>>

\* and disconectAll: ~ClientHandler of one handler after the other,
Disconnect(k) ==
    /\ Main("disconnect", "disconnect")
    /\ closing = {}
    /\ k \in clients
    /\ closing' = {k}
    /\ threadState' = [threadState EXCEPT ![k] = "CLOSED"]
    /\ UNCHANGED <<state, messageLoopState, acceptVars, clients, thread,
                   emptyLeft, id, open, clientVars>>

\* which joins its thread.
Join(k) ==
    /\ Main("disconnect", "disconnect")
    /\ k \in closing
    /\ thread[k] = "returned"
    /\ closing' = {}
    /\ clients' = clients \ {k}
    /\ UNCHANGED <<state, messageLoopState, acceptVars, inside>>

\* main returns, which ends every thread.
Rest ==
    /\ Main("disconnect", "done")
    /\ clients = {}
    /\ UNCHANGED <<state, messageLoopState, acceptVars, clients, closing,
                   inside>>
-----------------------------------------------------------------------------
\* connectingLoop.
Begin ==
    /\ Acceptor("begin", "check")
    /\ messageLoopState' = "RUNNING"
    /\ UNCHANGED <<main, state, fresh, cleanupTime, clients, closing, inside>>

Check ==
    /\ Acceptor("check", IF state = "RUNNING" THEN "accept" ELSE "end")
    /\ UNCHANGED <<contextVars, fresh, cleanupTime, clients, closing, inside>>

End ==
    /\ Acceptor("end", "ended")
    /\ messageLoopState' = "CLOSED"
    /\ UNCHANGED <<main, state, fresh, cleanupTime, clients, closing, inside>>

Queued == {k \in Conn : thread[k] = "queued"}

\* accept finds a connection, and ClientHandler starts a thread for it.
Accept(k) ==
    /\ Acceptor("accept", "add")
    /\ k \in Queued
    /\ fresh' = {k}
    /\ \E d \in Free :
          /\ \A e \in Free : d <= e
          /\ id' = [id EXCEPT ![k] = d]
    /\ open' = open \cup {k}
    /\ thread' = [thread EXCEPT ![k] = "begin"]
    /\ threadState' = [threadState EXCEPT ![k] = "PENDING"]
    /\ UNCHANGED <<contextVars, cleanupTime, clients, closing, emptyLeft,
                   clientVars>>

\* accept returns -1.
NoneToAccept ==
    /\ Acceptor("accept", "check")
    /\ Queued = {} \/ Free = {}
    /\ UNCHANGED <<contextVars, fresh, cleanupTime, clients, closing, inside>>

\* ClientsManager::AddClient; a handler that is not inserted is destroyed.
Add(k) ==
    /\ k \in fresh
    /\ \/ /\ Acceptor("add", "count")
          /\ \A d \in clients : id[d] # id[k]
          /\ clients' = clients \cup {k}
          /\ fresh' = {}
          /\ UNCHANGED threadState
       \/ /\ Acceptor("add", "join")
          /\ \E d \in clients : id[d] = id[k]
          /\ threadState' = [threadState EXCEPT ![k] = "CLOSED"]
          /\ UNCHANGED <<fresh, clients>>
    /\ UNCHANGED <<contextVars, cleanupTime, closing, thread, emptyLeft, id,
                   open, clientVars>>

JoinFresh(k) ==
    /\ Acceptor("join", "count")
    /\ k \in fresh
    /\ thread[k] = "returned"
    /\ fresh' = {}
    /\ UNCHANGED <<contextVars, cleanupTime, clients, closing, inside>>

\* Mutation: --cleanupTime after the test instead of before it.
CountLate ==
    /\ Acceptor("count", "accept")
    /\ IF cleanupTime = 0
       THEN /\ cleanupTime' = CleanupEvery
            /\ clients' = {k \in clients : threadState[k] # "CLOSED"}
       ELSE /\ cleanupTime' = cleanupTime - 1
            /\ UNCHANGED clients
    /\ UNCHANGED <<contextVars, fresh, closing, inside>>

\* ClientsManager::cleanup, every now and then.  What it joins has returned.
Count ==
    /\ Acceptor("count", "accept")
    /\ IF cleanupTime = 1
       THEN /\ cleanupTime' = CleanupEvery
            /\ clients' = {k \in clients : threadState[k] # "CLOSED"}
       ELSE /\ cleanupTime' = cleanupTime - 1
            /\ UNCHANGED clients
    /\ UNCHANGED <<contextVars, fresh, closing, inside>>
-----------------------------------------------------------------------------
\* Mutation: the handler's thread does not look whether it is closed already.
EnterUnchecked(k) ==
    /\ Thread(k, "begin", "poll")
    /\ threadState' = [threadState EXCEPT ![k] = "RUNNING"]
    /\ emptyLeft' = [emptyLeft EXCEPT ![k] = MaxEmpty]
    /\ UNCHANGED <<outside, id, open, clientVars>>

\* handleLoop, up to its loop.
Enter(k) ==
    /\ \/ /\ threadState[k] = "PENDING"
          /\ Thread(k, "begin", "poll")
          /\ threadState' = [threadState EXCEPT ![k] = "RUNNING"]
          /\ emptyLeft' = [emptyLeft EXCEPT ![k] = MaxEmpty]
       \/ /\ threadState[k] # "PENDING"
          /\ Thread(k, "begin", "returned")
          /\ UNCHANGED <<threadState, emptyLeft>>
    /\ UNCHANGED <<outside, id, open, clientVars>>

\* A request is there;
Take(k) ==
    /\ threadState[k] = "RUNNING"
    /\ k \in request
    /\ Thread(k, "poll", "resolve")
    /\ request' = request \ {k}
    /\ emptyLeft' = [emptyLeft EXCEPT ![k] = MaxEmpty]
    /\ UNCHANGED <<outside, threadState, id, open, client>>

\* Mutation: every round starts to count anew.
PollForever(k) ==
    /\ threadState[k] = "RUNNING"
    /\ k \notin request
    /\ Thread(k, "poll", "poll")
    /\ emptyLeft' = [emptyLeft EXCEPT ![k] = MaxEmpty]
    /\ UNCHANGED <<outside, threadState, id, open, clientVars>>

\* or not, this time;
Poll(k) ==
    /\ threadState[k] = "RUNNING"
    /\ k \notin request
    /\ emptyLeft[k] > 1
    /\ Thread(k, "poll", "poll")
    /\ emptyLeft' = [emptyLeft EXCEPT ![k] = @ - 1]
    /\ UNCHANGED <<outside, threadState, id, open, clientVars>>

\* or not for too long, or the handler was closed.
Leave(k) ==
    /\ threadState[k] = "RUNNING" => k \notin request /\ emptyLeft[k] = 1
    /\ Thread(k, "poll", "returned")
    /\ threadState' = [threadState EXCEPT ![k] = "CLOSED"]
    /\ UNCHANGED <<outside, emptyLeft, id, open, clientVars>>

\* The answer reaches the client.  One that is gone resets the connection,
\* which ends the process (ClientSocket::receive).
Resolve(k) ==
    /\ Thread(k, "resolve", "poll")
    /\ IF client[k] = "gone"
       THEN main' \in {main, "exited"} /\ UNCHANGED client
       ELSE client' = [client EXCEPT ![k] = "idle"] /\ UNCHANGED main
    /\ UNCHANGED <<state, messageLoopState, acceptVars, clients, closing,
                   threadState, emptyLeft, id, open, request>>

\* Mutation: the descriptor of a client that is gone is closed at once.
ReleaseEarly(k) ==
    /\ Alive
    /\ k \in open
    /\ client[k] = "gone"
    /\ open' = open \ {k}
    /\ UNCHANGED <<outside, thread, threadState, emptyLeft, id, clientVars>>

\* The connection's threads end after the handler's one, and the last of
\* them closes the descriptor.
Release(k) ==
    /\ Alive
    /\ k \in open
    /\ thread[k] = "returned"
    /\ open' = open \ {k}
    /\ UNCHANGED <<outside, thread, threadState, emptyLeft, id, clientVars>>
-----------------------------------------------------------------------------
\* The system connects a client as long as the process listens.
Connect(k) ==
    /\ Alive
    /\ client[k] = "away"
    /\ client' = [client EXCEPT ![k] = "idle"]
    /\ thread' = [thread EXCEPT ![k] = "queued"]
    /\ UNCHANGED <<outside, threadState, emptyLeft, id, open, request>>

Ask(k) ==
    /\ Alive
    /\ client[k] = "idle"
    /\ thread[k] = "queued" \/ k \in open
    /\ client' = [client EXCEPT ![k] = "waiting"]
    /\ request' = request \cup {k}
    /\ UNCHANGED <<outside, handlerVars>>

\* The client ends, by itself or as it waits in vain.
GoAway(k) ==
    /\ Alive
    /\ client[k] \in {"idle", "waiting"}
    /\ client' = [client EXCEPT ![k] = "gone"]
    /\ UNCHANGED <<outside, handlerVars, request>>

\* Nothing is left of a connection.
Forget(k) ==
    /\ Alive
    /\ client[k] = "gone"
    /\ thread[k] = "returned"
    /\ k \notin open \cup clients \cup fresh
    /\ client' = [client EXCEPT ![k] = "away"]
    /\ thread' = [thread EXCEPT ![k] = "none"]
    /\ threadState' = [threadState EXCEPT ![k] = "PENDING"]
    /\ emptyLeft' = [emptyLeft EXCEPT ![k] = 0]
    /\ id' = [id EXCEPT ![k] = 0]
    /\ request' = request \ {k}
    /\ UNCHANGED <<outside, open>>
-----------------------------------------------------------------------------
Init ==
    /\ main = "start"
    /\ state = "PENDING"
    /\ messageLoopState = "PENDING"
    /\ acceptor = "none"
    /\ fresh = {}
    /\ cleanupTime = CleanupEvery
    /\ clients = {}
    /\ closing = {}
    /\ thread = [k \in Conn |-> "none"]
    /\ threadState = [k \in Conn |-> "PENDING"]
    /\ emptyLeft = [k \in Conn |-> 0]
    /\ id = [k \in Conn |-> 0]
    /\ open = {}
    /\ client = [k \in Conn |-> "away"]
    /\ request = {}

MainNext ==
    \/ Start \/ Close \/ Await \/ Rest
    \/ \E k \in Conn : Disconnect(k) \/ Join(k)

AcceptorNext ==
    \/ Begin \/ Check \/ End \/ NoneToAccept \/ Count
    \/ \E k \in Conn : Accept(k) \/ Add(k) \/ JoinFresh(k)

HandlerNext(k) ==
    Enter(k) \/ Take(k) \/ Poll(k) \/ Leave(k) \/ Resolve(k) \/ Release(k)

ClientNext(k) == Connect(k) \/ Ask(k) \/ GoAway(k) \/ Forget(k)

Next ==
    \/ MainNext \/ AcceptorNext \/ Quit
    \/ \E k \in Conn : HandlerNext(k) \/ ClientNext(k)

\* Every thread goes on.  Whether the operator quits and what the clients do
\* is theirs.
Spec ==
    /\ Init /\ [][Next]_lifeVars
    /\ WF_lifeVars(MainNext)
    /\ WF_lifeVars(AcceptorNext)
    /\ \A k \in Conn : WF_lifeVars(HandlerNext(k))
-----------------------------------------------------------------------------
\* Every variable has a value of its kind.
LifeTypeOK ==
    /\ main \in {"start", "commands", "close", "await", "disconnect", "done",
                 "exited"}
    /\ state \in ServerState /\ messageLoopState \in ServerState
    /\ acceptor \in {"none", "begin", "check", "accept", "add", "join", "count",
                     "end", "ended"}
    /\ fresh \subseteq Conn /\ clients \subseteq Conn /\ closing \subseteq Conn
    /\ cleanupTime \in 1 .. CleanupEvery
    /\ thread \in [Conn -> {"none", "queued", "begin", "poll", "resolve",
                            "returned"}]
    /\ threadState \in [Conn -> ServerState]
    /\ emptyLeft \in [Conn -> 0 .. MaxEmpty]
    /\ id \in [Conn -> Descriptor \cup {0}]
    /\ open \subseteq Conn
    /\ client \in [Conn -> {"away", "idle", "waiting", "gone"}]
    /\ request \subseteq Conn

\* Once ServerManager::close has begun to disconnect the clients, nothing adds
\* another one, even if the accepting thread had not begun when close looked
\* at messageLoopState; and no handler's thread outlives main.
NoneAfterClose ==
    /\ main \in {"disconnect", "done"} =>
          acceptor \notin {"accept", "add", "join", "count"}
    /\ main = "done" =>
          \A k \in Conn : thread[k] \in {"none", "queued", "returned"}

\* AddClient turns a connection away only for a handler that has ended, never
\* for one that still serves a client.
LiveNotDisplaced ==
    acceptor = "join" =>
        \A k \in fresh, d \in clients : id[d] = id[k] => thread[d] = "returned"

\* ServerManager::close returns, unless new connections never cease.
CloseReturns ==
    []<>(acceptor = "count") \/ (main = "close" ~> ~Alive)

\* The descriptor of a client that has gone is closed in the end, by the
\* handler's count of empty polls.
GoneIsReleased ==
    \A k \in Conn : (client[k] = "gone" /\ k \in open) ~> (k \notin open \/ ~Alive)

\* README: the server serves the requests of its clients side by side.  As
\* long as it runs, it closes no handler whose client waits for its request to
\* be read (ClientsManager::AddClient).
AcceptedIsServed ==
    [][\A k \in Conn :
          /\ threadState[k] # "CLOSED" /\ threadState'[k] = "CLOSED"
          /\ client[k] = "waiting" /\ k \in request
          => state = "CLOSED"]_lifeVars
=============================================================================
