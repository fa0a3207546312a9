----------------------------- MODULE LifeProofs -----------------------------
(***************************************************************************)
(* Proofs about ServerLife, for any number of connections and descriptors: *)
(* the end of the server leaves no handler behind, although main and the   *)
(* accepting thread only talk over two flags; and a handler that serves a  *)
(* client never loses its place to another one.                            *)
(***************************************************************************)
EXTENDS ServerLife, TLAPS

Live == {"begin", "poll", "resolve"}

Accepting == {"accept", "add", "join", "count"}

\* The two flags.  Each side writes its own before it reads the other's.
Flags ==
    /\ main = "start" => acceptor = "none"
    /\ main \in {"await", "disconnect", "done"} => state = "CLOSED"
    /\ acceptor \in Accepting \cup {"check", "end"} => messageLoopState = "RUNNING"
    /\ main \in {"disconnect", "done"} => acceptor \notin Accepting

\* Every live handler is held by the list or by the accepting thread.
Held ==
    /\ \A k \in Conn : thread[k] \in Live => k \in clients \cup fresh
    /\ acceptor \notin {"add", "join"} => fresh = {}
    /\ \A j, k \in fresh : j = k
    /\ fresh \cap clients = {}
    /\ closing \subseteq clients
    /\ \A j, k \in closing : j = k
    /\ main = "done" => clients = {}
    /\ closing # {} => main \in {"disconnect", "exited"}
    /\ \A k \in clients \ closing : threadState[k] = "CLOSED" => thread[k] \notin Live
    /\ acceptor = "add" =>
          \A k \in fresh : threadState[k] = "CLOSED" => thread[k] \notin Live

\* A connection that does not exist, or waits to be accepted, has no handler.
Unborn ==
    \A k \in Conn :
        /\ client[k] = "away" => thread[k] = "none"
        /\ thread[k] \in {"none", "queued"} => k \notin clients \cup fresh \cup open

\* Live handlers have their descriptors to themselves, and the accepting
\* thread's newest one does not share it with a live one.
Apart ==
    /\ \A k \in Conn : thread[k] \in Live => k \in open
    /\ \A k \in fresh : \A d \in Conn \ {k} : thread[d] \in Live => id[d] # id[k]

LInv == LifeTypeOK /\ Flags /\ Held /\ Unborn /\ Apart

-----------------------------------------------------------------------------
\* One lemma per part of the next-state relation.
LEMMA MainKeepsLInv ==
    ASSUME LInv, MainNext \/ Quit
    PROVE  LInv'
<1> USE DEF LInv, Live, Accepting, Main, ServerState
<1> USE DEF LifeTypeOK, Flags, Held, Unborn, Apart
<1> USE DEF outside, inside, contextVars, acceptVars, handlerVars, clientVars
<1>1. CASE Start
    BY <1>1 DEF Start
<1>2. CASE Quit
    BY <1>2 DEF Quit
<1>3. CASE Close
    BY <1>3 DEF Close
<1>4. CASE Await
    BY <1>4 DEF Await
<1>5. ASSUME NEW k \in Conn, Disconnect(k) PROVE LInv'
    BY <1>5 DEF Disconnect
<1>6. ASSUME NEW k \in Conn, Join(k) PROVE LInv'
    BY <1>6 DEF Join
<1>7. CASE Rest
    BY <1>7 DEF Rest
<1>8. QED
    BY <1>1, <1>2, <1>3, <1>4, <1>5, <1>6, <1>7 DEF MainNext

LEMMA AcceptorKeepsLInv ==
    ASSUME LInv, AcceptorNext
    PROVE  LInv'
<1> USE DEF LInv, Live, Accepting, Acceptor, Alive, ServerState
<1> USE DEF LifeTypeOK, Flags, Held, Unborn, Apart
<1> USE DEF outside, inside, contextVars, acceptVars, handlerVars, clientVars
<1>1. CASE Begin
    BY <1>1 DEF Begin
<1>2. CASE Check
    BY <1>2 DEF Check
<1>3. CASE End
    BY <1>3 DEF End
<1>4. CASE NoneToAccept
    BY <1>4 DEF NoneToAccept
<1>5. CASE Count
    BY <1>5, LifeAssumption DEF Count
<1>6. ASSUME NEW k \in Conn, Accept(k) PROVE LInv'
  <2>1. PICK fd \in Descriptor :
            /\ \A d \in open : id[d] # fd
            /\ id' = [id EXCEPT ![k] = fd]
    <3>1. PICK fd \in Free : id' = [id EXCEPT ![k] = fd]
        BY <1>6 DEF Accept
    <3>2. fd \in Descriptor /\ fd \notin {id[d] : d \in open}
        BY <3>1 DEF Free
    <3>3. \A d \in open : id[d] # fd
        BY <3>2
    <3>4. QED
        BY <3>1, <3>2, <3>3
  <2>2. QED
    BY <1>6, <2>1 DEF Accept, Queued
<1>7. ASSUME NEW k \in Conn, Add(k) PROVE LInv'
    BY <1>7 DEF Add
<1>8. ASSUME NEW k \in Conn, JoinFresh(k) PROVE LInv'
    BY <1>8 DEF JoinFresh
<1>9. QED
    BY <1>1, <1>2, <1>3, <1>4, <1>5, <1>6, <1>7, <1>8 DEF AcceptorNext

LEMMA HandlerKeepsLInv ==
    ASSUME LInv, NEW k \in Conn, HandlerNext(k)
    PROVE  LInv'
<1> USE DEF LInv, Live, Accepting, Thread, Alive, ServerState
<1> USE DEF LifeTypeOK, Flags, Held, Unborn, Apart
<1> USE DEF outside, inside, contextVars, acceptVars, handlerVars, clientVars
<1>1. CASE Enter(k)
    BY <1>1, LifeAssumption DEF Enter
<1>2. CASE Take(k)
    BY <1>2, LifeAssumption DEF Take
<1>3. CASE Poll(k)
    BY <1>3, LifeAssumption DEF Poll
<1>4. CASE Leave(k)
    BY <1>4 DEF Leave
<1>5. CASE Resolve(k)
    BY <1>5 DEF Resolve
<1>6. CASE Release(k)
    BY <1>6 DEF Release
<1>7. QED
    BY <1>1, <1>2, <1>3, <1>4, <1>5, <1>6 DEF HandlerNext

LEMMA ClientKeepsLInv ==
    ASSUME LInv, NEW k \in Conn, ClientNext(k)
    PROVE  LInv'
<1> USE DEF LInv, Live, Accepting, Alive, ServerState
<1> USE DEF LifeTypeOK, Flags, Held, Unborn, Apart
<1> USE DEF outside, inside, contextVars, acceptVars, handlerVars, clientVars
<1>1. CASE Connect(k)
    BY <1>1 DEF Connect
<1>2. CASE Ask(k)
    BY <1>2 DEF Ask
<1>3. CASE GoAway(k)
    BY <1>3 DEF GoAway
<1>4. CASE Forget(k)
    BY <1>4, LifeAssumption DEF Forget
<1>5. QED
    BY <1>1, <1>2, <1>3, <1>4 DEF ClientNext

LEMMA InitLInv == Init => LInv
BY LifeAssumption DEF Init, LInv, LifeTypeOK, Flags, Held, Unborn, Apart, Live,
   Accepting, ServerState

LEMMA LifeInductive == Spec => []LInv
<1>1. ASSUME LInv, UNCHANGED lifeVars PROVE LInv'
    BY <1>1 DEF lifeVars, outside, inside, contextVars, acceptVars, handlerVars, clientVars, LInv,
       LifeTypeOK, Flags, Held, Unborn, Apart, Live, Accepting
<1>2. LInv /\ [Next]_lifeVars => LInv'
    BY <1>1, MainKeepsLInv, AcceptorKeepsLInv, HandlerKeepsLInv, ClientKeepsLInv
    DEF Next
<1>3. QED
    BY <1>2, InitLInv, PTL DEF Spec
-----------------------------------------------------------------------------
\* Every variable of the server's life keeps to its kind, with any number of
\* connections and descriptors.
THEOREM LifeTypeCorrect == Spec => []LifeTypeOK
<1>1. LInv => LifeTypeOK
    BY DEF LInv
<1>2. QED
    BY <1>1, LifeInductive, PTL

\* After ServerManager::close nothing accepts connections, and when main ends
\* no handler's thread is running.
THEOREM CloseIsFinal == Spec => []NoneAfterClose
<1>1. LInv /\ main = "done" => \A k \in Conn : thread[k] \notin Live
    BY DEF LInv, Flags, Held, Accepting
<1>2. LInv => NoneAfterClose
    BY <1>1 DEF LInv, LifeTypeOK, Flags, NoneAfterClose, Accepting, Live
<1>3. QED
    BY <1>2, LifeInductive, PTL

\* ClientsManager::AddClient drops a new handler only for one that has ended.
THEOREM LiveKeepsItsPlace == Spec => []LiveNotDisplaced
<1>1. LInv => LiveNotDisplaced
    BY DEF LInv, LifeTypeOK, Held, Unborn, Apart, LiveNotDisplaced, Live
<1>2. QED
    BY <1>1, LifeInductive, PTL
=============================================================================
