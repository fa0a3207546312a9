----------------------------- MODULE LinkProofs -----------------------------
(***************************************************************************)
(* Proofs about Link, for every size of the messages, room in the sockets  *)
(* and number of requests: what arrives are whole messages, each once and  *)
(* in the order they were sent.  That holds of the requests always, and of *)
(* the answers until a send of the server fails half-way and is repeated.  *)
(***************************************************************************)
EXTENDS Link, SequenceTheorems, WellFoundedInduction, TLAPS

-----------------------------------------------------------------------------
(* The inductive invariant.                                                *)

Id == 1 .. MaxSends

Piece == [id : Id, at : Nat]

\* The values of the variables.
LinkKinds ==
    /\ status \in {"running", "assertion", "race"}
    /\ sender \in [End -> [pc : {"look", "send", "erase"}, sent : Nat]]
    /\ out \in [End -> Seq(Id)]
    /\ mIncoming \in [End -> Seq(Id)]
    /\ buffer \in [End -> Seq(Piece)]
    /\ chunk \in [End -> Seq(Piece)]
    /\ wire \in [End -> Seq(Piece)]
    /\ \A e \in End : Len(wire[e]) <= Room[e]
    /\ mStop \subseteq End
    /\ currentID \in 0 .. MaxSends
    /\ waiting \in BOOLEAN
    /\ serving \in Seq(Id) /\ Len(serving) <= 1
    /\ repeats \in 0 .. MaxRepeats

\* Has no message from e been begun anew?
Clean(e) == e = "client" \/ repeats = 0

\* What two pieces p and q of a stream have to do with each other, q being gap
\* places after p: they belong to one message, q is the first piece of the
\* message after that of p, or q comes later.
Apart(p, q, gap, size) ==
    /\ p.id <= q.id
    /\ gap <= size - p.at => q.at = p.at + gap /\ q.id = p.id
    /\ gap = size - p.at + 1 => q.at = 1 /\ q.id = p.id + 1

\* A stream is cut into messages of one size.
InMessages(s, size) ==
    /\ \A i \in 1 .. Len(s) : s[i].at \in 1 .. size
    /\ s # <<>> => s[1].at = 1
    /\ \A i, j \in 1 .. Len(s) : i < j => Apart(s[i], s[j], j - i, size)

\* The last piece is the one that was sent last, of message id.
EndsAt(s, size, sent, id) ==
    IF s = <<>> THEN sent \in {0, size}
    ELSE /\ s[Len(s)].at = IF sent = 0 THEN size ELSE sent
         /\ s[Len(s)].id = id

\* Where the sending thread is goes with what it has sent and has to send.
SenderInStep(e) ==
    /\ sender[e].pc = "look" => sender[e].sent = 0
    /\ sender[e].pc = "send" => sender[e].sent < Size(e)
    /\ sender[e].pc = "erase" => sender[e].sent = Size(e)
    /\ sender[e].pc # "look" => out[e] # <<>>

\* newest is the last message that e was given to send: those that wait are
\* the last ones up to it.
Numbered(e, newest) ==
    /\ \A i \in 1 .. Len(out[e]) : out[e][i] = newest - Len(out[e]) + i
    /\ EndsAt(Stream(e), Size(e), sender[e].sent, SentUpTo(e, newest))
    /\ Len(out[e]) <= newest

\* What holds of the messages from e as long as none was begun anew.
Sound(e) == Clean(e) => InMessages(Stream(e), Size(e))

InTurn(e, newest) == Clean(e) => Numbered(e, newest)

\* What the server has taken follows what it has answered.
TakenInOrder ==
    /\ \A i \in 1 .. Len(mIncoming["server"]) :
          mIncoming["server"][i] = LastAnswered + Len(serving) + i
    /\ \A i \in 1 .. Len(serving) : serving[i] = LastAnswered + i
    /\ LastAnswered \in Nat

\* The client has no answer twice.
AnswersInOrder ==
    \A i \in 1 .. Len(mIncoming["client"]) :
        /\ mIncoming["client"][i] < NextFrom("server", LastAnswered)
        /\ \A j \in 1 .. i - 1 : mIncoming["client"][j] < mIncoming["client"][i]

LinkInv ==
    /\ LinkKinds
    /\ \A e \in End : Sound(e) /\ SenderInStep(e)
    /\ InTurn("client", currentID)
    /\ InTurn("server", LastAnswered)
    /\ TakenInOrder
    /\ Clean("server") => AnswersInOrder /\ status # "assertion"

\* The answer that the client takes next from the connection.
NextAnswer == NextFrom("server", LastAnswered)
-----------------------------------------------------------------------------
(* Streams of pieces.                                                      *)

\* t is the n pieces of message id that follow the first sent ones.
GoesOn(t, id, sent, n) ==
    /\ Len(t) = n
    /\ \A k \in 1 .. n : t[k].id = id /\ t[k].at = sent + k

\* Stream s followed by them.
GoneOn(s, t, size, sent, n, id) ==
    /\ InMessages(s \o t, size)
    /\ EndsAt(s \o t, size, sent + n, id)
    /\ s \o t # <<>>
    /\ s # <<>> => (s \o t)[1] = s[1]
    /\ s = <<>> => sent = 0 /\ (s \o t)[1].id = id

\* A piece m places after q, which was the last one, in the message that q
\* belongs to or in the next one.
LEMMA ApartNext ==
    ASSUME NEW size \in Nat, NEW p, NEW q, NEW r, NEW gap \in Nat \ {0},
           p.at \in 1 .. size, q.at \in 1 .. size,
           p.id \in Int, q.id \in Int,
           NEW sent \in 0 .. size - 1, NEW m \in 1 .. size - sent, NEW id \in Int,
           q.at = IF sent = 0 THEN size ELSE sent,
           q.id = IF sent = 0 THEN id - 1 ELSE id,
           r.at = sent + m, r.id = id,
           Apart(p, q, gap, size)
    PROVE  Apart(p, r, gap + m, size)
BY DEF Apart

LEMMA ApartFrom ==
    ASSUME NEW size \in Nat, NEW q, NEW r,
           q.at \in 1 .. size, q.id \in Int,
           NEW sent \in 0 .. size - 1, NEW m \in 1 .. size - sent, NEW id \in Int,
           q.at = IF sent = 0 THEN size ELSE sent,
           q.id = IF sent = 0 THEN id - 1 ELSE id,
           r.at = sent + m, r.id = id
    PROVE  Apart(q, r, m, size)
BY DEF Apart

LEMMA ApartWithin ==
    ASSUME NEW size \in Nat, NEW p, NEW q,
           NEW sent \in 0 .. size - 1, NEW k \in 1 .. size - sent,
           NEW m \in 1 .. size - sent, NEW id \in Int, k < m,
           p.at = sent + k, p.id = id, q.at = sent + m, q.id = id
    PROVE  Apart(p, q, m - k, size)
BY DEF Apart

\* A stream goes on with the next pieces of the message that ended it, or with
\* the first ones of the next message.
LEMMA StreamAppend ==
    ASSUME NEW size \in Nat \ {0}, NEW s \in Seq(Piece), NEW t \in Seq(Piece),
           NEW sent \in 0 .. size - 1, NEW n \in 1 .. size - sent, NEW id \in Int,
           NEW last \in Int, last = IF sent = 0 THEN id - 1 ELSE id,
           InMessages(s, size), EndsAt(s, size, sent, last),
           GoesOn(t, id, sent, n)
    PROVE  GoneOn(s, t, size, sent, n, id)
<1>1. DEFINE w == s \o t
             l == Len(s)
<1>2. /\ w \in Seq(Piece) /\ Len(w) = l + n /\ l \in Nat
      /\ \A i \in 1 .. l : w[i] = s[i]
      /\ \A k \in 1 .. n : w[l + k] = t[k]
  <2>1. /\ w \in Seq(Piece) /\ Len(w) = l + n /\ l \in Nat
        /\ \A i \in 1 .. l + n : w[i] = IF i <= l THEN s[i] ELSE t[i - l]
    <3>1. Len(t) = n
      BY DEF GoesOn
    <3>2. QED
      BY <3>1, ConcatProperties
  <2>2. HIDE DEF w, l
  <2>3. ASSUME NEW i \in 1 .. l PROVE w[i] = s[i]
    <3>1. i \in 1 .. l + n /\ i <= l
      BY <2>1, <2>3
    <3>2. QED
      BY <2>1, <3>1
  <2>4. ASSUME NEW k \in 1 .. n PROVE w[l + k] = t[k]
    <3>1. l + k \in 1 .. l + n /\ ~(l + k <= l) /\ (l + k) - l = k
      BY <2>1, <2>4
    <3>2. QED
      BY <2>1, <3>1
  <2>5. QED
    BY <2>1, <2>3, <2>4
<1>3. \A i \in 1 .. l : s[i].at \in 1 .. size /\ s[i].id \in Int
  <2>1. \A i \in 1 .. l : s[i] \in Piece
    BY ElementOfSeq
  <2>2. QED
    BY <2>1 DEF InMessages, Piece, Id
<1>4. l = 0 => s = <<>> /\ sent = 0
    BY DEF EndsAt
<1>5. l # 0 => /\ s # <<>> /\ l \in 1 .. l
               /\ s[l].at = IF sent = 0 THEN size ELSE sent
               /\ s[l].id = IF sent = 0 THEN id - 1 ELSE id
    BY <1>2 DEF EndsAt
<1>6. \A k \in 1 .. n : w[l + k].id = id /\ w[l + k].at = sent + k
    BY <1>2 DEF GoesOn
<1>7. HIDE DEF w, l
<1>8. ASSUME NEW j \in 1 .. l + n, ~(j <= l)
      PROVE  \E m \in 1 .. n : j = l + m
  <2>1. j - l \in 1 .. n /\ j = l + (j - l)
    BY <1>2, <1>8
  <2>2. QED
    BY <2>1
<1>9. ASSUME NEW i \in 1 .. l + n, NEW j \in 1 .. l + n, i < j
      PROVE  Apart(w[i], w[j], j - i, size)
  <2>1. CASE j <= l
    <3>1. i \in 1 .. l /\ j \in 1 .. l
      BY <1>2, <1>9, <2>1
    <3>2. Apart(s[i], s[j], j - i, size)
      BY <1>9, <3>1 DEF InMessages, l
    <3>3. QED
      BY <1>2, <3>1, <3>2
  <2>2. CASE ~(i <= l)
    <3>1. ~(j <= l)
      BY <1>2, <1>9, <2>2
    <3>2. PICK k \in 1 .. n : i = l + k
      BY <1>8, <2>2
    <3>3. PICK m \in 1 .. n : j = l + m
      BY <1>8, <3>1
    <3>4. k < m /\ j - i = m - k
      BY <1>2, <1>9, <3>2, <3>3
    <3>5. k \in 1 .. size - sent /\ m \in 1 .. size - sent
      OBVIOUS
    <3>6. /\ w[i].id = id /\ w[i].at = sent + k
          /\ w[j].id = id /\ w[j].at = sent + m
      BY <1>6, <3>2, <3>3
    <3>7. QED
      BY <3>4, <3>5, <3>6, ApartWithin
  <2>3. CASE i <= l /\ ~(j <= l)
    <3>1. PICK m \in 1 .. n : j = l + m
      BY <1>8, <2>3
    <3>2. w[j].id = id /\ w[j].at = sent + m
      BY <1>6, <3>1
    <3>3. /\ i \in 1 .. l /\ l \in 1 .. l /\ l # 0 /\ m \in 1 .. size - sent
      BY <1>2, <2>3
    <3>4. /\ w[i] = s[i] /\ s[i].at \in 1 .. size /\ s[i].id \in Int
          /\ s[l].at \in 1 .. size /\ s[l].id \in Int
      BY <1>2, <1>3, <3>3
    <3>5. CASE i = l
      <4>1. Apart(s[l], w[j], m, size)
        BY <1>5, <3>2, <3>3, <3>4, ApartFrom
      <4>2. j - i = m
        BY <1>2, <3>1, <3>5
      <4>3. QED
        BY <3>4, <3>5, <4>1, <4>2
    <3>6. CASE i # l
      <4>1. l - i \in Nat \ {0} /\ i < l /\ j - i = (l - i) + m
        <5>1. l \in Nat /\ i \in Nat /\ i < l /\ m \in Nat
          BY <1>2, <3>3, <3>6, SMTT(30)
        <5>2. QED
          BY <3>1, <5>1
      <4>2. Apart(s[i], s[l], l - i, size)
        BY <3>3, <4>1 DEF InMessages, l
      <4>3. Apart(s[i], w[j], (l - i) + m, size)
        <5>1. /\ s[l].at = IF sent = 0 THEN size ELSE sent
              /\ s[l].id = IF sent = 0 THEN id - 1 ELSE id
          BY <1>5, <3>3
        <5>2. DEFINE gap == l - i
        <5>3. gap \in Nat \ {0} /\ Apart(s[i], s[l], gap, size)
          BY <4>1, <4>2
        <5>4. HIDE DEF gap
        <5>5. Apart(s[i], w[j], gap + m, size)
          BY <3>2, <3>3, <3>4, <5>1, <5>3, ApartNext
        <5>6. QED
          BY <5>5 DEF gap
      <4>4. QED
        BY <3>4, <4>1, <4>3
    <3>7. QED
      BY <3>5, <3>6
  <2>4. QED
    BY <2>1, <2>2, <2>3
<1>10. ASSUME NEW i \in 1 .. l + n
       PROVE  w[i].at \in 1 .. size
  <2>1. CASE i <= l
    BY <1>2, <1>3, <2>1, SMTT(30)
  <2>2. CASE ~(i <= l)
    <3>1. PICK m \in 1 .. n : i = l + m
      BY <1>8, <2>2
    <3>2. w[i].at = sent + m
      BY <1>6, <3>1
    <3>3. QED
      BY <3>2
  <2>3. QED
    BY <2>1, <2>2
<1>11. w # <<>> /\ w[1].at = 1
  <2>1. CASE l = 0
    <3>1. 1 \in 1 .. n
      OBVIOUS
    <3>2. w[l + 1].at = sent + 1
      BY <1>6, <3>1
    <3>3. QED
      BY <1>2, <1>4, <2>1, <3>2
  <2>2. CASE l # 0
    <3>1. 1 \in 1 .. l /\ s[1].at = 1
      BY <1>2, <1>5, <2>2 DEF InMessages
    <3>2. QED
      BY <1>2, <3>1
  <2>3. QED
    BY <2>1, <2>2
<1>12. InMessages(w, size)
    BY <1>2, <1>9, <1>10, <1>11 DEF InMessages
<1>13. w[l + n].id = id /\ w[l + n].at = sent + n
    BY <1>6
<1>14. EndsAt(w, size, sent + n, id)
    BY <1>2, <1>11, <1>13 DEF EndsAt
<1>15. s # <<>> => w[1] = s[1]
    BY <1>2 DEF l
<1>16. s = <<>> => sent = 0 /\ w[1].id = id
  <2>1. ASSUME s = <<>> PROVE l = 0
    BY <2>1 DEF l
  <2>2. w[l + 1].id = id
    BY <1>6
  <2>3. QED
    BY <1>4, <2>1, <2>2
<1>17. QED
    BY <1>11, <1>12, <1>14, <1>15, <1>16 DEF w, GoneOn

\* The first message of s is whole, and r follows it.
FirstWhole(s, r, size, sent, id) ==
    /\ r \in Seq(Piece)
    /\ InMessages(r, size) /\ EndsAt(r, size, sent, id)
    /\ r # <<>> => r[1].id = s[1].id + 1
    /\ r = <<>> => id = s[1].id
    /\ \A k \in 1 .. size : s[k].at = k /\ s[k].id = s[1].id

\* A stream goes on after its first message.
LEMMA StreamDrop ==
    ASSUME NEW size \in Nat \ {0}, NEW s \in Seq(Piece),
           NEW sent \in 0 .. size, NEW id \in Int,
           InMessages(s, size), EndsAt(s, size, sent, id), Len(s) >= size
    PROVE  FirstWhole(s, SubSeq(s, size + 1, Len(s)), size, sent, id)
<1>1. DEFINE r == SubSeq(s, size + 1, Len(s))
             l == Len(s)
<1>2. /\ l \in Nat /\ l >= size /\ Len(r) = l - size /\ r \in Seq(Piece)
      /\ \A i \in 1 .. l - size : r[i] = s[size + i]
  <2>1. l \in Nat /\ \A i \in size + 1 .. l : s[i] \in Piece
    BY ElementOfSeq
  <2>2. /\ r \in Seq(Piece)
        /\ Len(r) = IF size + 1 <= l THEN l - (size + 1) + 1 ELSE 0
        /\ \A i \in 1 .. l - (size + 1) + 1 : r[i] = s[size + 1 + i - 1]
    BY <2>1, SubSeqProperties
  <2>3. QED
    BY <2>1, <2>2
<1>3. \A i \in 1 .. l : s[i].at \in 1 .. size /\ s[i].id \in Int
  <2>1. \A i \in 1 .. l : s[i] \in Piece
    BY ElementOfSeq
  <2>2. QED
    BY <2>1 DEF InMessages, Piece, Id
<1>4. /\ s # <<>> /\ s[1].at = 1
      /\ \A i, j \in 1 .. l : i < j => Apart(s[i], s[j], j - i, size)
    BY DEF InMessages
<1>5. s[l].at = (IF sent = 0 THEN size ELSE sent) /\ s[l].id = id
    BY <1>4 DEF EndsAt
<1>6. HIDE DEF l, r
<1>7. ASSUME NEW k \in 1 .. size
      PROVE  s[k].at = k /\ s[k].id = s[1].id
  <2>1. 1 \in 1 .. l /\ k \in 1 .. l /\ s[1].id \in Int
    BY <1>2, <1>3
  <2>2. CASE k = 1
    BY <1>4, <2>2
  <2>3. CASE k # 1
    <3>1. 1 < k
      BY <2>3
    <3>2. Apart(s[1], s[k], k - 1, size)
      BY <1>4, <2>1, <3>1
    <3>3. QED
      BY <1>4, <2>1, <3>2 DEF Apart
  <2>4. QED
    BY <2>2, <2>3
<1>8. l > size => s[size + 1].at = 1 /\ s[size + 1].id = s[1].id + 1
  <2>1. SUFFICES ASSUME l > size
                 PROVE  s[size + 1].at = 1 /\ s[size + 1].id = s[1].id + 1
    OBVIOUS
  <2>2. /\ 1 \in 1 .. l /\ size + 1 \in 1 .. l /\ 1 < size + 1
        /\ (size + 1) - 1 = size - 1 + 1 /\ s[1].id \in Int
    BY <1>2, <1>3, <2>1
  <2>3. Apart(s[1], s[size + 1], (size + 1) - 1, size)
    BY <1>4, <2>2
  <2>4. QED
    BY <1>4, <2>2, <2>3 DEF Apart
<1>9. InMessages(r, size)
  <2>1. ASSUME NEW i \in 1 .. Len(r), NEW j \in 1 .. Len(r), i < j
        PROVE  Apart(r[i], r[j], j - i, size)
    <3>1. /\ size + i \in 1 .. l /\ size + j \in 1 .. l
          /\ size + i < size + j /\ (size + j) - (size + i) = j - i
      BY <1>2, <2>1
    <3>2. r[i] = s[size + i] /\ r[j] = s[size + j]
      BY <1>2, <2>1
    <3>3. Apart(s[size + i], s[size + j], (size + j) - (size + i), size)
      BY <1>4, <3>1
    <3>4. QED
      BY <3>1, <3>2, <3>3
  <2>2. ASSUME NEW i \in 1 .. Len(r)
        PROVE  r[i].at \in 1 .. size
    <3>1. size + i \in 1 .. l /\ r[i] = s[size + i]
      BY <1>2, <2>2
    <3>2. QED
      BY <1>3, <3>1
  <2>3. r # <<>> => r[1].at = 1
    <3>1. SUFFICES ASSUME r # <<>> PROVE r[1].at = 1
      OBVIOUS
    <3>2. l > size /\ r[1] = s[size + 1]
      BY <1>2, <3>1, EmptySeq
    <3>3. QED
      BY <1>8, <3>2
  <2>4. QED
    BY <2>1, <2>2, <2>3 DEF InMessages
<1>10. r = <<>> => l = size
  <2>1. r = <<>> => Len(r) = 0
    OBVIOUS
  <2>2. QED
    BY <1>2, <2>1
<1>11. r # <<>> => l > size /\ r[Len(r)] = s[l] /\ r[1] = s[size + 1]
  <2>1. SUFFICES ASSUME r # <<>>
                 PROVE  l > size /\ r[Len(r)] = s[l] /\ r[1] = s[size + 1]
    OBVIOUS
  <2>2. Len(r) # 0
    BY <1>2, <2>1, EmptySeq
  <2>3. 1 \in 1 .. l - size /\ Len(r) \in 1 .. l - size /\ size + Len(r) = l
    BY <1>2, <2>2
  <2>4. QED
    BY <1>2, <2>3
<1>12. /\ EndsAt(r, size, sent, id)
       /\ r # <<>> => r[1].id = s[1].id + 1
       /\ r = <<>> => id = s[1].id
  <2>1. CASE r = <<>>
    <3>1. s[size].at = size /\ s[size].id = s[1].id /\ l = size
      BY <1>7, <1>10, <2>1
    <3>2. id = s[1].id /\ sent \in {0, size}
      BY <1>5, <3>1
    <3>3. QED
      BY <2>1, <3>2 DEF EndsAt
  <2>2. CASE r # <<>>
    BY <1>5, <1>8, <1>11, <2>2 DEF EndsAt
  <2>3. QED
    BY <2>1, <2>2
<1>13. QED
    BY <1>2, <1>7, <1>9, <1>12 DEF l, r, FirstWhole
-----------------------------------------------------------------------------
(* What the threads do to the streams.                                     *)

LEMMA EndFacts ==
    ASSUME NEW e \in End
    PROVE  /\ Peer(e) \in End /\ Peer(Peer(e)) = e /\ Peer(e) # e
           /\ Size(e) \in Nat \ {0} /\ Size(e) >= HeaderSize
           /\ "client" \in End /\ "server" \in End
           /\ \A d \in End : d # e => d = Peer(e)
BY LinkAssumption DEF End, Peer, Size, HeaderSize

LEMMA ConcatPieces ==
    ASSUME NEW s \in Seq(Piece), NEW t \in Seq(Piece)
    PROVE  /\ s \o t \in Seq(Piece)
           /\ Len(s) \in Nat /\ Len(t) \in Nat /\ Len(s \o t) = Len(s) + Len(t)
           /\ \A i \in 1 .. Len(s) + Len(t) :
                 (s \o t)[i] = IF i <= Len(s) THEN s[i] ELSE t[i - Len(s)]
BY ConcatProperties

LEMMA RestOfPieces ==
    ASSUME NEW s \in Seq(Piece), NEW n \in 1 .. Len(s)
    PROVE  /\ SubSeq(s, 1, n) \in Seq(Piece)
           /\ SubSeq(s, n + 1, Len(s)) \in Seq(Piece)
           /\ Len(SubSeq(s, n + 1, Len(s))) = Len(s) - n
           /\ \A i \in 1 .. Len(s) - n : SubSeq(s, n + 1, Len(s))[i] = s[n + i]
<1>1. Len(s) \in Nat /\ \A i \in 1 .. Len(s) : s[i] \in Piece
    BY ElementOfSeq
<1>2. SubSeq(s, 1, n) \in Seq(Piece)
    BY <1>1, SubSeqProperties
<1>3. /\ SubSeq(s, n + 1, Len(s)) \in Seq(Piece)
      /\ Len(SubSeq(s, n + 1, Len(s)))
            = IF n + 1 <= Len(s) THEN Len(s) - (n + 1) + 1 ELSE 0
      /\ \A i \in 1 .. Len(s) - (n + 1) + 1 :
            SubSeq(s, n + 1, Len(s))[i] = s[n + 1 + i - 1]
    BY <1>1, SubSeqProperties
<1>4. QED
    BY <1>1, <1>2, <1>3

LEMMA ConcatRegroups ==
    ASSUME NEW s \in Seq(Piece), NEW t \in Seq(Piece), NEW u \in Seq(Piece)
    PROVE  (s \o t) \o u = s \o (t \o u)
BY ConcatAssociative

LEMMA RestOfIds ==
    ASSUME NEW s \in Seq(Id), s # <<>>
    PROVE  /\ Len(s) \in Nat \ {0} /\ Head(s) \in Id /\ Head(s) = s[1]
           /\ Tail(s) \in Seq(Id) /\ Len(Tail(s)) = Len(s) - 1
           /\ \A i \in 1 .. Len(s) - 1 : Tail(s)[i] = s[i + 1]
<1>1. Len(s) \in Nat /\ Len(s) # 0
    BY EmptySeq, LenProperties
<1>2. /\ Head(s) \in Id /\ Head(s) = s[1] /\ Tail(s) \in Seq(Id)
      /\ Len(Tail(s)) = Len(s) - 1
      /\ \A i \in 1 .. Len(Tail(s)) : Tail(s)[i] = s[i + 1]
    BY HeadTailProperties
<1>3. QED
    BY <1>1, <1>2

\* A round of sendAll sends the pieces that come next.
LEMMA NextPieces ==
    ASSUME NEW e \in End, NEW id \in Id, NEW size \in Nat \ {0}, size = Size(e),
           NEW sent \in 0 .. size - 1, NEW n \in 1 .. size - sent
    PROVE  /\ SubSeq(Pieces(e, id), sent + 1, sent + n) \in Seq(Piece)
           /\ GoesOn(SubSeq(Pieces(e, id), sent + 1, sent + n), id, sent, n)
<1>1. DEFINE p == Pieces(e, id)
<1>2. \A i \in 1 .. size : p[i].id = id /\ p[i].at = i /\ p[i] \in Piece
    BY DEF Pieces, Piece
<1>3. p \in Seq(Piece)
  <2>1. p = [i \in 1 .. size |-> [id |-> id, at |-> i]]
    BY DEF Pieces
  <2>2. p \in [1 .. size -> Piece]
    BY <2>1 DEF Piece
  <2>3. QED
    BY <2>2, SMTT(30)
<1>4. HIDE DEF p
<1>5. DEFINE t == SubSeq(p, sent + 1, sent + n)
<1>6. ASSUME NEW i \in sent + 1 .. sent + n PROVE p[i] \in Piece
  <2>1. i \in 1 .. size
    BY <1>6
  <2>2. QED
    BY <1>2, <2>1
<1>7. /\ t \in Seq(Piece)
      /\ Len(t) = IF sent + 1 <= sent + n THEN (sent + n) - (sent + 1) + 1 ELSE 0
      /\ \A i \in 1 .. (sent + n) - (sent + 1) + 1 : t[i] = p[sent + 1 + i - 1]
    BY <1>6, SubSeqProperties
<1>8. HIDE DEF t
<1>9. Len(t) = n
    BY <1>7
<1>10. ASSUME NEW k \in 1 .. n PROVE t[k].id = id /\ t[k].at = sent + k
  <2>1. PICK i \in 1 .. size : i = sent + k /\ sent + 1 + k - 1 = i
    OBVIOUS
  <2>2. k \in 1 .. (sent + n) - (sent + 1) + 1
    OBVIOUS
  <2>3. t[k] = p[i]
    BY <1>7, <2>1, <2>2
  <2>4. QED
    BY <1>2, <2>1, <2>3
<1>11. QED
    BY <1>7, <1>9, <1>10 DEF p, t, GoesOn

LEMMA StreamKind ==
    ASSUME LinkKinds, NEW e \in End
    PROVE  /\ buffer[e] \in Seq(Piece) /\ chunk[e] \in Seq(Piece)
           /\ wire[e] \in Seq(Piece) /\ out[e] \in Seq(Id)
           /\ mIncoming[e] \in Seq(Id)
           /\ sender[e] \in [pc : {"look", "send", "erase"}, sent : Nat]
           /\ buffer[Peer(e)] \in Seq(Piece) /\ chunk[Peer(e)] \in Seq(Piece)
           /\ buffer[Peer(e)] \o chunk[Peer(e)] \in Seq(Piece)
           /\ Stream(e) \in Seq(Piece)
<1>1. /\ buffer[e] \in Seq(Piece) /\ chunk[e] \in Seq(Piece)
      /\ wire[e] \in Seq(Piece) /\ out[e] \in Seq(Id)
      /\ mIncoming[e] \in Seq(Id)
      /\ sender[e] \in [pc : {"look", "send", "erase"}, sent : Nat]
      /\ buffer[Peer(e)] \in Seq(Piece) /\ chunk[Peer(e)] \in Seq(Piece)
    BY EndFacts DEF LinkKinds
<1>2. buffer[Peer(e)] \o chunk[Peer(e)] \in Seq(Piece)
    BY <1>1, ConcatProperties
<1>3. Stream(e) \in Seq(Piece)
    BY <1>1, <1>2, ConcatProperties DEF Stream
<1>4. QED
    BY <1>1, <1>2, <1>3

\* What is sent is put at the end of the stream.
LEMMA SendStream ==
    ASSUME LinkKinds, NEW e \in End, NEW t \in Seq(Piece),
           wire' = [wire EXCEPT ![e] = @ \o t], UNCHANGED <<chunk, buffer>>
    PROVE  /\ Stream(e)' = Stream(e) \o t
           /\ \A d \in End \ {e} : Stream(d)' = Stream(d)
<1>1. wire'[e] = wire[e] \o t /\ \A d \in End \ {e} : wire'[d] = wire[d]
    BY DEF LinkKinds
<1>2. (buffer[Peer(e)] \o chunk[Peer(e)] \o wire[e]) \o t
         = buffer[Peer(e)] \o chunk[Peer(e)] \o (wire[e] \o t)
  <2>1. DEFINE s == buffer[Peer(e)] \o chunk[Peer(e)]
               w == wire[e]
  <2>2. s \in Seq(Piece) /\ w \in Seq(Piece)
    BY StreamKind
  <2>3. HIDE DEF s, w
  <2>4. (s \o w) \o t = s \o (w \o t)
    BY <2>2, ConcatRegroups
  <2>5. QED
    BY <2>4 DEF s, w
<1>3. QED
    BY <1>1, <1>2 DEF Stream

\* Taking pieces from the socket and inserting them leaves the streams alone.
LEMMA ReceiveStream ==
    ASSUME LinkKinds, NEW e \in End, Receive(e) \/ Insert(e), NEW d \in End
    PROVE  Stream(d)' = Stream(d)
<1>1. CASE Receive(e)
  <2>1. PICK n \in 1 .. Len(wire[Peer(e)]) :
           /\ chunk' = [chunk EXCEPT ![e] = SubSeq(wire[Peer(e)], 1, n)]
           /\ wire' = [wire EXCEPT ![Peer(e)] = SubSeq(@, n + 1, Len(@))]
    BY <1>1 DEF Receive
  <2>2. CASE d = Peer(e)
    <3>1. DEFINE w == wire[d]
    <3>2. /\ w \in Seq(Piece) /\ buffer[e] \in Seq(Piece)
          /\ n \in 1 .. Len(w) /\ Peer(d) = e
      BY <2>1, <2>2, StreamKind, EndFacts
    <3>3. /\ chunk'[e] = SubSeq(w, 1, n) /\ wire'[d] = SubSeq(w, n + 1, Len(w))
          /\ buffer'[e] = buffer[e] /\ chunk[e] = <<>>
      BY <1>1, <2>1, <2>2, EndFacts, ZenonT(30) DEF LinkKinds, Receive
    <3>4. HIDE DEF w
    <3>5. /\ SubSeq(w, 1, n) \in Seq(Piece) /\ SubSeq(w, n + 1, Len(w)) \in Seq(Piece)
          /\ SubSeq(w, 1, n) \o SubSeq(w, n + 1, Len(w)) = w
      <4>1. /\ Len(w) \in Nat /\ 1 \in 1 .. Len(w) + 1 /\ n \in 0 .. Len(w)
            /\ Len(w) \in n .. Len(w)
        BY <3>2
      <4>2. SubSeq(w, 1, n) \o SubSeq(w, n + 1, Len(w)) = SubSeq(w, 1, Len(w))
        BY <3>2, <4>1, ConcatAdjacentSubSeq
      <4>3. SubSeq(w, 1, Len(w)) = w
        BY <3>2, SubSeqFull
      <4>4. \A i \in 1 .. Len(w) : w[i] \in Piece
        BY <3>2, ElementOfSeq
      <4>5. SubSeq(w, 1, n) \in Seq(Piece)
        BY <4>1, <4>4, SubSeqProperties
      <4>6. SubSeq(w, n + 1, Len(w)) \in Seq(Piece)
        BY <4>1, <4>4, SubSeqProperties
      <4>7. QED
        BY <4>2, <4>3, <4>5, <4>6
    <3>6. (buffer[e] \o SubSeq(w, 1, n)) \o SubSeq(w, n + 1, Len(w)) = buffer[e] \o w
      <4>1. DEFINE b == buffer[e]
                   t == SubSeq(w, 1, n)
                   u == SubSeq(w, n + 1, Len(w))
      <4>2. b \in Seq(Piece) /\ t \in Seq(Piece) /\ u \in Seq(Piece) /\ t \o u = w
        BY <3>2, <3>5
      <4>3. HIDE DEF b, t, u
      <4>4. (b \o t) \o u = b \o (t \o u)
        BY <4>2, ConcatRegroups
      <4>5. QED
        BY <4>2, <4>4 DEF b, t, u
    <3>7. buffer[e] \o chunk[e] = buffer[e]
      BY <3>2, <3>3, ConcatEmptySeq
    <3>8. QED
      BY <3>2, <3>3, <3>6, <3>7 DEF Stream, w
  <2>3. CASE d # Peer(e)
    <3>1. d = e /\ Peer(d) # e /\ Peer(d) \in End
      BY <2>3, EndFacts
    <3>2. chunk'[Peer(d)] = chunk[Peer(d)] /\ wire'[d] = wire[d]
      BY <2>1, <2>3, <3>1 DEF LinkKinds
    <3>3. UNCHANGED buffer
      BY <1>1 DEF Receive
    <3>4. QED
      BY <3>2, <3>3 DEF Stream
  <2>4. QED
    BY <2>2, <2>3
<1>2. CASE Insert(e)
  <2>1. /\ buffer' = [buffer EXCEPT ![e] = @ \o chunk[e]]
        /\ chunk' = [chunk EXCEPT ![e] = <<>>] /\ UNCHANGED wire
    BY <1>2 DEF Insert
  <2>2. CASE d = Peer(e)
    <3>1. /\ Peer(d) = e /\ buffer'[e] = buffer[e] \o chunk[e] /\ chunk'[e] = <<>>
      BY <2>1, <2>2, EndFacts DEF LinkKinds
    <3>2. (buffer[e] \o chunk[e]) \o <<>> = buffer[e] \o chunk[e]
      BY <2>2, <3>1, StreamKind, ConcatEmptySeq
    <3>3. QED
      BY <2>1, <3>1, <3>2 DEF Stream
  <2>3. CASE d # Peer(e)
    <3>1. d = e /\ Peer(d) # e /\ Peer(d) \in End
      BY <2>3, EndFacts
    <3>2. chunk'[Peer(d)] = chunk[Peer(d)] /\ buffer'[Peer(d)] = buffer[Peer(d)]
      BY <2>1, <3>1 DEF LinkKinds
    <3>3. QED
      BY <2>1, <3>2 DEF Stream
  <2>4. QED
    BY <2>2, <2>3
<1>3. QED
    BY <1>1, <1>2

\* A message is taken from the front of the stream.
LEMMA RefreshStream ==
    ASSUME LinkKinds, NEW e \in End, NEW n \in 1 .. Len(buffer[e]),
           buffer' = [buffer EXCEPT ![e] = SubSeq(@, n + 1, Len(@))],
           UNCHANGED <<chunk, wire>>
    PROVE  /\ Len(Stream(Peer(e))) >= Len(buffer[e])
           /\ \A i \in 1 .. Len(buffer[e]) : Stream(Peer(e))[i] = buffer[e][i]
           /\ SubSeq(buffer[e], n + 1, Len(buffer[e])) \in Seq(Piece)
           /\ Stream(Peer(e))' =
                 SubSeq(Stream(Peer(e)), n + 1, Len(Stream(Peer(e))))
           /\ Stream(e)' = Stream(e)
<1>1. DEFINE b == buffer[e]
             c == chunk[e]
             w == wire[Peer(e)]
             t == c \o w
             r == SubSeq(b, n + 1, Len(b))
             s == b \o t
<1>2. /\ b \in Seq(Piece) /\ c \in Seq(Piece) /\ w \in Seq(Piece)
      /\ Peer(e) \in End /\ Peer(Peer(e)) = e /\ Peer(e) # e
    BY StreamKind, EndFacts
<1>3. Stream(Peer(e)) = (b \o c) \o w
    BY <1>2 DEF Stream
<1>4. buffer'[e] = r /\ buffer'[Peer(e)] = buffer[Peer(e)]
    BY <1>2 DEF LinkKinds
<1>5. /\ Len(b) \in Nat /\ n \in 1 .. Len(b)
      /\ r \in Seq(Piece) /\ Len(r) = Len(b) - n
      /\ \A i \in 1 .. Len(b) - n : r[i] = b[n + i]
  <2>1. Len(b) \in Nat /\ \A i \in n + 1 .. Len(b) : b[i] \in Piece
    BY <1>2, ElementOfSeq
  <2>2. /\ r \in Seq(Piece)
        /\ Len(r) = IF n + 1 <= Len(b) THEN Len(b) - (n + 1) + 1 ELSE 0
        /\ \A i \in 1 .. Len(b) - (n + 1) + 1 : r[i] = b[n + 1 + i - 1]
    BY <2>1, SubSeqProperties
  <2>3. QED
    BY <2>1, <2>2
<1>6. HIDE DEF b, r, c, w
<1>7. t \in Seq(Piece) /\ Len(t) \in Nat /\ (b \o c) \o w = s
    BY <1>2, ConcatPieces, ConcatRegroups, SMTT(30)
<1>7a. (r \o c) \o w = r \o t
    BY <1>2, <1>5, ConcatRegroups, ZenonT(30)
<1>7b. HIDE DEF t
<1>8. /\ s \in Seq(Piece) /\ Len(s) = Len(b) + Len(t)
      /\ \A i \in 1 .. Len(b) + Len(t) : s[i] = IF i <= Len(b) THEN b[i] ELSE t[i - Len(b)]
    BY <1>2, <1>7, ConcatProperties
<1>9. /\ r \o t \in Seq(Piece) /\ Len(r \o t) = Len(r) + Len(t)
      /\ \A i \in 1 .. Len(r) + Len(t) :
            (r \o t)[i] = IF i <= Len(r) THEN r[i] ELSE t[i - Len(r)]
    BY <1>5, <1>7, ConcatProperties
<1>10. HIDE DEF s
<1>11. DEFINE q == SubSeq(s, n + 1, Len(s))
<1>12. /\ q \in Seq(Piece) /\ Len(q) = Len(s) - n
       /\ \A i \in 1 .. Len(s) - n : q[i] = s[n + i]
  <2>1. Len(s) \in Nat /\ \A i \in n + 1 .. Len(s) : s[i] \in Piece
    BY <1>5, <1>7, <1>8, ElementOfSeq
  <2>2. /\ q \in Seq(Piece)
        /\ Len(q) = IF n + 1 <= Len(s) THEN Len(s) - (n + 1) + 1 ELSE 0
        /\ \A i \in 1 .. Len(s) - (n + 1) + 1 : q[i] = s[n + 1 + i - 1]
    BY <2>1, SubSeqProperties
  <2>3. QED
    BY <1>5, <1>7, <1>8, <2>1, <2>2
<1>13. HIDE DEF q
<1>14. r \o t = q
  <2>1. Len(r \o t) = Len(q)
    BY <1>5, <1>7, <1>8, <1>9, <1>12
  <2>2. ASSUME NEW i \in 1 .. Len(r \o t)
        PROVE  (r \o t)[i] = q[i]
    <3>1. /\ i \in 1 .. Len(r) + Len(t) /\ i \in 1 .. Len(s) - n
          /\ n + i \in 1 .. Len(b) + Len(t)
      BY <1>5, <1>7, <1>8, <1>9, <2>2
    <3>2. q[i] = s[n + i]
      BY <1>12, <3>1
    <3>3. CASE i <= Len(r)
      <4>1. n + i <= Len(b) /\ i \in 1 .. Len(b) - n
        BY <1>5, <3>1, <3>3
      <4>2. QED
        BY <1>5, <1>8, <1>9, <3>1, <3>2, <3>3, <4>1
    <3>4. CASE ~(i <= Len(r))
      <4>1. ~(n + i <= Len(b)) /\ (n + i) - Len(b) = i - Len(r)
        BY <1>5, <3>1, <3>4
      <4>2. QED
        BY <1>8, <1>9, <3>1, <3>2, <3>4, <4>1
    <3>5. QED
      BY <3>3, <3>4
  <2>3. QED
    BY <1>9, <1>12, <2>1, <2>2, SeqEqual
<1>15. /\ Len(s) >= Len(b)
       /\ \A i \in 1 .. Len(b) : s[i] = b[i]
  <2>1. ASSUME NEW i \in 1 .. Len(b) PROVE s[i] = b[i]
    <3>1. i \in 1 .. Len(b) + Len(t) /\ i <= Len(b)
      BY <1>5, <1>7, <2>1
    <3>2. QED
      BY <1>8, <3>1
  <2>2. QED
    BY <1>5, <1>7, <1>8, <2>1
<1>16. Stream(Peer(e))' = r \o t
  <2>1. Stream(Peer(e))' = (r \o c) \o w
    BY <1>2, <1>4 DEF Stream, c, w
  <2>2. QED
    BY <1>7a, <2>1
<1>17. Stream(e)' = Stream(e)
    BY <1>4 DEF Stream
<1>18. QED
    BY <1>3, <1>5, <1>7, <1>14, <1>15, <1>16, <1>17 DEF b, r, q
LEMMA SentIsNumber ==
    ASSUME LinkKinds, NEW e \in End, NEW newest \in Nat
    PROVE  SentUpTo(e, newest) \in Int
<1>1. PICK len \in Nat : len = Len(out[e])
    BY StreamKind, LenProperties
<1>2. PICK k \in {0, 1} : k = IF sender[e].sent = 0 THEN 0 ELSE 1
    OBVIOUS
<1>3. SentUpTo(e, newest) = newest - len + k
    BY <1>1, <1>2 DEF SentUpTo
<1>4. QED
    BY <1>3

LEMMA NextIsNumber ==
    ASSUME LinkKinds, NEW e \in End, NEW newest \in Nat
    PROVE  /\ NextFrom(e, newest) \in Int
           /\ Stream(e) # <<>> => NextFrom(e, newest) \in Id
<1>1. Stream(e) # <<>> => Stream(e)[1] \in Piece
    BY StreamKind, HeadTailProperties
<1>2. Stream(e) # <<>> => NextFrom(e, newest) \in Id
    BY <1>1 DEF NextFrom, Piece
<1>3. Stream(e) = <<>> => NextFrom(e, newest) = SentUpTo(e, newest) + 1
    BY DEF NextFrom
<1>4. SentUpTo(e, newest) \in Int
    BY SentIsNumber
<1>5. QED
    BY <1>2, <1>3, <1>4 DEF Id

-----------------------------------------------------------------------------
(* The invariant is kept.                                                  *)

\* A step that neither sends a message nor takes one.
LEMMA QuietStep ==
    ASSUME LinkInv, LinkKinds', \A e \in End : SenderInStep(e)',
           \A e \in End : Stream(e)' = Stream(e),
           \A e \in End : sender'[e].sent = sender[e].sent,
           status' = "assertion" => status = "assertion",
           UNCHANGED <<out, mIncoming, currentID, serving, repeats>>
    PROVE  LinkInv' /\ LastAnswered' = LastAnswered /\ NextAnswer' = NextAnswer
<1>1. "client" \in End /\ "server" \in End
    BY DEF End
<1>2. LastAnswered' = LastAnswered
    BY <1>1 DEF LastAnswered, NextFrom, SentUpTo
<1>3. \A e \in End : Sound(e)'
    BY DEF LinkInv, Sound, Clean
<1>4. InTurn("client", currentID)'
    BY <1>1 DEF LinkInv, InTurn, Clean, Numbered, SentUpTo
<1>5. InTurn("server", LastAnswered)'
    BY <1>1, <1>2 DEF LinkInv, InTurn, Clean, Numbered, SentUpTo
<1>6. TakenInOrder'
    BY <1>2 DEF LinkInv, TakenInOrder
<1>7. (Clean("server") => AnswersInOrder /\ status # "assertion")'
    BY <1>1, <1>2 DEF LinkInv, Clean, AnswersInOrder, NextFrom, SentUpTo
<1>8. NextAnswer' = NextAnswer
    BY <1>1, <1>2 DEF NextAnswer, NextFrom, SentUpTo
<1>9. QED
    BY <1>2, <1>3, <1>4, <1>5, <1>6, <1>7, <1>8 DEF LinkInv

LEMMA LookStep ==
    ASSUME LinkInv, NEW e \in End, Look(e)
    PROVE  LinkInv' /\ LastAnswered' = LastAnswered /\ NextAnswer' = NextAnswer
<1>1. /\ sender[e].pc = "look" /\ out[e] # <<>> /\ sender[e].sent = 0
      /\ sender' = [sender EXCEPT ![e] = [pc |-> "send", sent |-> 0]]
      /\ UNCHANGED <<status, out, wire, chunk, buffer, mIncoming, mStop, userVars,
                     repeats>>
    BY DEF Look, LinkInv, SenderInStep
<1>2. LinkKinds'
    BY <1>1 DEF LinkInv, LinkKinds, userVars
<1>3. \A d \in End : sender'[d].sent = sender[d].sent
    BY <1>1 DEF LinkInv, LinkKinds
<1>4. \A d \in End : SenderInStep(d)'
    BY <1>1, EndFacts DEF LinkInv, LinkKinds, SenderInStep
<1>5. \A d \in End : Stream(d)' = Stream(d)
    BY <1>1 DEF Stream
<1>6. QED
    BY <1>1, <1>2, <1>3, <1>4, <1>5, QuietStep DEF userVars

LEMMA ReceiveStep ==
    ASSUME LinkInv, NEW e \in End, Receive(e) \/ Insert(e)
    PROVE  LinkInv' /\ LastAnswered' = LastAnswered /\ NextAnswer' = NextAnswer
<1>1. UNCHANGED <<status, out, sender, mIncoming, mStop, userVars, repeats>>
    BY DEF Receive, Insert
<1>2. LinkKinds'
  <2>1. CASE Receive(e)
    <3>1. PICK n \in 1 .. Len(wire[Peer(e)]) :
             /\ chunk' = [chunk EXCEPT ![e] = SubSeq(wire[Peer(e)], 1, n)]
             /\ wire' = [wire EXCEPT ![Peer(e)] = SubSeq(@, n + 1, Len(@))]
      BY <2>1 DEF Receive
    <3>2. DEFINE w == wire[Peer(e)]
    <3>3. w \in Seq(Piece) /\ Len(w) <= Room[Peer(e)] /\ Peer(e) \in End
      BY EndFacts DEF LinkInv, LinkKinds
    <3>4. n \in 1 .. Len(w) /\ Room[Peer(e)] \in Nat
      BY <3>3, LinkAssumption
    <3>5. HIDE DEF w
    <3>6. /\ SubSeq(w, 1, n) \in Seq(Piece) /\ SubSeq(w, n + 1, Len(w)) \in Seq(Piece)
          /\ Len(SubSeq(w, n + 1, Len(w))) <= Room[Peer(e)]
      BY <3>3, <3>4, RestOfPieces
    <3>7. QED
      BY <1>1, <2>1, <3>1, <3>3, <3>6 DEF w, LinkInv, LinkKinds, Receive, userVars
  <2>2. CASE Insert(e)
    <3>1. buffer[e] \o chunk[e] \in Seq(Piece) /\ <<>> \in Seq(Piece)
      BY ConcatPieces DEF LinkInv, LinkKinds
    <3>2. QED
      BY <1>1, <2>2, <3>1 DEF LinkInv, LinkKinds, Insert, userVars
  <2>3. QED
    BY <2>1, <2>2
<1>3. \A d \in End : SenderInStep(d)'
    BY <1>1 DEF LinkInv, SenderInStep
<1>4. \A d \in End : Stream(d)' = Stream(d)
    BY ReceiveStream DEF LinkInv
<1>5. QED
    BY <1>1, <1>2, <1>3, <1>4, QuietStep DEF userVars

\* Told to stop, and a race, which ends the process, and no answer in time.
LEMMA EndingStep ==
    ASSUME LinkInv, NEW e \in End, Stop(e) \/ Race(e) \/ GiveUp
    PROVE  LinkInv' /\ LastAnswered' = LastAnswered /\ NextAnswer' = NextAnswer
<1>1. UNCHANGED <<out, sender, wire, chunk, buffer, mIncoming, currentID, serving,
                  repeats>>
    BY DEF Stop, Race, GiveUp, userVars
<1>2. status' \in {status, "race"}
    BY DEF Stop, Race, GiveUp
<1>2a. LinkKinds'
  <2>1. /\ status' \in {"running", "assertion", "race"}
        /\ mStop' \subseteq End /\ waiting' \in BOOLEAN
    BY DEF Stop, Race, GiveUp, LinkInv, LinkKinds, userVars
  <2>2. QED
    BY <1>1, <2>1 DEF LinkInv, LinkKinds
<1>3. \A d \in End : SenderInStep(d)'
    BY <1>1 DEF LinkInv, SenderInStep
<1>4. \A d \in End : Stream(d)' = Stream(d)
    BY <1>1 DEF Stream
<1>5. QED
    BY <1>1, <1>2, <1>2a, <1>3, <1>4, QuietStep

\* A send of the server fails.  When it has sent a part of the message, that is
\* the end of what is said about the answers.
LEMMA SendFailsStep ==
    ASSUME LinkInv, SendFails
    PROVE  /\ LinkInv' /\ LastAnswered' = LastAnswered
           /\ Clean("server")' => Clean("server") /\ NextAnswer' = NextAnswer
<1>1. /\ sender' = [sender EXCEPT !["server"] = [pc |-> "look", sent |-> 0]]
      /\ UNCHANGED <<status, out, wire, chunk, buffer, mIncoming, mStop, userVars>>
    BY DEF SendFails
<1>2. /\ "server" \in End /\ "client" \in End /\ "client" # "server"
      /\ sender'["server"] = [pc |-> "look", sent |-> 0]
      /\ sender'["client"] = sender["client"]
      /\ \A d \in End : d = "client" \/ d = "server"
    BY <1>1 DEF LinkInv, LinkKinds, End
<1>3. /\ repeats \in Nat /\ repeats' \in 0 .. MaxRepeats
      /\ \/ sender["server"].sent = 0 /\ repeats' = repeats
         \/ repeats' = repeats + 1
    BY LinkAssumption DEF SendFails, LinkInv, LinkKinds
<1>4. LinkKinds'
    BY <1>1, <1>3 DEF LinkInv, LinkKinds, userVars
<1>5. \A d \in End : SenderInStep(d)'
    BY <1>1, <1>2 DEF LinkInv, SenderInStep
<1>6. \A d \in End : Stream(d)' = Stream(d)
    BY <1>1 DEF Stream
<1>7. CASE sender["server"].sent = 0 /\ repeats' = repeats
  <2>1. \A d \in End : sender'[d].sent = sender[d].sent
    BY <1>2, <1>7
  <2>2. LinkInv' /\ LastAnswered' = LastAnswered /\ NextAnswer' = NextAnswer
    BY <1>1, <1>4, <1>5, <1>6, <1>7, <2>1, QuietStep DEF userVars
  <2>3. QED
    BY <1>7, <2>2 DEF Clean
<1>8. CASE repeats' = repeats + 1
  <2>1. ~Clean("server")'
    BY <1>3, <1>8 DEF Clean
  <2>2. NextFrom("client", currentID)' = NextFrom("client", currentID)
    BY <1>1, <1>2, <1>6 DEF NextFrom, SentUpTo, userVars
  <2>3. LastAnswered' = LastAnswered
    BY <1>1, <2>2 DEF LastAnswered, userVars
  <2>4. TakenInOrder'
    BY <1>1, <2>3 DEF LinkInv, TakenInOrder, userVars
  <2>5. Numbered("client", currentID)
    BY DEF LinkInv, InTurn, Clean
  <2>6. InTurn("client", currentID)'
    BY <1>1, <1>2, <1>6, <2>5 DEF InTurn, Numbered, SentUpTo, userVars
  <2>7. \A d \in End : Sound(d)'
    BY <1>2, <1>6, <2>1 DEF LinkInv, Sound, Clean
  <2>8. InTurn("server", LastAnswered)'
    BY <2>1 DEF InTurn
  <2>9. QED
    BY <1>4, <1>5, <2>1, <2>3, <2>4, <2>6, <2>7, <2>8 DEF LinkInv
<1>9. QED
    BY <1>3, <1>7, <1>8

\* What a step leaves alone of an end.
LEMMA EndUnaffected ==
    ASSUME NEW d \in End, NEW newest,
           Stream(d)' = Stream(d), out'[d] = out[d], sender'[d] = sender[d],
           UNCHANGED repeats
    PROVE  /\ NextFrom(d, newest)' = NextFrom(d, newest)
           /\ Numbered(d, newest) => Numbered(d, newest)'
           /\ InTurn(d, newest) => InTurn(d, newest)'
           /\ SenderInStep(d) => SenderInStep(d)'
           /\ Sound(d) => Sound(d)'
<1>1. SentUpTo(d, newest)' = SentUpTo(d, newest)
    BY DEF SentUpTo
<1>2. NextFrom(d, newest)' = NextFrom(d, newest)
    BY <1>1 DEF NextFrom
<1>3. Numbered(d, newest) => Numbered(d, newest)'
    BY <1>1 DEF Numbered
<1>4. SenderInStep(d) => SenderInStep(d)'
    BY DEF SenderInStep
<1>5. InTurn(d, newest) => InTurn(d, newest)'
    BY <1>3 DEF InTurn, Clean
<1>6. Sound(d) => Sound(d)'
    BY DEF Sound, Clean
<1>7. QED
    BY <1>2, <1>3, <1>4, <1>5, <1>6

\* A step of a sending thread, which changes no numbers.
LEMMA SendingStep ==
    ASSUME LinkInv, LinkKinds',
           \A e \in End : Sound(e)' /\ SenderInStep(e)',
           \A e \in End, newest \in Nat :
               Clean(e) /\ Numbered(e, newest) =>
                   /\ Numbered(e, newest)'
                   /\ NextFrom(e, newest)' = NextFrom(e, newest),
           UNCHANGED <<status, mIncoming, currentID, serving, repeats>>
    PROVE  /\ LinkInv' /\ LastAnswered' = LastAnswered
           /\ Clean("server") => NextAnswer' = NextAnswer
<1>1. /\ "client" \in End /\ "server" \in End
      /\ currentID \in Nat /\ LastAnswered \in Nat
    BY LinkAssumption DEF End, LinkInv, LinkKinds, TakenInOrder
<1>2. /\ Clean("client") /\ Numbered("client", currentID)
      /\ Clean("server") => Numbered("server", LastAnswered)
    BY DEF LinkInv, InTurn, Clean
<1>3. /\ Numbered("client", currentID)'
      /\ NextFrom("client", currentID)' = NextFrom("client", currentID)
    BY <1>1, <1>2
<1>4. LastAnswered' = LastAnswered
    BY <1>3 DEF LastAnswered
<1>5. Clean("server") =>
         /\ Numbered("server", LastAnswered)'
         /\ NextFrom("server", LastAnswered)' = NextFrom("server", LastAnswered)
    BY <1>1, <1>2, <1>4
<1>6. TakenInOrder'
    BY <1>4 DEF LinkInv, TakenInOrder
<1>7. Clean("server")' <=> Clean("server")
    BY DEF Clean
<1>8. (Clean("server") => AnswersInOrder /\ status # "assertion")'
    BY <1>5, <1>7 DEF LinkInv, AnswersInOrder
<1>9. InTurn("client", currentID)' /\ InTurn("server", LastAnswered)'
    BY <1>3, <1>5, <1>7 DEF InTurn
<1>10. QED
    BY <1>4, <1>5, <1>6, <1>8, <1>9 DEF LinkInv, NextAnswer

LEMMA EraseStep ==
    ASSUME LinkInv, NEW e \in End, Erase(e)
    PROVE  /\ LinkInv' /\ LastAnswered' = LastAnswered
           /\ Clean("server") => NextAnswer' = NextAnswer
<1>1. /\ sender[e].pc = "erase" /\ out[e] # <<>> /\ sender[e].sent = Size(e)
      /\ out' = [out EXCEPT ![e] = Tail(@)]
      /\ sender' = [sender EXCEPT ![e] = [pc |-> "look", sent |-> 0]]
      /\ UNCHANGED <<status, wire, chunk, buffer, mIncoming, mStop, userVars, repeats>>
    BY DEF Erase, LinkInv, SenderInStep
<1>2. /\ out[e] \in Seq(Id) /\ Size(e) \in Nat \ {0}
      /\ out'[e] = Tail(out[e]) /\ sender'[e] = [pc |-> "look", sent |-> 0]
      /\ \A d \in End \ {e} : out'[d] = out[d] /\ sender'[d] = sender[d]
    BY <1>1, EndFacts DEF LinkInv, LinkKinds
<1>3. /\ Tail(out[e]) \in Seq(Id) /\ Len(out[e]) \in Nat \ {0}
      /\ Len(out'[e]) = Len(out[e]) - 1
      /\ \A i \in 1 .. Len(out'[e]) : out'[e][i] = out[e][i + 1]
    BY <1>1, <1>2, RestOfIds, ZenonT(30)
<1>4. LinkKinds'
    BY <1>1, <1>3, SMTT(30) DEF LinkInv, LinkKinds, userVars
<1>5. \A d \in End : Stream(d)' = Stream(d)
    BY <1>1 DEF Stream
<1>6. ASSUME NEW newest \in Nat, Numbered(e, newest)
      PROVE  /\ Numbered(e, newest)'
             /\ NextFrom(e, newest)' = NextFrom(e, newest)
  <2>1. PICK len \in Nat \ {0} : len = Len(out[e]) /\ len - 1 = Len(out'[e])
    BY <1>3
  <2>2. SentUpTo(e, newest)' = newest - len + 1 /\ SentUpTo(e, newest) = newest - len + 1
    <3>1. sender[e].sent # 0 /\ sender'[e].sent = 0
      BY <1>1, <1>2
    <3>2. SentUpTo(e, newest) = newest - len + 1
      BY <2>1, <3>1 DEF SentUpTo
    <3>3. SentUpTo(e, newest)' = newest - (len - 1) + 0
      BY <2>1, <3>1 DEF SentUpTo
    <3>4. QED
      BY <3>2, <3>3
  <2>3. NextFrom(e, newest)' = NextFrom(e, newest)
    BY <1>5, <2>2 DEF NextFrom
  <2>4. EndsAt(Stream(e), Size(e), Size(e), SentUpTo(e, newest))
    BY <1>1, <1>6 DEF Numbered
  <2>5. EndsAt(Stream(e), Size(e), 0, SentUpTo(e, newest))
    BY <1>2, <2>4 DEF EndsAt
  <2>6. /\ \A i \in 1 .. len : out[e][i] = newest - len + i
        /\ len <= newest
    BY <1>6, <2>1 DEF Numbered
  <2>7. \A i \in 1 .. Len(out'[e]) : out'[e][i] = newest - Len(out'[e]) + i
    <3>1. ASSUME NEW i \in 1 .. len - 1
          PROVE  out'[e][i] = newest - (len - 1) + i
      <4>1. out'[e][i] = out[e][i + 1] /\ i + 1 \in 1 .. len
        BY <1>3, <2>1, <3>1
      <4>2. out[e][i + 1] = newest - len + (i + 1)
        BY <2>6, <4>1
      <4>3. newest - len + (i + 1) = newest - (len - 1) + i
        BY <3>1
      <4>4. QED
        BY <4>1, <4>2, <4>3
    <3>2. QED
      BY <2>1, <3>1
  <2>8. Len(out'[e]) <= newest
    BY <2>1, <2>6
  <2>9. EndsAt(Stream(e), Size(e), sender[e].sent, SentUpTo(e, newest))'
    <3>1. sender'[e].sent = 0 /\ Stream(e)' = Stream(e)
      BY <1>2, <1>5
    <3>2. QED
      BY <2>2, <2>5, <3>1
  <2>10. Numbered(e, newest)'
    BY <2>7, <2>8, <2>9 DEF Numbered
  <2>11. QED
    BY <2>3, <2>10
<1>7. \A d \in End, newest \in Nat :
         Numbered(d, newest) =>
             /\ Numbered(d, newest)'
             /\ NextFrom(d, newest)' = NextFrom(d, newest)
    BY <1>1, <1>2, <1>5, <1>6, EndUnaffected
<1>8. \A d \in End : Sound(d)' /\ SenderInStep(d)'
  <2>1. SenderInStep(e)'
    BY <1>2 DEF SenderInStep
  <2>2. \A d \in End \ {e} : SenderInStep(d)'
    BY <1>2 DEF LinkInv, SenderInStep
  <2>3. \A d \in End : Sound(d)'
    BY <1>1, <1>5 DEF LinkInv, Sound, Clean
  <2>4. QED
    BY <2>1, <2>2, <2>3
<1>9. QED
    BY <1>1, <1>4, <1>7, <1>8, SendingStep DEF userVars

LEMMA SendStep ==
    ASSUME LinkInv, NEW e \in End, Send(e)
    PROVE  /\ LinkInv' /\ LastAnswered' = LastAnswered
           /\ Clean("server") => NextAnswer' = NextAnswer
<1>1. /\ sender[e].pc = "send" /\ out[e] # <<>> /\ sender[e].sent < Size(e)
      /\ sender[e].sent \in Nat /\ out[e] \in Seq(Id)
      /\ Sound(e) /\ Stream(e) \in Seq(Piece)
    BY StreamKind DEF Send, LinkInv, SenderInStep
<1>2. PICK size \in Nat \ {0} : size = Size(e)
    BY EndFacts
<1>3. PICK sent \in 0 .. size - 1 : sent = sender[e].sent
    BY <1>1, <1>2
<1>4. PICK id \in Id : id = Head(out[e]) /\ id = out[e][1]
    BY <1>1, RestOfIds
<1>5. PICK n \in 1 .. size - sent :
         /\ Len(wire[e]) + n <= Room[e]
         /\ wire' = [wire EXCEPT ![e] =
               @ \o SubSeq(Pieces(e, id), sent + 1, sent + n)]
         /\ sender' = [sender EXCEPT ![e] =
               [pc |-> IF sent + n = size THEN "erase" ELSE "send",
                sent |-> sent + n]]
    BY <1>2, <1>3, <1>4 DEF Send
<1>6. UNCHANGED <<status, out, chunk, buffer, mIncoming, mStop, userVars, repeats>>
    BY DEF Send
<1>7. PICK t \in Seq(Piece) :
         /\ t = SubSeq(Pieces(e, id), sent + 1, sent + n)
         /\ GoesOn(t, id, sent, n)
  <2>1. /\ SubSeq(Pieces(e, id), sent + 1, sent + n) \in Seq(Piece)
        /\ GoesOn(SubSeq(Pieces(e, id), sent + 1, sent + n), id, sent, n)
    BY <1>2, NextPieces, Zenon
  <2>2. QED
    BY <2>1
<1>8. wire' = [wire EXCEPT ![e] = @ \o t]
    BY <1>5, <1>7
<1>9. /\ sender'[e] = [pc |-> IF sent + n = size THEN "erase" ELSE "send",
                       sent |-> sent + n]
      /\ \A d \in End \ {e} : sender'[d] = sender[d]
    BY <1>5 DEF LinkInv, LinkKinds
<1>10. LinkKinds'
  <2>1. wire[e] \in Seq(Piece)
    BY DEF LinkInv, LinkKinds
  <2>2. wire[e] \o t \in Seq(Piece) /\ Len(wire[e] \o t) <= Room[e]
    BY <1>5, <1>7, <2>1, ConcatPieces, ZenonT(30) DEF GoesOn
  <2>3. wire' \in [End -> Seq(Piece)] /\ \A d \in End : Len(wire'[d]) <= Room[d]
    BY <1>8, <2>2 DEF LinkInv, LinkKinds
  <2>4. [pc |-> IF sent + n = size THEN "erase" ELSE "send", sent |-> sent + n]
           \in [pc : {"look", "send", "erase"}, sent : Nat]
    OBVIOUS
  <2>5. sender' \in [End -> [pc : {"look", "send", "erase"}, sent : Nat]]
    BY <1>5, <2>4 DEF LinkInv, LinkKinds
  <2>6. QED
    BY <1>6, <2>3, <2>5 DEF LinkInv, LinkKinds, userVars
<1>11. Stream(e)' = Stream(e) \o t /\ \A d \in End \ {e} : Stream(d)' = Stream(d)
    BY <1>6, <1>8, SendStream DEF LinkInv
<1>12. ASSUME Clean(e), NEW newest \in Nat, Numbered(e, newest)
       PROVE  /\ Numbered(e, newest)'
              /\ NextFrom(e, newest)' = NextFrom(e, newest)
              /\ InMessages(Stream(e), Size(e))'
  <2>1. PICK len \in Nat \ {0} : len = Len(out[e]) /\ len = Len(out'[e])
    BY <1>1, <1>6, RestOfIds
  <2>2. id = newest - len + 1 /\ id \in Int
    <3>1. \A i \in 1 .. len : out[e][i] = newest - len + i
      BY <1>12, <2>1 DEF Numbered
    <3>2. 1 \in 1 .. len
      OBVIOUS
    <3>3. QED
      BY <1>4, <3>1, <3>2
  <2>3. PICK last \in Int : /\ last = IF sent = 0 THEN id - 1 ELSE id
                            /\ last = SentUpTo(e, newest)
    <3>1. SentUpTo(e, newest) = newest - len + IF sent = 0 THEN 0 ELSE 1
      BY <1>3, <2>1 DEF SentUpTo
    <3>2. newest - len + (IF sent = 0 THEN 0 ELSE 1) = IF sent = 0 THEN id - 1 ELSE id
      BY <2>2
    <3>3. (IF sent = 0 THEN id - 1 ELSE id) \in Int
      BY <2>2
    <3>4. QED
      BY <3>1, <3>2, <3>3
  <2>4. SentUpTo(e, newest)' = id
    <3>1. sender'[e].sent # 0
      BY <1>9
    <3>2. QED
      BY <2>1, <2>2, <3>1 DEF SentUpTo
  <2>5. EndsAt(Stream(e), size, sent, last)
    BY <1>2, <1>3, <1>12, <2>3 DEF Numbered
  <2>6. PICK s \in Seq(Piece) : s = Stream(e) /\ s \o t = Stream(e)'
    BY <1>1, <1>11
  <2>7. InMessages(s, size) /\ EndsAt(s, size, sent, last)
    BY <1>1, <1>2, <1>12, <2>5, <2>6 DEF Sound
  <2>8. /\ InMessages(s \o t, size)
        /\ EndsAt(s \o t, size, sent + n, id)
        /\ s \o t # <<>>
        /\ s # <<>> => (s \o t)[1] = s[1]
        /\ s = <<>> => sent = 0 /\ (s \o t)[1].id = id
    <3>1. GoneOn(s, t, size, sent, n, id)
      BY <1>7, <2>2, <2>3, <2>7, StreamAppend
    <3>2. QED
      BY <3>1 DEF GoneOn
  <2>9. NextFrom(e, newest)' = NextFrom(e, newest)
    <3>1. NextFrom(e, newest)' = (s \o t)[1].id
      BY <2>6, <2>8 DEF NextFrom
    <3>2. NextFrom(e, newest) = IF s = <<>> THEN id - 1 + 1 ELSE s[1].id
      BY <2>3, <2>6, <2>8 DEF NextFrom
    <3>3. QED
      BY <2>2, <2>8, <3>1, <3>2, SMTT(30)
  <2>10. EndsAt(Stream(e)', Size(e), sender'[e].sent, id)
    BY <1>2, <1>9, <2>6, <2>8
  <2>11. Numbered(e, newest)'
    BY <1>6, <1>12, <2>4, <2>10 DEF Numbered
  <2>12. QED
    BY <1>2, <2>6, <2>8, <2>9, <2>11
<1>13. \A d \in End, newest \in Nat :
         Clean(d) /\ Numbered(d, newest) =>
             /\ Numbered(d, newest)'
             /\ NextFrom(d, newest)' = NextFrom(d, newest)
    BY <1>6, <1>9, <1>11, <1>12, EndUnaffected
<1>14. \A d \in End : Sound(d)' /\ SenderInStep(d)'
  <2>1. SenderInStep(e)'
    <3>1. sent + n = size => sender'[e].pc = "erase" /\ sender'[e].sent = size
      BY <1>9
    <3>2. sent + n # size => sender'[e].pc = "send" /\ sender'[e].sent < size
      BY <1>9
    <3>3. out'[e] # <<>>
      BY <1>1, <1>6
    <3>4. QED
      BY <1>2, <3>1, <3>2, <3>3 DEF SenderInStep
  <2>2. \A d \in End \ {e} : SenderInStep(d)'
    BY <1>6, <1>9 DEF LinkInv, SenderInStep
  <2>3. Clean(e) => \E newest \in Nat : Numbered(e, newest)
    <3>1. /\ currentID \in Nat /\ LastAnswered \in Nat
          /\ Clean("client") => Numbered("client", currentID)
          /\ Clean("server") => Numbered("server", LastAnswered)
      BY LinkAssumption DEF LinkInv, LinkKinds, TakenInOrder, InTurn
    <3>2. e = "client" \/ e = "server"
      BY DEF End
    <3>3. CASE e = "client"
      BY <3>1, <3>3
    <3>4. CASE e = "server"
      BY <3>1, <3>4
    <3>5. QED
      BY <3>2, <3>3, <3>4
  <2>4. Sound(e)'
    BY <1>6, <1>12, <2>3 DEF Sound, Clean
  <2>5. \A d \in End \ {e} : Sound(d)'
    BY <1>6, <1>11 DEF LinkInv, Sound, Clean
  <2>6. QED
    BY <2>1, <2>2, <2>4, <2>5
<1>15. QED
    BY <1>6, <1>10, <1>13, <1>14, SendingStep DEF userVars

LEMMA AppendId ==
    ASSUME NEW s \in Seq(Id), NEW id \in Id
    PROVE  /\ Append(s, id) \in Seq(Id) /\ Append(s, id) # <<>>
           /\ Len(s) \in Nat /\ Len(Append(s, id)) = Len(s) + 1
           /\ \A i \in 1 .. Len(s) : Append(s, id)[i] = s[i]
           /\ Append(s, id)[Len(s) + 1] = id
BY AppendProperties, LenProperties

\* A message is put into the queue of one that has been given newest before.
LEMMA PushEffect ==
    ASSUME LinkInv, NEW e \in End, NEW newest \in Nat, newest + 1 \in Id,
           InTurn(e, newest),
           out' = [out EXCEPT ![e] = Append(@, newest + 1)],
           UNCHANGED <<sender, wire, chunk, buffer, repeats>>
    PROVE  /\ out' \in [End -> Seq(Id)]
           /\ InTurn(e, newest + 1)'
           /\ NextFrom(e, newest + 1)' = NextFrom(e, newest)
           /\ \A d \in End : Sound(d)' /\ SenderInStep(d)'
           /\ \A d \in End \ {e}, n \in Nat :
                  /\ NextFrom(d, n)' = NextFrom(d, n)
                  /\ InTurn(d, n) => InTurn(d, n)'
<1>1. out[e] \in Seq(Id)
    BY DEF LinkInv, LinkKinds
<1>2. PICK len \in Nat : len = Len(out[e])
    BY <1>1, LenProperties
<1>3. /\ out'[e] = Append(out[e], newest + 1)
      /\ \A d \in End \ {e} : out'[d] = out[d]
    BY DEF LinkInv, LinkKinds
<1>4. /\ Append(out[e], newest + 1) \in Seq(Id) /\ out'[e] # <<>>
      /\ Len(out'[e]) = len + 1
      /\ \A i \in 1 .. len : out'[e][i] = out[e][i]
      /\ out'[e][len + 1] = newest + 1
    BY <1>1, <1>2, <1>3, AppendId
<1>5. out' \in [End -> Seq(Id)]
    BY <1>4 DEF LinkInv, LinkKinds
<1>6. \A d \in End : Stream(d)' = Stream(d)
    BY DEF Stream
<1>7. SentUpTo(e, newest + 1)' = SentUpTo(e, newest)
  <2>1. SentUpTo(e, newest + 1)'
           = (newest + 1) - (len + 1) + IF sender[e].sent = 0 THEN 0 ELSE 1
    BY <1>4 DEF SentUpTo
  <2>2. SentUpTo(e, newest) = newest - len + IF sender[e].sent = 0 THEN 0 ELSE 1
    BY <1>2 DEF SentUpTo
  <2>3. (newest + 1) - (len + 1) = newest - len
    OBVIOUS
  <2>4. QED
    BY <2>1, <2>2, <2>3
<1>8. NextFrom(e, newest + 1)' = NextFrom(e, newest)
    BY <1>6, <1>7 DEF NextFrom
<1>9. ASSUME Numbered(e, newest)
      PROVE  Numbered(e, newest + 1)'
  <2>1. /\ \A i \in 1 .. len : out[e][i] = newest - len + i
        /\ EndsAt(Stream(e), Size(e), sender[e].sent, SentUpTo(e, newest))
        /\ len <= newest
    BY <1>2, <1>9 DEF Numbered
  <2>2. ASSUME NEW i \in 1 .. len + 1
        PROVE  out'[e][i] = (newest + 1) - (len + 1) + i
    <3>1. CASE i = len + 1
      BY <1>4, <3>1
    <3>2. CASE i # len + 1
      <4>1. i \in 1 .. len /\ (newest + 1) - (len + 1) + i = newest - len + i
        BY <3>2
      <4>2. QED
        BY <1>4, <2>1, <4>1
    <3>3. QED
      BY <3>1, <3>2
  <2>3. EndsAt(Stream(e)', Size(e), sender'[e].sent, SentUpTo(e, newest + 1)')
    BY <1>6, <1>7, <2>1
  <2>4. Len(out'[e]) <= newest + 1
    BY <1>4, <2>1
  <2>5. \A i \in 1 .. Len(out'[e]) : out'[e][i] = (newest + 1) - Len(out'[e]) + i
    BY <1>4, <2>2
  <2>6. QED
    BY <2>3, <2>4, <2>5 DEF Numbered
<1>10. (\A d \in End : Sound(d)') /\ InTurn(e, newest + 1)'
    BY <1>6, <1>9 DEF LinkInv, Sound, InTurn, Clean
<1>11. \A d \in End : SenderInStep(d)'
  <2>1. \A d \in End \ {e} : SenderInStep(d)'
    BY <1>3 DEF LinkInv, SenderInStep
  <2>2. SenderInStep(e)'
    BY <1>4 DEF LinkInv, SenderInStep
  <2>3. QED
    BY <2>1, <2>2
<1>12. \A d \in End \ {e}, n \in Nat :
         /\ NextFrom(d, n)' = NextFrom(d, n)
         /\ InTurn(d, n) => InTurn(d, n)'
    BY <1>3, <1>6, EndUnaffected
<1>13. QED
    BY <1>5, <1>8, <1>10, <1>11, <1>12

LEMMA RequestStep ==
    ASSUME LinkInv, Request
    PROVE  LinkInv' /\ LastAnswered' = LastAnswered /\ NextAnswer' = NextAnswer
<1>1. /\ currentID \in Nat /\ currentID + 1 \in Id /\ MaxSends \in Nat
      /\ "client" \in End /\ "server" \in End \ {"client"}
      /\ currentID' = currentID + 1 /\ waiting' = TRUE
      /\ out' = [out EXCEPT !["client"] = Append(@, currentID + 1)]
      /\ UNCHANGED <<status, sender, wire, chunk, buffer, mIncoming, mStop, serving,
                     repeats>>
      /\ currentID + 1 \in 0 .. MaxSends
    BY LinkAssumption DEF LinkInv, LinkKinds, Request, Push, Id, End
<1>2. InTurn("client", currentID) /\ LastAnswered \in Nat
    BY DEF LinkInv, TakenInOrder
<1>3. PICK newest \in Nat : newest = currentID
    BY <1>1
<1>4. /\ out' \in [End -> Seq(Id)]
      /\ InTurn("client", newest + 1)'
      /\ NextFrom("client", newest + 1)' = NextFrom("client", newest)
      /\ \A d \in End : Sound(d)' /\ SenderInStep(d)'
      /\ \A d \in End \ {"client"}, n \in Nat :
             /\ NextFrom(d, n)' = NextFrom(d, n)
             /\ InTurn(d, n) => InTurn(d, n)'
    BY <1>1, <1>2, <1>3, PushEffect
<1>5. LinkKinds'
    BY <1>1, <1>4 DEF LinkInv, LinkKinds
<1>6. NextFrom("client", currentID)' = NextFrom("client", currentID)
    BY <1>1, <1>3, <1>4 DEF NextFrom, SentUpTo
<1>7. LastAnswered' = LastAnswered
    BY <1>1, <1>6 DEF LastAnswered
<1>8. InTurn("client", currentID)'
    BY <1>1, <1>3, <1>4 DEF InTurn, Numbered, SentUpTo
<1>9. PICK la \in Nat : la = LastAnswered /\ la = LastAnswered'
    BY <1>2, <1>7
<1>10. NextFrom("server", la)' = NextFrom("server", la) /\ InTurn("server", la)'
  <2>1. InTurn("server", la)
    BY <1>9 DEF LinkInv
  <2>2. QED
    BY <1>1, <1>4, <2>1
<1>11. InTurn("server", LastAnswered)'
    BY <1>9, <1>10 DEF InTurn
<1>12. NextFrom("server", LastAnswered)' = NextFrom("server", LastAnswered)
    BY <1>9, <1>10
<1>13. TakenInOrder'
    BY <1>1, <1>7 DEF LinkInv, TakenInOrder
<1>14. (Clean("server") => AnswersInOrder /\ status # "assertion")'
    BY <1>1, <1>12 DEF LinkInv, AnswersInOrder, Clean
<1>15. QED
    BY <1>4, <1>5, <1>7, <1>8, <1>11, <1>12, <1>13, <1>14 DEF LinkInv, NextAnswer

LEMMA RespondStep ==
    ASSUME LinkInv, Respond
    PROVE  LinkInv' /\ LastAnswered' = LastAnswered + 1 /\ NextAnswer' = NextAnswer
<1>1. PICK la \in Nat : la = LastAnswered
    BY DEF LinkInv, TakenInOrder
<1>2. /\ serving[1] = la + 1 /\ la + 1 \in Id /\ Len(serving) = 1
      /\ serving # <<>> /\ serving \in Seq(Id)
  <2>1. serving \in Seq(Id) /\ Len(serving) <= 1 /\ serving # <<>>
    BY DEF LinkInv, LinkKinds, Respond
  <2>2. Len(serving) = 1 /\ serving[1] \in Id
    <3>1. Len(serving) \in Nat \ {0} /\ serving[1] \in Id
      BY <2>1, RestOfIds
    <3>2. PICK len \in Nat \ {0} : len = Len(serving)
      BY <3>1
    <3>3. len = 1
      BY <2>1, <3>2
    <3>4. QED
      BY <3>1, <3>2, <3>3
  <2>3. \A i \in 1 .. 1 : serving[i] = la + i
    BY <1>1, <2>2 DEF LinkInv, TakenInOrder
  <2>4. QED
    BY <2>1, <2>2, <2>3
<1>3. /\ out' = [out EXCEPT !["server"] = Append(@, la + 1)] /\ serving' = <<>>
      /\ UNCHANGED <<status, sender, wire, chunk, buffer, mIncoming, mStop,
                     currentID, waiting, repeats>>
      /\ "server" \in End /\ "client" \in End \ {"server"}
    BY <1>2 DEF Respond, Push, End
<1>4. InTurn("server", la)
    BY <1>1 DEF LinkInv
<1>5. /\ out' \in [End -> Seq(Id)]
      /\ InTurn("server", la + 1)'
      /\ NextFrom("server", la + 1)' = NextFrom("server", la)
      /\ \A d \in End : Sound(d)' /\ SenderInStep(d)'
      /\ \A d \in End \ {"server"}, n \in Nat :
             /\ NextFrom(d, n)' = NextFrom(d, n)
             /\ InTurn(d, n) => InTurn(d, n)'
    BY <1>2, <1>3, <1>4, PushEffect
<1>6. serving' \in Seq(Id) /\ Len(serving') = 0
    BY <1>3
<1>7. LinkKinds'
    BY <1>3, <1>5, <1>6, SMTT(30) DEF LinkInv, LinkKinds
<1>8. PICK newest \in Nat : newest = currentID
    BY LinkAssumption DEF LinkInv, LinkKinds
<1>9. NextFrom("client", newest)' = NextFrom("client", newest) /\ InTurn("client", newest)'
  <2>1. InTurn("client", newest)
    BY <1>8 DEF LinkInv
  <2>2. QED
    BY <1>3, <1>5, <2>1
<1>10. InTurn("client", currentID)'
    BY <1>3, <1>8, <1>9 DEF InTurn
<1>11. PICK len \in Nat : len = Len(mIncoming["server"])
    BY <1>3, LenProperties DEF LinkInv, LinkKinds
<1>12. LastAnswered' = la + 1
  <2>1. LastAnswered = NextFrom("client", newest) - 1 - len - 1
    BY <1>2, <1>8, <1>11 DEF LastAnswered
  <2>2. LastAnswered' = NextFrom("client", newest)' - 1 - len - 0
    BY <1>3, <1>6, <1>8, <1>11 DEF LastAnswered
  <2>3. NextFrom("client", newest) \in Int
    BY <1>3, <1>8, NextIsNumber DEF LinkInv
  <2>4. QED
    BY <1>1, <1>9, <2>1, <2>2, <2>3
<1>13. InTurn("server", LastAnswered)'
    BY <1>5, <1>12 DEF InTurn
<1>14. TakenInOrder'
  <2>1. \A i \in 1 .. len : mIncoming["server"][i] = la + 1 + i
    BY <1>1, <1>2, <1>11 DEF LinkInv, TakenInOrder
  <2>2. \A i \in 1 .. len : mIncoming'["server"][i] = LastAnswered' + Len(serving') + i
    BY <1>3, <1>6, <1>12, <2>1
  <2>3. \A i \in 1 .. Len(serving') : serving'[i] = LastAnswered' + i
    BY <1>6
  <2>4. LastAnswered' \in Nat
    BY <1>12
  <2>5. QED
    BY <1>3, <1>11, <2>2, <2>3, <2>4 DEF TakenInOrder
<1>15. NextFrom("server", LastAnswered)' = NextFrom("server", LastAnswered)
    BY <1>1, <1>5, <1>12
<1>16. (Clean("server") => AnswersInOrder /\ status # "assertion")'
    BY <1>3, <1>15 DEF LinkInv, AnswersInOrder, Clean
<1>17. QED
    BY <1>1, <1>5, <1>7, <1>10, <1>12, <1>13, <1>14, <1>15, <1>16 DEF LinkInv, NextAnswer

LEMMA TakeNextStep ==
    ASSUME LinkInv, TakeNext
    PROVE  LinkInv' /\ LastAnswered' = LastAnswered /\ NextAnswer' = NextAnswer
<1>1. PICK la \in Nat : la = LastAnswered
    BY DEF LinkInv, TakenInOrder
<1>2. /\ serving = <<>> /\ mIncoming["server"] # <<>>
      /\ mIncoming["server"] \in Seq(Id) /\ mIncoming \in [End -> Seq(Id)]
      /\ serving' = <<Head(mIncoming["server"])>>
      /\ mIncoming' = [mIncoming EXCEPT !["server"] = Tail(@)]
      /\ "server" \in End /\ "client" \in End /\ "client" # "server"
    BY DEF LinkInv, LinkKinds, TakeNext, Asking, End
<1>3. UNCHANGED <<status, out, sender, wire, chunk, buffer, mStop, currentID, waiting,
                  repeats>>
    BY DEF TakeNext
<1>4. PICK len \in Nat \ {0} : len = Len(mIncoming["server"])
    BY <1>2, RestOfIds
<1>5. /\ Head(mIncoming["server"]) \in Id
      /\ Head(mIncoming["server"]) = mIncoming["server"][1]
      /\ mIncoming'["server"] \in Seq(Id) /\ Len(mIncoming'["server"]) = len - 1
      /\ \A i \in 1 .. len - 1 : mIncoming'["server"][i] = mIncoming["server"][i + 1]
      /\ mIncoming' \in [End -> Seq(Id)] /\ mIncoming'["client"] = mIncoming["client"]
    BY <1>2, <1>4, RestOfIds
<1>6. /\ serving' \in Seq(Id) /\ Len(serving') = 1 /\ Len(serving) = 0
      /\ serving'[1] = mIncoming["server"][1]
    BY <1>2, <1>5
<1>7. LinkKinds'
  <2>1. serving' \in Seq(Id) /\ Len(serving') <= 1
    BY <1>6
  <2>2. QED
    BY <1>3, <1>5, <2>1 DEF LinkInv, LinkKinds
<1>8. \A d \in End : Stream(d)' = Stream(d)
    BY <1>3 DEF Stream
<1>9. \A d \in End : Sound(d)' /\ SenderInStep(d)'
    BY <1>3, <1>8 DEF LinkInv, Sound, Clean, SenderInStep
<1>10. \A d \in End, n \in Nat :
          /\ NextFrom(d, n)' = NextFrom(d, n)
          /\ InTurn(d, n) => InTurn(d, n)'
    BY <1>3, <1>8, EndUnaffected
<1>11. PICK newest \in Nat : newest = currentID
    BY LinkAssumption DEF LinkInv, LinkKinds
<1>12. LastAnswered' = la
  <2>1. LastAnswered = NextFrom("client", newest) - 1 - len - 0
    BY <1>4, <1>6, <1>11 DEF LastAnswered
  <2>2. LastAnswered' = NextFrom("client", newest)' - 1 - (len - 1) - 1
    BY <1>3, <1>5, <1>6, <1>11 DEF LastAnswered
  <2>3. NextFrom("client", newest) \in Int
    BY <1>2, NextIsNumber DEF LinkInv
  <2>4. NextFrom("client", newest)' = NextFrom("client", newest)
    BY <1>2, <1>10
  <2>5. QED
    BY <1>1, <2>1, <2>2, <2>3, <2>4
<1>13. InTurn("client", currentID)'
    BY <1>2, <1>3, <1>10, <1>11 DEF LinkInv
<1>14. InTurn("server", LastAnswered)'
    BY <1>1, <1>2, <1>10, <1>12 DEF LinkInv
<1>15. TakenInOrder'
  <2>1. \A i \in 1 .. len : mIncoming["server"][i] = la + 0 + i
    BY <1>1, <1>4, <1>6 DEF LinkInv, TakenInOrder
  <2>2. ASSUME NEW i \in 1 .. len - 1
        PROVE  mIncoming'["server"][i] = la + 1 + i
    <3>1. i + 1 \in 1 .. len /\ la + 0 + (i + 1) = la + 1 + i
      BY <2>2
    <3>2. mIncoming["server"][i + 1] = la + 0 + (i + 1)
      BY <2>1, <3>1
    <3>3. QED
      BY <1>5, <3>1, <3>2
  <2>3. serving'[1] = la + 1
    <3>1. 1 \in 1 .. len /\ la + 0 + 1 = la + 1
      OBVIOUS
    <3>2. QED
      BY <1>6, <2>1, <3>1
  <2>4. \A i \in 1 .. Len(serving') : serving'[i] = la + i
    BY <1>6, <2>3
  <2>5. \A i \in 1 .. Len(mIncoming'["server"]) :
           mIncoming'["server"][i] = la + Len(serving') + i
    BY <1>5, <1>6, <2>2
  <2>6. QED
    BY <1>12, <2>4, <2>5 DEF TakenInOrder
<1>16. NextFrom("server", LastAnswered)' = NextFrom("server", LastAnswered)
    BY <1>1, <1>2, <1>10, <1>12
<1>17. (Clean("server") => AnswersInOrder /\ status # "assertion")'
    BY <1>3, <1>5, <1>16 DEF LinkInv, AnswersInOrder, Clean
<1>18. QED
    BY <1>1, <1>7, <1>9, <1>12, <1>13, <1>14, <1>15, <1>16, <1>17
       DEF LinkInv, NextAnswer

\* A sequence of growing numbers, and what one is taken out of.
Growing(s, bound) ==
    \A i \in 1 .. Len(s) : s[i] < bound /\ \A j \in 1 .. i - 1 : s[j] < s[i]

LEMMA RemoveId ==
    ASSUME NEW s \in Seq(Id), NEW k \in 1 .. Len(s), NEW bound \in Int
    PROVE  /\ RemoveAt(s, k) \in Seq(Id)
           /\ Growing(s, bound) => Growing(RemoveAt(s, k), bound)
<1>1. DEFINE a == SubSeq(s, 1, k - 1)
             b == SubSeq(s, k + 1, Len(s))
<1>2. PICK len \in Nat \ {0} : len = Len(s) /\ k \in 1 .. len
    BY LenProperties
<1>3. \A i \in 1 .. len : s[i] \in Id
    BY <1>2, ElementOfSeq
<1>4. /\ a \in Seq(Id) /\ Len(a) = k - 1 /\ \A i \in 1 .. k - 1 : a[i] = s[i]
  <2>1. \A i \in 1 .. k - 1 : s[i] \in Id
    BY <1>2, <1>3
  <2>2. /\ a \in Seq(Id) /\ Len(a) = (IF 1 <= k - 1 THEN k - 1 - 1 + 1 ELSE 0)
        /\ \A i \in 1 .. k - 1 - 1 + 1 : a[i] = s[1 + i - 1]
    BY <1>2, <2>1, SubSeqProperties
  <2>3. HIDE DEF a
  <2>4. QED
    BY <1>2, <2>2
<1>5. /\ b \in Seq(Id) /\ Len(b) = len - k /\ \A i \in 1 .. len - k : b[i] = s[k + i]
  <2>1. \A i \in k + 1 .. len : s[i] \in Id
    BY <1>2, <1>3
  <2>2. /\ b \in Seq(Id) /\ Len(b) = (IF k + 1 <= len THEN len - (k + 1) + 1 ELSE 0)
        /\ \A i \in 1 .. len - (k + 1) + 1 : b[i] = s[k + 1 + i - 1]
    BY <1>2, <2>1, SubSeqProperties
  <2>3. HIDE DEF b
  <2>4. QED
    BY <1>2, <2>2
<1>6. RemoveAt(s, k) = a \o b
    BY DEF RemoveAt
<1>7. HIDE DEF a, b
<1>8. PICK r : r = a \o b
    OBVIOUS
<1>9. /\ r \in Seq(Id) /\ Len(r) = (k - 1) + (len - k)
      /\ \A i \in 1 .. (k - 1) + (len - k) :
            r[i] = IF i <= k - 1 THEN a[i] ELSE b[i - (k - 1)]
  <2>1. /\ r \in Seq(Id) /\ Len(r) = Len(a) + Len(b)
        /\ \A i \in 1 .. Len(a) + Len(b) :
              r[i] = IF i <= Len(a) THEN a[i] ELSE b[i - Len(a)]
    BY <1>4, <1>5, <1>8, ConcatProperties, Zenon
  <2>2. Len(a) = k - 1 /\ Len(b) = len - k
    BY <1>4, <1>5
  <2>3. QED
    BY <2>1, <2>2
<1>10. ASSUME NEW i \in 1 .. Len(r)
       PROVE  \E m \in 1 .. len : /\ r[i] = s[m]
                                  /\ m = IF i <= k - 1 THEN i ELSE i + 1
  <2>1. CASE i <= k - 1
    BY <1>2, <1>4, <1>9, <2>1
  <2>2. CASE ~(i <= k - 1)
    <3>1. i - (k - 1) \in 1 .. len - k /\ k + (i - (k - 1)) = i + 1 /\ i + 1 \in 1 .. len
      BY <1>2, <1>9, <2>2
    <3>2. r[i] = b[i - (k - 1)] /\ b[i - (k - 1)] = s[k + (i - (k - 1))]
      BY <1>5, <1>9, <2>2, <3>1
    <3>3. QED
      BY <2>2, <3>1, <3>2
  <2>3. QED
    BY <2>1, <2>2
<1>11. ASSUME Growing(s, bound), NEW i \in 1 .. Len(r)
       PROVE  r[i] < bound
    BY <1>2, <1>10, <1>11 DEF Growing
<1>12. ASSUME Growing(s, bound), NEW i \in 1 .. Len(r), NEW j \in 1 .. i - 1
       PROVE  r[j] < r[i]
  <2>1. j \in 1 .. Len(r) /\ j < i
    BY <1>9, <1>12
  <2>2. PICK m \in 1 .. len : r[i] = s[m] /\ m = IF i <= k - 1 THEN i ELSE i + 1
    BY <1>10
  <2>3. PICK l \in 1 .. len : r[j] = s[l] /\ l = IF j <= k - 1 THEN j ELSE j + 1
    BY <1>10, <2>1
  <2>4. l \in 1 .. m - 1
    BY <2>1, <2>2, <2>3
  <2>5. s[l] < s[m]
    BY <1>2, <1>12, <2>4 DEF Growing
  <2>6. QED
    BY <2>2, <2>3, <2>5
<1>13. Growing(s, bound) => Growing(r, bound)
    BY <1>11, <1>12 DEF Growing
<1>14. QED
    BY <1>6, <1>8, <1>9, <1>13

LEMMA TakeAnswerStep ==
    ASSUME LinkInv, TakeAnswer
    PROVE  LinkInv' /\ LastAnswered' = LastAnswered
<1>1. PICK k \in DOMAIN mIncoming["client"] :
         mIncoming' = [mIncoming EXCEPT !["client"] = RemoveAt(@, k)]
    BY DEF TakeAnswer
<1>2. /\ UNCHANGED <<status, out, sender, wire, chunk, buffer, mStop, currentID, serving,
                     repeats>>
      /\ waiting' = FALSE
    BY DEF TakeAnswer
<1>3. /\ "client" \in End /\ "server" \in End /\ "client" # "server"
      /\ mIncoming \in [End -> Seq(Id)] /\ mIncoming["client"] \in Seq(Id)
    BY DEF LinkInv, LinkKinds, End
<1>4. k \in 1 .. Len(mIncoming["client"])
    BY <1>3, LenProperties
<1>5. PICK bound \in Int : bound = NextFrom("server", LastAnswered)
    BY <1>3, NextIsNumber DEF LinkInv, TakenInOrder
<1>6. PICK s \in Seq(Id) : s = mIncoming["client"]
    BY <1>3
<1>7. Clean("server") => Growing(s, bound)
    BY <1>5, <1>6 DEF LinkInv, AnswersInOrder, Growing
<1>8. /\ RemoveAt(s, k) \in Seq(Id)
      /\ Clean("server") => Growing(RemoveAt(s, k), bound)
    BY <1>4, <1>6, <1>7, RemoveId
<1>9. /\ mIncoming'["client"] = RemoveAt(s, k) /\ mIncoming' \in [End -> Seq(Id)]
      /\ mIncoming'["server"] = mIncoming["server"]
    BY <1>1, <1>3, <1>6, <1>8
<1>10. LinkKinds'
    BY <1>2, <1>9 DEF LinkInv, LinkKinds
<1>11. \A d \in End : Stream(d)' = Stream(d)
    BY <1>2 DEF Stream
<1>12. \A d \in End : Sound(d)' /\ SenderInStep(d)'
    BY <1>2, <1>11 DEF LinkInv, Sound, Clean, SenderInStep
<1>13. \A d \in End, n \in Nat :
          /\ NextFrom(d, n)' = NextFrom(d, n)
          /\ InTurn(d, n) => InTurn(d, n)'
    BY <1>2, <1>11, EndUnaffected
<1>14. PICK newest \in Nat : newest = currentID
    BY LinkAssumption DEF LinkInv, LinkKinds
<1>15. PICK la \in Nat : la = LastAnswered
    BY DEF LinkInv, TakenInOrder
<1>16. LastAnswered' = la
  <2>1. NextFrom("client", currentID)' = NextFrom("client", currentID)
    BY <1>2, <1>3, <1>13, <1>14
  <2>2. QED
    BY <1>2, <1>9, <1>15, <2>1 DEF LastAnswered
<1>17. InTurn("client", currentID)'
    BY <1>2, <1>3, <1>13, <1>14 DEF LinkInv
<1>18. InTurn("server", LastAnswered)'
    BY <1>3, <1>13, <1>15, <1>16 DEF LinkInv
<1>19. NextFrom("server", LastAnswered)' = bound
    BY <1>3, <1>5, <1>13, <1>15, <1>16
<1>20. TakenInOrder'
    BY <1>2, <1>9, <1>15, <1>16 DEF LinkInv, TakenInOrder
<1>21. (Clean("server") => AnswersInOrder /\ status # "assertion")'
    BY <1>2, <1>8, <1>9, <1>19 DEF LinkInv, AnswersInOrder, Growing, Clean
<1>22. QED
    BY <1>10, <1>12, <1>15, <1>16, <1>17, <1>18, <1>20, <1>21 DEF LinkInv

\* What an end finds when it looks for messages.
LEMMA FirstMessage ==
    ASSUME LinkInv, NEW e \in End, Clean(Peer(e)), MessageArrived(e),
           NEW newest \in Nat, Numbered(Peer(e), newest)
    PROVE  LET s == Stream(Peer(e))
           IN  /\ s # <<>>
               /\ FirstWhole(s, SubSeq(s, Size(Peer(e)) + 1, Len(s)), Size(Peer(e)),
                             sender[Peer(e)].sent, SentUpTo(Peer(e), newest))
               /\ s[1].id = NextFrom(Peer(e), newest) /\ s[1].id \in Id
               /\ \A i \in 1 .. Size(Peer(e)) : buffer[e][i] = s[i]
<1>1. Peer(e) \in End /\ Peer(Peer(e)) = e
    BY EndFacts
<1>2. PICK size \in Nat \ {0} : size = Size(Peer(e))
    BY <1>1, EndFacts
<1>3. PICK len \in Nat : len = Len(buffer[e]) /\ len >= size
    BY <1>2, StreamKind, LenProperties DEF LinkInv, MessageArrived
<1>4. PICK s \in Seq(Piece) : s = Stream(Peer(e)) /\ InMessages(s, size)
    BY <1>1, <1>2, StreamKind DEF LinkInv, Sound
<1>5. Len(s) >= len /\ Len(s) \in Nat /\ \A i \in 1 .. len : s[i] = buffer[e][i]
  <2>1. DEFINE b == buffer[e]
               c == chunk[e]
               w == wire[Peer(e)]
  <2>2. b \in Seq(Piece) /\ c \in Seq(Piece) /\ w \in Seq(Piece)
    BY <1>1, StreamKind DEF LinkInv
  <2>3. s = (b \o c) \o w
    BY <1>1, <1>4 DEF Stream
  <2>4. len = Len(b)
    BY <1>3
  <2>5. HIDE DEF b, c, w
  <2>6. c \o w \in Seq(Piece) /\ s = b \o (c \o w)
    BY <2>2, <2>3, ConcatPieces, ConcatRegroups, SMTT(30)
  <2>7. PICK t \in Seq(Piece) : s = b \o t
    BY <2>6
  <2>8. /\ Len(s) = len + Len(t) /\ Len(t) \in Nat /\ Len(s) \in Nat
        /\ \A i \in 1 .. len + Len(t) : s[i] = IF i <= len THEN b[i] ELSE t[i - len]
    BY <2>2, <2>4, <2>7, ConcatPieces
  <2>9. ASSUME NEW i \in 1 .. len PROVE s[i] = b[i]
    <3>1. i \in 1 .. len + Len(t) /\ i <= len
      BY <2>8, <2>9
    <3>2. QED
      BY <2>8, <3>1
  <2>10. QED
    BY <2>8, <2>9 DEF b
<1>6. PICK sent \in 0 .. size : sent = sender[Peer(e)].sent
  <2>1. sender[Peer(e)] \in [pc : {"look", "send", "erase"}, sent : Nat]
    BY <1>1 DEF LinkInv, LinkKinds
  <2>2. SenderInStep(Peer(e))
    BY <1>1 DEF LinkInv
  <2>3. sender[Peer(e)].sent \in Nat /\ sender[Peer(e)].sent <= size
    BY <1>2, <2>1, <2>2 DEF SenderInStep
  <2>4. QED
    BY <2>3
<1>7. PICK id \in Int : id = SentUpTo(Peer(e), newest) /\ EndsAt(s, size, sent, id)
  <2>1. SentUpTo(Peer(e), newest) \in Int
    BY <1>1, SentIsNumber DEF LinkInv
  <2>2. QED
    BY <1>2, <1>4, <1>6, <2>1 DEF Numbered
<1>8. Len(s) >= size /\ s # <<>>
    BY <1>3, <1>5, EmptySeq
<1>9. FirstWhole(s, SubSeq(s, size + 1, Len(s)), size, sent, id)
    BY <1>4, <1>7, <1>8, StreamDrop
<1>10. s[1].id = NextFrom(Peer(e), newest) /\ s[1].id \in Id
    BY <1>1, <1>4, <1>8, NextIsNumber DEF NextFrom, LinkInv
<1>11. \A i \in 1 .. size : buffer[e][i] = s[i]
    BY <1>3, <1>5
<1>12. QED
    BY <1>2, <1>4, <1>6, <1>7, <1>8, <1>9, <1>10, <1>11

LEMMA RefreshCleanly ==
    ASSUME LinkInv, NEW e \in End, Clean(Peer(e)), Refresh(e)
    PROVE  /\ LinkInv' /\ LastAnswered' = LastAnswered
           /\ IF e = "server" THEN NextAnswer' = NextAnswer
              ELSE /\ mIncoming'["client"] = Append(mIncoming["client"], NextAnswer)
                   /\ NextAnswer' = NextAnswer + 1
<1>1. PICK p \in End : p = Peer(e) /\ Peer(p) = e /\ p # e /\ End = {e, p}
    BY EndFacts DEF End
<1>2. PICK size \in Nat \ {0} : size = Size(p)
    BY EndFacts
<1>3. PICK la \in Nat : la = LastAnswered
    BY DEF LinkInv, TakenInOrder
<1>4. PICK cid \in Nat : cid = currentID
    BY LinkAssumption DEF LinkInv, LinkKinds
<1>5. PICK newest \in Nat : newest = (IF p = "client" THEN cid ELSE la)
    OBVIOUS
<1>6. Clean(p) /\ Numbered(p, newest)
    BY <1>1, <1>3, <1>4, <1>5 DEF LinkInv, InTurn, End
<1>7. MessageArrived(e) /\ status = "running"
    BY DEF Refresh, Asking, Running
<1>8. PICK s \in Seq(Piece) : s = Stream(p)
    BY StreamKind DEF LinkInv
<1>9. PICK r : r = SubSeq(s, size + 1, Len(s))
    OBVIOUS
<1>10. PICK id \in Id : id = NextFrom(p, newest) /\ id = s[1].id
    BY <1>1, <1>6, <1>7, <1>8, FirstMessage
<1>11. /\ FirstWhole(s, r, size, sender[p].sent, SentUpTo(p, newest))
       /\ \A i \in 1 .. size : buffer[e][i] = s[i]
       /\ s # <<>>
    BY <1>1, <1>2, <1>6, <1>7, <1>8, <1>9, FirstMessage
<1>12. buffer[e][1].at = 1 /\ buffer[e][1].id = id
  <2>1. 1 \in 1 .. size
    OBVIOUS
  <2>2. QED
    BY <1>10, <1>11, <2>1 DEF FirstWhole
<1>13. size \in 1 .. Len(buffer[e])
  <2>1. Len(buffer[e]) \in Nat
    BY StreamKind, LenProperties DEF LinkInv
  <2>2. QED
    BY <1>1, <1>2, <1>7, <2>1 DEF MessageArrived
<1>14. /\ mIncoming' = [mIncoming EXCEPT ![e] = Append(@, id)]
       /\ buffer' = [buffer EXCEPT ![e] = SubSeq(@, size + 1, Len(@))]
       /\ UNCHANGED <<status, out, sender, wire, chunk, mStop, userVars, repeats>>
  <2>1. ~(Len(buffer[e]) < size \/ buffer[e][1].at # 1)
    BY <1>12, <1>13
  <2>2. QED
    BY <1>1, <1>2, <1>12, <2>1 DEF Refresh
<1>15. /\ SubSeq(buffer[e], size + 1, Len(buffer[e])) \in Seq(Piece)
       /\ Stream(p)' = r /\ Stream(e)' = Stream(e)
    BY <1>1, <1>8, <1>9, <1>13, <1>14, RefreshStream DEF LinkInv
<1>16. /\ mIncoming \in [End -> Seq(Id)] /\ mIncoming[e] \in Seq(Id)
       /\ mIncoming'[e] = Append(mIncoming[e], id)
       /\ \A d \in End \ {e} : mIncoming'[d] = mIncoming[d]
    BY <1>14 DEF LinkInv, LinkKinds
<1>17. PICK len \in Nat : len = Len(mIncoming[e])
    BY <1>16, LenProperties
<1>18. /\ mIncoming' \in [End -> Seq(Id)] /\ Len(mIncoming'[e]) = len + 1
       /\ \A i \in 1 .. len : mIncoming'[e][i] = mIncoming[e][i]
       /\ mIncoming'[e][len + 1] = id
    BY <1>14, <1>16, <1>17, AppendId
<1>19. LinkKinds'
    BY <1>14, <1>15, <1>18 DEF LinkInv, LinkKinds, userVars
<1>20. \A d \in End : Sound(d)' /\ SenderInStep(d)'
  <2>1. Sound(p)'
    BY <1>2, <1>11, <1>15 DEF FirstWhole, Sound
  <2>2. Sound(e)'
    BY <1>14, <1>15 DEF LinkInv, Sound, Clean
  <2>3. \A d \in End : SenderInStep(d)'
    BY <1>14 DEF LinkInv, SenderInStep
  <2>4. QED
    BY <1>1, <2>1, <2>2, <2>3
<1>21. SentUpTo(p, newest)' = SentUpTo(p, newest)
    BY <1>14 DEF SentUpTo
<1>22. InTurn(p, newest)'
  <2>1. EndsAt(Stream(p)', Size(p), sender'[p].sent, SentUpTo(p, newest)')
    BY <1>2, <1>11, <1>14, <1>15, <1>21 DEF FirstWhole
  <2>2. QED
    BY <1>6, <1>14, <2>1 DEF InTurn, Numbered
<1>23. NextFrom(p, newest)' = id + 1
  <2>1. CASE r = <<>>
    BY <1>10, <1>11, <1>15, <1>21, <2>1 DEF NextFrom, FirstWhole
  <2>2. CASE r # <<>>
    BY <1>10, <1>11, <1>15, <2>2 DEF NextFrom, FirstWhole
  <2>3. QED
    BY <2>1, <2>2
<1>24. \A n \in Nat : /\ NextFrom(e, n)' = NextFrom(e, n)
                      /\ InTurn(e, n) => InTurn(e, n)'
    BY <1>14, <1>15, EndUnaffected
<1>25. PICK k \in Nat : k = Len(serving) /\ k = Len(serving')
    BY <1>14, LenProperties DEF LinkInv, LinkKinds, userVars
<1>26. currentID' = cid /\ serving' = serving
    BY <1>4, <1>14 DEF userVars
<1>27. CASE e = "server"
  <2>1. p = "client" /\ newest = cid
    BY <1>1, <1>5, <1>27 DEF End
  <2>2. la = id - 1 - len - k
    BY <1>3, <1>4, <1>10, <1>17, <1>25, <1>27, <2>1 DEF LastAnswered
  <2>3. LastAnswered' = (id + 1) - 1 - (len + 1) - k
    <3>1. NextFrom("client", currentID)' = id + 1
      BY <1>23, <1>26, <2>1
    <3>2. Len(mIncoming'["server"]) = len + 1
      BY <1>18, <1>27
    <3>3. Len(serving') = k
      BY <1>25
    <3>4. PICK next \in Int : next = id + 1 /\ next = NextFrom("client", currentID)'
      BY <3>1 DEF Id
    <3>5. LastAnswered' = next - 1 - (len + 1) - k
      BY <3>2, <3>3, <3>4 DEF LastAnswered
    <3>6. QED
      BY <3>4, <3>5
  <2>4. LastAnswered' = la
    BY <2>2, <2>3 DEF Id
  <2>5. InTurn("client", currentID)'
    BY <1>22, <1>26, <2>1 DEF InTurn
  <2>6. InTurn("server", LastAnswered)'
    <3>1. InTurn("server", la)
      BY <1>3 DEF LinkInv
    <3>2. InTurn("server", la)'
      BY <1>24, <1>27, <3>1
    <3>3. QED
      BY <2>4, <3>2 DEF InTurn
  <2>7. TakenInOrder'
    <3>1. \A i \in 1 .. len : mIncoming[e][i] = la + k + i
      BY <1>3, <1>17, <1>25, <1>27 DEF LinkInv, TakenInOrder
    <3>2. ASSUME NEW i \in 1 .. len + 1
          PROVE  mIncoming'[e][i] = la + k + i
      <4>1. CASE i = len + 1
        BY <1>18, <2>2, <4>1, SMTT(30) DEF Id
      <4>2. CASE i # len + 1
        <5>1. i \in 1 .. len
          BY <4>2
        <5>2. QED
          BY <1>18, <3>1, <5>1
      <4>3. QED
        BY <4>1, <4>2
    <3>3. \A i \in 1 .. k : serving'[i] = la + i
      BY <1>3, <1>25, <1>26 DEF LinkInv, TakenInOrder
    <3>4. QED
      BY <1>18, <1>25, <1>27, <2>4, <3>2, <3>3 DEF TakenInOrder
  <2>8. (Clean("server") => AnswersInOrder /\ status # "assertion")'
    <3>1. NextFrom("server", LastAnswered)' = NextFrom("server", LastAnswered)
      BY <1>3, <1>24, <1>27, <2>4
    <3>2. mIncoming'["client"] = mIncoming["client"]
      BY <1>16, <1>27 DEF End
    <3>3. QED
      BY <1>14, <3>1, <3>2 DEF LinkInv, AnswersInOrder, Clean
  <2>9. NextAnswer' = NextAnswer
    BY <1>3, <1>24, <1>27, <2>4 DEF NextAnswer
  <2>10. QED
    BY <1>3, <1>19, <1>20, <1>27, <2>4, <2>5, <2>6, <2>7, <2>8, <2>9 DEF LinkInv
<1>28. CASE e = "client"
  <2>1. p = "server" /\ newest = la
    BY <1>1, <1>5, <1>28 DEF End
  <2>2. mIncoming'["server"] = mIncoming["server"]
    BY <1>16, <2>1, <1>28 DEF End
  <2>3. NextFrom("client", currentID)' = NextFrom("client", currentID)
    BY <1>4, <1>24, <1>26, <1>28
  <2>4. LastAnswered' = la
    BY <1>3, <1>26, <2>2, <2>3 DEF LastAnswered
  <2>5. InTurn("client", currentID)'
    <3>1. InTurn("client", cid)
      BY <1>4 DEF LinkInv
    <3>2. InTurn("client", cid)'
      BY <1>24, <1>28, <3>1
    <3>3. QED
      BY <1>26, <3>2 DEF InTurn
  <2>6. InTurn("server", LastAnswered)'
    BY <1>22, <2>1, <2>4 DEF InTurn
  <2>7. TakenInOrder'
    BY <1>3, <1>26, <2>2, <2>4 DEF LinkInv, TakenInOrder
  <2>8. AnswersInOrder'
    <3>1. NextFrom("server", LastAnswered)' = id + 1
      BY <1>23, <2>1, <2>4
    <3>2. \A i \in 1 .. len : /\ mIncoming[e][i] < id
                              /\ \A j \in 1 .. i - 1 : mIncoming[e][j] < mIncoming[e][i]
      BY <1>3, <1>6, <1>10, <1>17, <1>28, <2>1 DEF LinkInv, AnswersInOrder
    <3>3. \A i \in 1 .. len : mIncoming[e][i] \in Id
      BY <1>16, <1>17, ElementOfSeq
    <3>4. ASSUME NEW i \in 1 .. len + 1
          PROVE  /\ mIncoming'[e][i] < id + 1
                 /\ \A j \in 1 .. i - 1 : mIncoming'[e][j] < mIncoming'[e][i]
      <4>1. CASE i = len + 1
        <5>1. mIncoming'[e][i] < id + 1
          BY <1>18, <4>1 DEF Id
        <5>2. ASSUME NEW j \in 1 .. i - 1
              PROVE  mIncoming'[e][j] < mIncoming'[e][i]
          <6>1. j \in 1 .. len
            BY <4>1, <5>2
          <6>2. QED
            BY <1>18, <3>2, <4>1, <6>1
        <5>3. QED
          BY <5>1, <5>2
      <4>2. CASE i # len + 1
        <5>1. i \in 1 .. len
          BY <4>2
        <5>2. mIncoming'[e][i] < id + 1
          BY <1>18, <3>2, <3>3, <5>1 DEF Id
        <5>3. ASSUME NEW j \in 1 .. i - 1
              PROVE  mIncoming'[e][j] < mIncoming'[e][i]
          <6>1. j \in 1 .. len
            BY <5>1, <5>3
          <6>2. QED
            BY <1>18, <3>2, <5>1, <5>3, <6>1
        <5>4. QED
          BY <5>2, <5>3
      <4>3. QED
        BY <4>1, <4>2
    <3>5. QED
      BY <1>18, <1>28, <3>1, <3>4 DEF AnswersInOrder
  <2>8a. status' # "assertion"
    BY <1>7, <1>14
  <2>9. /\ mIncoming'["client"] = Append(mIncoming["client"], NextAnswer)
        /\ NextAnswer' = NextAnswer + 1
    BY <1>3, <1>10, <1>16, <1>23, <1>28, <2>1, <2>4 DEF NextAnswer
  <2>10. QED
    BY <1>3, <1>19, <1>20, <1>28, <2>4, <2>5, <2>6, <2>7, <2>8, <2>8a, <2>9 DEF LinkInv
<1>29. QED
    BY <1>27, <1>28 DEF End

\* The client looks for messages when the pieces of one may follow those of
\* another: it takes anything for one, or an assertion fails.
LEMMA RefreshAnyhow ==
    ASSUME LinkInv, ~Clean("server"), Refresh("client")
    PROVE  LinkInv' /\ LastAnswered' = LastAnswered
<1>1. /\ "client" \in End /\ "server" \in End /\ "client" # "server"
      /\ Peer("client") = "server" /\ Peer("server") = "client"
      /\ \A d \in End : d = "client" \/ d = "server"
    BY DEF End, Peer
<1>2. UNCHANGED <<out, sender, wire, chunk, mStop, userVars, repeats>>
    BY DEF Refresh
<1>3. /\ LinkKinds'
      /\ buffer'["server"] = buffer["server"] /\ mIncoming'["server"] = mIncoming["server"]
  <2>1. PICK b \in Seq(Piece) : b = buffer["client"]
    BY <1>1, StreamKind DEF LinkInv
  <2>2. PICK size \in Nat \ {0} : size = Size("server")
    BY <1>1, EndFacts
  <2>3. CASE UNCHANGED <<buffer, mIncoming>>
    <3>1. status' \in {"running", "assertion", "race"}
      BY DEF Refresh, LinkInv, LinkKinds
    <3>2. QED
      BY <1>2, <2>3, <3>1 DEF LinkInv, LinkKinds, userVars
  <2>4. CASE /\ ~(Len(b) < size)
             /\ mIncoming' = [mIncoming EXCEPT !["client"] = Append(@, b[1].id)]
             /\ buffer' = [buffer EXCEPT !["client"] = SubSeq(@, size + 1, Len(@))]
             /\ UNCHANGED status
    <3>1. size \in 1 .. Len(b) /\ 1 \in 1 .. Len(b)
      BY <2>4, LenProperties
    <3>2. b[1] \in Piece
      BY <3>1, ElementOfSeq
    <3>3. PICK id \in Id : id = b[1].id
      BY <3>2 DEF Piece
    <3>4. PICK m \in Seq(Id) : m = mIncoming["client"]
      BY <1>1, StreamKind DEF LinkInv
    <3>5. Append(m, id) \in Seq(Id)
      BY AppendId
    <3>6. SubSeq(b, size + 1, Len(b)) \in Seq(Piece)
      BY <3>1, RestOfPieces
    <3>7. buffer' \in [End -> Seq(Piece)] /\ buffer'["server"] = buffer["server"]
      BY <1>1, <2>1, <2>4, <3>6 DEF LinkInv, LinkKinds
    <3>8. mIncoming' \in [End -> Seq(Id)] /\ mIncoming'["server"] = mIncoming["server"]
      BY <1>1, <2>4, <3>3, <3>4, <3>5 DEF LinkInv, LinkKinds
    <3>9. QED
      BY <1>2, <2>4, <3>7, <3>8 DEF LinkInv, LinkKinds, userVars
  <2>5. QED
    BY <1>1, <2>1, <2>2, <2>3, <2>4 DEF Refresh
<1>4. Stream("client")' = Stream("client")
    BY <1>1, <1>2, <1>3 DEF Stream
<1>5. \A n \in Nat : /\ NextFrom("client", n)' = NextFrom("client", n)
                     /\ InTurn("client", n) => InTurn("client", n)'
    BY <1>1, <1>2, <1>4, EndUnaffected
<1>6. PICK cid \in Nat : cid = currentID /\ cid = currentID'
    BY <1>2, LinkAssumption DEF LinkInv, LinkKinds, userVars
<1>7. LastAnswered' = LastAnswered
    BY <1>2, <1>3, <1>5, <1>6 DEF LastAnswered, userVars
<1>8. InTurn("client", currentID)'
  <2>1. InTurn("client", cid)'
    BY <1>5, <1>6 DEF LinkInv
  <2>2. QED
    BY <1>6, <2>1 DEF InTurn
<1>9. ~Clean("server")'
    BY <1>2 DEF Clean
<1>10. \A d \in End : Sound(d)'
    BY <1>1, <1>2, <1>4, <1>9 DEF LinkInv, Sound, Clean
<1>11. \A d \in End : SenderInStep(d)'
    BY <1>2 DEF LinkInv, SenderInStep
<1>12. TakenInOrder'
    BY <1>2, <1>3, <1>7 DEF LinkInv, TakenInOrder, userVars
<1>13. InTurn("server", LastAnswered)'
    BY <1>9 DEF InTurn
<1>14. QED
    BY <1>3, <1>7, <1>8, <1>9, <1>10, <1>11, <1>12, <1>13 DEF LinkInv

LEMMA RefreshStep ==
    ASSUME LinkInv, NEW e \in End, Refresh(e)
    PROVE  /\ LinkInv' /\ LastAnswered' = LastAnswered
           /\ e = "server" => NextAnswer' = NextAnswer
           /\ e = "client" /\ Clean("server") =>
                 /\ mIncoming'["client"] = Append(mIncoming["client"], NextAnswer)
                 /\ NextAnswer' = NextAnswer + 1
<1>1. CASE Clean(Peer(e))
    BY <1>1, RefreshCleanly DEF Peer
<1>2. CASE ~Clean(Peer(e))
  <2>1. e = "client" /\ ~Clean("server")
    BY <1>2 DEF Clean, Peer, End
  <2>2. QED
    BY <2>1, RefreshAnyhow
<1>3. QED
    BY <1>1, <1>2
-----------------------------------------------------------------------------
(* The theorems.                                                           *)

LEMMA LinkInvInit == Init => LinkInv
<1>1. SUFFICES ASSUME Init PROVE LinkInv
    OBVIOUS
<1>2. /\ "client" \in End /\ "server" \in End
      /\ \A e \in End : /\ out[e] = <<>> /\ wire[e] = <<>> /\ chunk[e] = <<>>
                        /\ buffer[e] = <<>> /\ mIncoming[e] = <<>>
                        /\ sender[e] = [pc |-> "look", sent |-> 0]
                        /\ Peer(e) \in End
    BY <1>1 DEF Init, End, Peer
<1>3. \A e \in End : Stream(e) = <<>>
  <2>1. TAKE e \in End
  <2>2. Stream(e) = <<>> \o <<>> \o <<>>
    BY <1>2 DEF Stream
  <2>3. <<>> \o <<>> = <<>>
    BY EmptySeq, ConcatEmptySeq
  <2>4. QED
    BY <2>2, <2>3
<1>4. LinkKinds
  <2>1. <<>> \in Seq(Id) /\ <<>> \in Seq(Piece) /\ Len(<<>>) = 0
    BY EmptySeq
  <2>2. \A e \in End : Room[e] \in Nat /\ Len(wire[e]) = 0
    BY <1>2, <2>1, LinkAssumption
  <2>3. currentID \in 0 .. MaxSends /\ repeats \in 0 .. MaxRepeats
    BY <1>1, LinkAssumption DEF Init
  <2>4. \A e \in End : Len(wire[e]) <= Room[e]
    BY <2>2
  <2>5. serving \in Seq(Id) /\ Len(serving) <= 1
    BY <1>1, <2>1 DEF Init
  <2>6. QED
    BY <1>1, <2>1, <2>3, <2>4, <2>5 DEF Init, LinkKinds
<1>5. \A e \in End : Sound(e) /\ SenderInStep(e)
  <2>1. TAKE e \in End
  <2>2. Stream(e) = <<>> /\ Len(<<>>) = 0
    BY <1>3
  <2>3. QED
    BY <1>2, <2>2 DEF Sound, InMessages, SenderInStep
<1>6. \A e \in End : InTurn(e, 0)
  <2>1. TAKE e \in End
  <2>2. Len(out[e]) = 0 /\ sender[e].sent = 0 /\ Stream(e) = <<>>
    BY <1>2, <1>3
  <2>3. QED
    BY <2>2 DEF InTurn, Numbered, EndsAt
<1>7. currentID = 0 /\ LastAnswered = 0
  <2>1. currentID = 0 /\ Len(serving) = 0 /\ Len(mIncoming["server"]) = 0
    BY <1>1, <1>2 DEF Init
  <2>2. NextFrom("client", 0) = 1
    <3>1. Len(out["client"]) = 0 /\ sender["client"].sent = 0 /\ Stream("client") = <<>>
      BY <1>2, <1>3
    <3>2. QED
      BY <3>1 DEF NextFrom, SentUpTo
  <2>3. QED
    BY <2>1, <2>2 DEF LastAnswered
<1>8. TakenInOrder /\ AnswersInOrder /\ status # "assertion"
  <2>1. Len(serving) = 0 /\ \A e \in End : Len(mIncoming[e]) = 0
    BY <1>1, <1>2 DEF Init
  <2>2. QED
    BY <1>1, <1>2, <1>7, <2>1 DEF Init, TakenInOrder, AnswersInOrder
<1>9. QED
    BY <1>2, <1>4, <1>5, <1>6, <1>7, <1>8 DEF LinkInv

LEMMA LinkInvStep == LinkInv /\ [Next]_linkVars => LinkInv'
<1>1. SUFFICES ASSUME LinkInv, [Next]_linkVars PROVE LinkInv'
    OBVIOUS
<1>2. ASSUME NEW e \in End, SendingThread(e) \/ ReceivingThread(e)
      PROVE  LinkInv'
    BY <1>1, <1>2, LookStep, SendStep, EraseStep, SendFailsStep, ReceiveStep
       DEF SendingThread, ReceivingThread
<1>3. ASSUME NEW e \in End, Stop(e) \/ Race(e)
      PROVE  LinkInv'
    BY <1>1, <1>3, EndingStep
<1>4. "client" \in End /\ "server" \in End
    BY DEF End
<1>5. CASE Handler
    BY <1>1, <1>4, <1>5, RefreshStep, TakeNextStep, RespondStep DEF Handler
<1>6. CASE Logic
    BY <1>1, <1>4, <1>6, RefreshStep, TakeAnswerStep DEF Logic
<1>7. CASE Request
    BY <1>1, <1>7, RequestStep
<1>8. CASE GiveUp
    BY <1>1, <1>4, <1>8, EndingStep
<1>9. CASE UNCHANGED linkVars
  <2>1. UNCHANGED <<status, out, sender, wire, chunk, buffer, mIncoming, mStop,
                    currentID, waiting, serving, repeats>>
    BY <1>9 DEF linkVars, userVars
  <2>2. LinkKinds'
    BY <1>1, <2>1 DEF LinkInv, LinkKinds
  <2>3. \A e \in End : SenderInStep(e)' /\ Stream(e)' = Stream(e)
    BY <1>1, <2>1 DEF LinkInv, SenderInStep, Stream
  <2>4. QED
    BY <1>1, <2>1, <2>2, <2>3, QuietStep
<1>10. QED
    BY <1>1, <1>2, <1>3, <1>5, <1>6, <1>7, <1>8, <1>9 DEF Next

\* No step makes a message that was begun anew as good as new.
LEMMA CleanBefore ==
    ASSUME LinkInv, [Next]_linkVars, Clean("server")'
    PROVE  Clean("server")
<1>1. repeats \in Nat
    BY LinkAssumption DEF LinkInv, LinkKinds
<1>2. CASE UNCHANGED repeats
    BY <1>2 DEF Clean
<1>3. CASE SendFails
    BY <1>1, <1>3 DEF SendFails, Clean
<1>4. ASSUME NEW e \in End,
             \/ Look(e) \/ Send(e) \/ Erase(e) \/ Receive(e) \/ Insert(e)
             \/ Stop(e) \/ Race(e) \/ Refresh(e)
      PROVE  UNCHANGED repeats
    BY <1>4 DEF Look, Send, Erase, Receive, Insert, Stop, Race, Refresh
<1>5. CASE TakeNext \/ Respond \/ TakeAnswer \/ Request \/ GiveUp
    BY <1>2, <1>5 DEF TakeNext, Respond, TakeAnswer, Request, GiveUp
<1>6. CASE UNCHANGED linkVars
    BY <1>2, <1>6 DEF linkVars
<1>7. "client" \in End /\ "server" \in End
    BY DEF End
<1>8. QED
    BY <1>2, <1>3, <1>4, <1>5, <1>6, <1>7
       DEF Next, Handler, Logic, SendingThread, ReceivingThread

LEMMA LinkInvariant == Spec => []LinkInv
BY LinkInvInit, LinkInvStep, PTL DEF Spec

\* Every variable of a connection keeps a value of its kind, whatever the
\* sizes of the messages and of the room in the sockets: CommunicationManager
\* and ClientSocketManager.
THEOREM LinkTypeCorrect == Spec => []LinkTypeOK
<1>1. LinkInv => LinkTypeOK
  <2>1. SUFFICES ASSUME LinkInv PROVE LinkTypeOK
    OBVIOUS
  <2>2. ASSUME NEW e \in End
        PROVE  /\ out[e] \in Seq(1 .. MaxSends) /\ mIncoming[e] \in Seq(1 .. MaxSends)
               /\ sender[e].sent <= Size(e)
               /\ sender[e].pc # "look" => out[e] # <<>>
               /\ Len(wire[e]) <= Room[e]
    <3>1. SenderInStep(e) /\ Size(e) \in Nat
      BY <2>1, EndFacts DEF LinkInv
    <3>2. sender[e].pc \in {"look", "send", "erase"} /\ sender[e].sent \in Nat
      BY <2>1 DEF LinkInv, LinkKinds
    <3>3. sender[e].sent <= Size(e)
      BY <3>1, <3>2 DEF SenderInStep
    <3>4. QED
      BY <2>1, <3>1, <3>3 DEF LinkInv, LinkKinds, SenderInStep, Id
  <2>3. QED
    BY <2>1, <2>2 DEF LinkInv, LinkKinds, LinkTypeOK, Id
<1>2. QED
    BY LinkInvariant, <1>1, PTL

\* Until a send of the server fails half-way and is repeated, refreshMessages
\* never meets bytes that begin with no type and pop always returns a message,
\* at either end: no assertion of CommunicationManager fails.
THEOREM FramedTypesAreKnown == Spec => []FramedTypeKnown
<1>1. LinkInv => FramedTypeKnown
    BY DEF LinkInv, Clean, FramedTypeKnown, Framed, KnownType
<1>2. QED
    BY LinkInvariant, <1>1, PTL

\* However the sockets cut the bytes, what refreshMessages takes from the front
\* of mIncomingBuffer is one message that the peer has sent: at the server
\* always, at the client until a send of the server fails half-way.
THEOREM MessagesArriveWhole == Spec => []WholeMessages
<1>1. LinkInv => WholeMessages
  <2>1. SUFFICES ASSUME LinkInv, NEW e \in End, Framed(e), MessageArrived(e)
                 PROVE  \E id \in 1 .. MaxSends :
                           SubSeq(buffer[e], 1, Size(Peer(e))) = Pieces(Peer(e), id)
    BY DEF WholeMessages
  <2>2. PICK p \in End : p = Peer(e) /\ Clean(p)
    BY <2>1, EndFacts DEF Framed, Clean, Peer, End
  <2>3. PICK newest \in Nat : Numbered(p, newest)
    <3>1. /\ currentID \in Nat /\ LastAnswered \in Nat
          /\ Clean("client") => Numbered("client", currentID)
          /\ Clean("server") => Numbered("server", LastAnswered)
      BY <2>1, LinkAssumption DEF LinkInv, LinkKinds, TakenInOrder, InTurn
    <3>2. CASE p = "client"
      BY <2>2, <3>1, <3>2
    <3>3. CASE p = "server"
      BY <2>2, <3>1, <3>3
    <3>4. QED
      BY <3>2, <3>3 DEF End
  <2>4. PICK size \in Nat \ {0} : size = Size(p)
    BY EndFacts
  <2>5. PICK s : s = Stream(p)
    OBVIOUS
  <2>6. /\ FirstWhole(s, SubSeq(s, size + 1, Len(s)), size, sender[p].sent,
                      SentUpTo(p, newest))
        /\ s[1].id \in Id
        /\ \A i \in 1 .. size : buffer[e][i] = s[i]
    BY <2>1, <2>2, <2>3, <2>4, <2>5, FirstMessage
  <2>7. PICK id \in Id : id = s[1].id
    BY <2>6
  <2>8. \A i \in 1 .. size : buffer[e][i].at = i /\ buffer[e][i].id = id
    BY <2>6, <2>7 DEF FirstWhole
  <2>9. PICK b \in Seq(Piece) : b = buffer[e]
    BY <2>1 DEF LinkInv, LinkKinds
  <2>10. PICK len \in Nat : len = Len(b) /\ size <= len
    BY <2>1, <2>2, <2>4, <2>9, LenProperties DEF MessageArrived
  <2>11. \A i \in 1 .. len : b[i] \in Piece
    BY <2>9, <2>10, ElementOfSeq
  <2>12. \A i \in 1 .. size : b[i] = [id |-> id, at |-> i]
    <3>1. TAKE i \in 1 .. size
    <3>2. b[i] \in Piece
      BY <2>10, <2>11
    <3>3. b[i].at = i /\ b[i].id = id
      BY <2>8, <2>9
    <3>4. QED
      BY <3>2, <3>3 DEF Piece
  <2>13. /\ SubSeq(b, 1, size) = [i \in 1 .. size |-> b[i]]
    <3>1. SubSeq(b, 1, size) = [i \in 1 .. size - 1 + 1 |-> b[1 + i - 1]]
      BY SMTT(30)
    <3>2. QED
      BY <3>1
  <2>14. Pieces(p, id) = [i \in 1 .. size |-> [id |-> id, at |-> i]]
    BY <2>4 DEF Pieces
  <2>15. SubSeq(b, 1, size) = Pieces(p, id)
    BY <2>12, <2>13, <2>14
  <2>16. QED
    BY <2>2, <2>4, <2>9, <2>15 DEF Id
<1>2. QED
    BY LinkInvariant, <1>1, PTL
-----------------------------------------------------------------------------
(* The connection, with numbers for its queues.  All requests after the    *)
(* last one that was answered are on their way; the answer to the newest   *)
(* one is on its way when that is the last one.  InOrder says that this is *)
(* what the buffers, the sockets and the queues hold.                      *)

After(low, high) == [i \in 1 .. high - low |-> low + i]

Answering == waiting /\ LastAnswered = currentID

Counted == INSTANCE Connection WITH
               Client  <- {"client"},
               inbox   <- [c \in {"client"} |->
                              After(LastAnswered, currentID)],
               waiting <- [c \in {"client"} |-> waiting],
               reply   <- [c \in {"client"} |->
                              IF Answering
                              THEN [type |-> "Answer", id |-> currentID]
                              ELSE [type |-> "None"]]

CountedNext ==
    \E c \in {"client"} :
        \/ Counted!Send(c, currentID + 1)
        \/ Counted!Receive(c)
        \/ Counted!GiveUp(c)
        \/ /\ LastAnswered < currentID
           /\ Counted!Answer(c, [type |-> "Answer", id |-> currentID])

CountedConnection ==
    /\ Counted!ConnInit
    /\ [][Framed("client")' => CountedNext]_(Counted!connVars)

\* No piece belongs to a message that is newer than those e was given to send.
LEMMA NextIsBounded ==
    ASSUME LinkKinds, NEW e \in End, NEW newest \in Nat,
           InMessages(Stream(e), Size(e)), SenderInStep(e), Numbered(e, newest)
    PROVE  NextFrom(e, newest) <= newest + 1
<1>1. SentUpTo(e, newest) <= newest /\ SentUpTo(e, newest) \in Int
  <2>1. PICK len \in Nat : len = Len(out[e])
    BY StreamKind, LenProperties
  <2>2. PICK k \in {0, 1} : k = IF sender[e].sent = 0 THEN 0 ELSE 1
    OBVIOUS
  <2>3. sender[e].sent # 0 => len # 0
    <3>1. SUFFICES ASSUME sender[e].sent # 0 PROVE len # 0
      OBVIOUS
    <3>2. out[e] # <<>> /\ out[e] \in Seq(Id)
      BY <3>1, StreamKind DEF SenderInStep
    <3>3. QED
      BY <2>1, <3>2, EmptySeq
  <2>4. k <= len
    BY <2>2, <2>3
  <2>5. SentUpTo(e, newest) = newest - len + k
    BY <2>1, <2>2 DEF SentUpTo
  <2>6. QED
    BY <2>4, <2>5
<1>2. CASE Stream(e) = <<>>
  <2>1. NextFrom(e, newest) = SentUpTo(e, newest) + 1
    BY <1>2 DEF NextFrom
  <2>2. QED
    BY <1>1, <2>1
<1>3. CASE Stream(e) # <<>>
  <2>1. PICK s \in Seq(Piece) : s = Stream(e)
    BY StreamKind
  <2>2. PICK l \in Nat \ {0} : l = Len(s)
    BY <1>3, <2>1, EmptySeq, LenProperties
  <2>3. s[1] \in Piece /\ s[l] \in Piece /\ s[1].id \in Id /\ s[l].id \in Id
    <3>1. \A i \in 1 .. l : s[i] \in Piece
      BY <2>2, ElementOfSeq
    <3>2. 1 \in 1 .. l /\ l \in 1 .. l
      OBVIOUS
    <3>3. s[1] \in Piece /\ s[l] \in Piece
      BY <3>1, <3>2
    <3>4. QED
      BY <3>3 DEF Piece
  <2>4. s[l].id = SentUpTo(e, newest) /\ NextFrom(e, newest) = s[1].id
    BY <1>3, <2>1, <2>2 DEF Numbered, EndsAt, NextFrom
  <2>5. s[1].id <= s[l].id
    <3>1. CASE l = 1
      BY <2>3, <3>1 DEF Id
    <3>2. CASE l # 1
      <4>1. 1 \in 1 .. l /\ l \in 1 .. l /\ 1 < l
        BY <3>2
      <4>2. Apart(s[1], s[l], l - 1, Size(e))
        BY <2>1, <2>2, <4>1 DEF InMessages
      <4>3. QED
        BY <4>2 DEF Apart
    <3>3. QED
      BY <3>1, <3>2
  <2>6. QED
    BY <1>1, <2>3, <2>4, <2>5 DEF Id
<1>4. QED
    BY <1>2, <1>3

LEMMA AnsweredIsBounded ==
    ASSUME LinkInv
    PROVE  /\ currentID \in Nat /\ LastAnswered \in Nat
           /\ LastAnswered + Len(serving) <= currentID
           /\ Clean("server") =>
                 NextFrom("server", LastAnswered) <= LastAnswered + 1
           /\ NextFrom("server", LastAnswered) \in Int
<1>1. currentID \in Nat /\ LastAnswered \in Nat /\ "client" \in End /\ "server" \in End
    BY LinkAssumption DEF LinkInv, LinkKinds, TakenInOrder, End
<1>2. PICK cid \in Nat : cid = currentID
    BY <1>1
<1>3. PICK la \in Nat : la = LastAnswered
    BY <1>1
<1>4. NextFrom("client", cid) <= cid + 1 /\ NextFrom("client", cid) \in Int
    BY <1>1, <1>2, NextIsBounded, NextIsNumber DEF LinkInv, InTurn, Sound, Clean
<1>5. /\ NextFrom("server", la) \in Int
      /\ Clean("server") => NextFrom("server", la) <= la + 1
    BY <1>1, <1>3, NextIsBounded, NextIsNumber DEF LinkInv, InTurn, Sound
<1>6. PICK len \in Nat : len = Len(mIncoming["server"])
    BY <1>1, LenProperties DEF LinkInv, LinkKinds
<1>7. PICK k \in Nat : k = Len(serving)
    BY LenProperties DEF LinkInv, LinkKinds
<1>8. la = NextFrom("client", cid) - 1 - len - k
    BY <1>2, <1>3, <1>6, <1>7 DEF LastAnswered
<1>9. la + k <= cid
    BY <1>4, <1>8
<1>10. QED
    BY <1>1, <1>2, <1>3, <1>5, <1>7, <1>9

LEMMA AfterFacts ==
    ASSUME NEW low \in Nat, NEW high \in Nat, low <= high
    PROVE  /\ After(low, high) \in Seq(Nat)
           /\ Len(After(low, high)) = high - low
           /\ Append(After(low, high), high + 1) = After(low, high + 1)
           /\ low < high => Tail(After(low, high)) = After(low + 1, high)
<1>1. ASSUME NEW a \in Nat, NEW b \in Nat, a <= b
      PROVE  /\ After(a, b) \in Seq(Nat) /\ Len(After(a, b)) = b - a
             /\ \A i \in 1 .. b - a : After(a, b)[i] = a + i
  <2>1. After(a, b) = [i \in 1 .. b - a |-> a + i] /\ b - a \in Nat
    BY <1>1 DEF After
  <2>2. After(a, b) \in [1 .. b - a -> Nat]
    BY <2>1
  <2>3. After(a, b) \in Seq(Nat)
    BY <2>1, <2>2, SMTT(30)
  <2>4. Len(After(a, b)) = b - a
    BY <2>1, <2>2, <2>3, LenProperties
  <2>5. QED
    BY <2>1, <2>3, <2>4
<1>2. PICK s \in Seq(Nat) : /\ s = After(low, high) /\ Len(s) = high - low
                            /\ \A i \in 1 .. high - low : s[i] = low + i
    BY <1>1
<1>3. PICK top \in Nat : top = high + 1 /\ low <= top /\ top - low = (high - low) + 1
    OBVIOUS
<1>4. Append(s, top) = After(low, top)
  <2>1. PICK t : t = Append(s, top)
    OBVIOUS
  <2>2. /\ t \in Seq(Nat) /\ Len(t) = Len(s) + 1
        /\ \A i \in 1 .. Len(s) : t[i] = s[i]
        /\ t[Len(s) + 1] = top
    <3>1. /\ Append(s, top) \in Seq(Nat) /\ Len(Append(s, top)) = Len(s) + 1
          /\ \A i \in 1 .. Len(s) : Append(s, top)[i] = s[i]
          /\ Append(s, top)[Len(s) + 1] = top
      BY AppendProperties, SMTT(30)
    <3>2. QED
      BY <2>1, <3>1, ZenonT(30)
  <2>3. /\ Len(t) = top - low
        /\ \A i \in 1 .. high - low : t[i] = s[i]
        /\ t[top - low] = top
    BY <1>2, <1>3, <2>2
  <2>4. PICK u : u = After(low, top)
    OBVIOUS
  <2>5. /\ u \in Seq(Nat) /\ Len(u) = top - low
        /\ \A i \in 1 .. top - low : u[i] = low + i
    BY <1>1, <1>3, <2>4
  <2>6. ASSUME NEW i \in 1 .. Len(t) PROVE t[i] = u[i]
    <3>1. i \in 1 .. top - low /\ u[i] = low + i
      BY <2>3, <2>5, <2>6
    <3>2. CASE i = top - low
      BY <1>3, <2>3, <3>1, <3>2
    <3>3. CASE i # top - low
      <4>1. i \in 1 .. high - low
        BY <1>3, <3>1, <3>3
      <4>2. QED
        BY <1>2, <2>3, <3>1, <4>1
    <3>4. QED
      BY <3>2, <3>3
  <2>7. Len(t) = Len(u)
    BY <2>3, <2>5
  <2>8. QED
    BY <2>1, <2>2, <2>4, <2>5, <2>6, <2>7, SeqEqual
<1>5. ASSUME low < high
      PROVE  Tail(s) = After(low + 1, high)
  <2>1. PICK next \in Nat : /\ next = low + 1 /\ next <= high
                            /\ high - next = (high - low) - 1
    BY <1>5
  <2>2. PICK u : u = After(next, high)
    OBVIOUS
  <2>3. /\ u \in Seq(Nat) /\ Len(u) = high - next
        /\ \A i \in 1 .. high - next : u[i] = next + i
    BY <1>1, <2>1, <2>2
  <2>4. s # <<>>
    BY <1>2, <1>5, EmptySeq
  <2>5. PICK t : t = Tail(s)
    OBVIOUS
  <2>6. /\ t \in Seq(Nat) /\ Len(t) = Len(s) - 1
        /\ \A i \in 1 .. Len(t) : t[i] = s[i + 1]
    BY <2>4, <2>5, HeadTailProperties
  <2>7. Len(t) = high - next
    BY <1>2, <2>1, <2>6
  <2>8. ASSUME NEW i \in 1 .. Len(t) PROVE t[i] = u[i]
    <3>1. i \in 1 .. high - next /\ i + 1 \in 1 .. high - low
      BY <2>1, <2>7, <2>8
    <3>2. t[i] = s[i + 1] /\ s[i + 1] = low + (i + 1) /\ u[i] = next + i
      BY <1>2, <2>3, <2>6, <2>8, <3>1
    <3>3. low + (i + 1) = next + i
      BY <2>1, <3>1
    <3>4. QED
      BY <3>2, <3>3
  <2>9. Len(t) = Len(u)
    BY <2>3, <2>7
  <2>10. t = u
    BY <2>3, <2>6, <2>8, <2>9, SeqEqual
  <2>11. QED
    BY <2>1, <2>2, <2>5, <2>10
<1>6. QED
    BY <1>2, <1>3, <1>4, <1>5

\* Every set of numbers that has a member has a least one: what stands for
\* induction below.
LEMMA LeastNumber ==
    ASSUME NEW T, T \subseteq Nat, T # {}
    PROVE  \E m \in T : \A n \in T : m <= n
<1>1. DEFINE less == OpToRel(<, Nat)
<1>2. IsWellFoundedOn(less, Nat)
    BY NatLessThanWellFounded, Zenon
<1>3. \A m, n \in Nat : m < n => <<m, n>> \in less
    BY SMT DEF OpToRel
<1>4. HIDE DEF less
<1>5. PICK m \in T : \A n \in T : ~(<<n, m>> \in less)
    BY <1>2, WFMin, Zenon
<1>6. ASSUME NEW n \in T PROVE m <= n
  <2>1. m \in Nat /\ n \in Nat /\ ~(<<n, m>> \in less)
    BY <1>5
  <2>2. ~(n < m)
    BY <1>3, <2>1
  <2>3. QED
    BY <2>1, <2>2
<1>7. QED
    BY <1>6

\* What After(low, high) is.
LEMMA AfterIs ==
    ASSUME NEW low \in Nat, NEW high \in Nat, low <= high,
           NEW s, s \in Seq(Nat), Len(s) = high - low,
           \A i \in 1 .. high - low : s[i] = low + i
    PROVE  s = After(low, high)
<1>1. PICK u : u = After(low, high)
    OBVIOUS
<1>2. u \in Seq(Nat) /\ Len(u) = high - low
    BY <1>1, AfterFacts
<1>3. \A i \in 1 .. high - low : u[i] = low + i
    BY <1>1 DEF After
<1>4. \A i \in 1 .. Len(s) : s[i] = u[i]
    BY <1>3
<1>5. QED
    BY <1>1, <1>2, <1>4, SeqEqual

LEMMA AfterJoins ==
    ASSUME NEW low \in Nat, NEW mid \in Nat, NEW high \in Nat,
           low <= mid, mid <= high
    PROVE  After(low, mid) \o After(mid, high) = After(low, high)
<1>1. PICK s \in Seq(Nat) : /\ s = After(low, mid) /\ Len(s) = mid - low
                            /\ \A i \in 1 .. mid - low : s[i] = low + i
    BY AfterFacts DEF After
<1>2. PICK t \in Seq(Nat) : /\ t = After(mid, high) /\ Len(t) = high - mid
                            /\ \A i \in 1 .. high - mid : t[i] = mid + i
    BY AfterFacts DEF After
<1>3. PICK u : u = s \o t
    OBVIOUS
<1>4. /\ u \in Seq(Nat) /\ Len(u) = Len(s) + Len(t)
      /\ \A i \in 1 .. Len(s) + Len(t) :
            u[i] = IF i <= Len(s) THEN s[i] ELSE t[i - Len(s)]
    BY <1>3, ConcatProperties
<1>5. Len(u) = high - low
    BY <1>1, <1>2, <1>4
<1>6. ASSUME NEW i \in 1 .. high - low PROVE u[i] = low + i
  <2>1. i \in 1 .. Len(s) + Len(t)
    BY <1>1, <1>2
  <2>2. CASE i <= Len(s)
    <3>1. i \in 1 .. mid - low
      BY <1>1, <2>2
    <3>2. QED
      BY <1>1, <1>4, <2>1, <2>2, <3>1
  <2>3. CASE ~(i <= Len(s))
    <3>1. PICK j \in 1 .. high - mid : j = i - Len(s) /\ mid + j = low + i
      BY <1>1, <1>2, <2>1, <2>3
    <3>2. u[i] = t[j]
      BY <1>4, <2>1, <2>3, <3>1
    <3>3. QED
      BY <1>2, <3>1, <3>2
  <2>4. QED
    BY <2>2, <2>3
<1>7. low <= high
    OBVIOUS
<1>8. u = After(low, high)
    BY <1>4, <1>5, <1>6, <1>7, AfterIs
<1>9. QED
    BY <1>1, <1>2, <1>3, <1>8
-----------------------------------------------------------------------------
\* The recursion of HeadersIn has at most one solution.
HeadersOf(s, f) ==
    f = [n \in 0 .. Len(s) |->
            IF n = 0 THEN <<>>
            ELSE IF s[n].at = 1 THEN Append(f[n - 1], s[n].id)
            ELSE f[n - 1]]

LEMMA HeadersAgree ==
    ASSUME NEW s, NEW l \in Nat, l = Len(s), NEW f, HeadersOf(s, f),
           NEW g, HeadersOf(s, g)
    PROVE  f = g
<1>1. \A n \in 0 .. l :
          /\ f[n] = IF n = 0 THEN <<>>
                    ELSE IF s[n].at = 1 THEN Append(f[n - 1], s[n].id) ELSE f[n - 1]
          /\ g[n] = IF n = 0 THEN <<>>
                    ELSE IF s[n].at = 1 THEN Append(g[n - 1], s[n].id) ELSE g[n - 1]
    BY DEF HeadersOf
<1>2. f = [n \in 0 .. l |-> f[n]] /\ g = [n \in 0 .. l |-> g[n]]
    BY DEF HeadersOf
<1>3. DEFINE T == {n \in 0 .. l : f[n] # g[n]}
<1>4. CASE T = {}
    BY <1>2, <1>4
<1>5. CASE T # {}
  <2>1. T \subseteq Nat
    OBVIOUS
  <2>2. PICK m \in T : \A n \in T : m <= n
    BY <1>5, <2>1, LeastNumber
  <2>3. m \in 0 .. l /\ f[m] # g[m]
    BY <2>2
  <2>4. m # 0
    BY <1>1, <2>3
  <2>5. m - 1 \in 0 .. l /\ m - 1 < m
    BY <2>3, <2>4
  <2>6. m - 1 \notin T
    BY <2>2, <2>3, <2>5
  <2>7. f[m - 1] = g[m - 1]
    BY <2>5, <2>6
  <2>8. f[m] = g[m]
    BY <1>1, <2>3, <2>4, <2>7
  <2>9. QED
    BY <2>3, <2>8
<1>6. QED
    BY <1>4, <1>5

LEMMA HeadersEquation ==
    ASSUME NEW s, NEW l \in Nat, l = Len(s), NEW h, HeadersOf(s, h)
    PROVE  HeadersIn(s) = h[l]
<1>1. DEFINE f == CHOOSE f : HeadersOf(s, f)
<1>2. HeadersIn(s) = f[Len(s)]
    BY Zenon DEF HeadersIn, HeadersOf
<1>3. HeadersOf(s, f)
    BY Zenon
<1>4. HIDE DEF f
<1>5. f = h
    BY <1>3, HeadersAgree
<1>6. QED
    BY <1>2, <1>5

\* A stream cut into messages holds the headers of consecutive ones.
LEMMA HeadersOfStream ==
    ASSUME NEW size \in Nat \ {0}, NEW s \in Seq(Piece), InMessages(s, size), s # <<>>
    PROVE  /\ s[1].id \in Id /\ s[Len(s)].id \in Id /\ s[1].id <= s[Len(s)].id
           /\ HeadersIn(s) = After(s[1].id - 1, s[Len(s)].id)
<1>1. PICK l \in Nat \ {0} : l = Len(s)
    BY EmptySeq, LenProperties
<1>2. \A i \in 1 .. l : s[i] \in Piece /\ s[i].id \in Nat \ {0} /\ s[i].id \in Id
  <2>1. \A i \in 1 .. l : s[i] \in Piece
    BY <1>1, ElementOfSeq
  <2>2. QED
    BY <2>1 DEF Piece, Id
<1>3. \A i \in 1 .. l : s[i].at \in 1 .. size
    BY <1>1 DEF InMessages
<1>4. ASSUME NEW n \in 1 .. l PROVE s[1].id <= s[n].id
  <2>1. CASE n = 1
    BY <1>2, <2>1
  <2>2. CASE n # 1
    <3>1. 1 \in 1 .. Len(s) /\ n \in 1 .. Len(s) /\ 1 < n
      BY <1>1, <2>2
    <3>2. Apart(s[1], s[n], n - 1, size)
      BY <3>1 DEF InMessages
    <3>3. QED
      BY <3>2 DEF Apart
  <2>3. QED
    BY <2>1, <2>2
<1>5. ASSUME NEW n \in 2 .. l
      PROVE  s[n].id = IF s[n].at = 1 THEN s[n - 1].id + 1 ELSE s[n - 1].id
  <2>1. PICK m \in 1 .. l : m = n - 1 /\ n - m = 1 /\ m < n
    OBVIOUS
  <2>2. Apart(s[m], s[n], 1, size)
    BY <1>1, <2>1 DEF InMessages
  <2>3. s[m].at \in 1 .. size /\ s[n].at \in 1 .. size
    BY <1>3
  <2>4. CASE s[m].at = size
    BY <2>1, <2>2, <2>3, <2>4 DEF Apart
  <2>5. CASE s[m].at # size
    BY <2>1, <2>2, <2>3, <2>5 DEF Apart
  <2>6. QED
    BY <2>4, <2>5
<1>6. PICK low \in Nat : low = s[1].id - 1 /\ s[1].id = low + 1
  <2>1. 1 \in 1 .. l
    OBVIOUS
  <2>2. s[1].id \in Nat \ {0}
    BY <1>2, <2>1
  <2>3. QED
    BY <2>2
<1>7. DEFINE h == [n \in 0 .. l |-> IF n = 0 THEN <<>> ELSE After(low, s[n].id)]
<1>8. ASSUME NEW n \in 0 .. l
      PROVE  h[n] = IF n = 0 THEN <<>>
                    ELSE IF s[n].at = 1 THEN Append(h[n - 1], s[n].id)
                    ELSE h[n - 1]
  <2>1. CASE n = 0
    BY <2>1
  <2>2. CASE n = 1
    <3>1. s[1].at = 1 /\ h[0] = <<>> /\ h[1] = After(low, s[1].id)
      BY <1>1, <2>2 DEF InMessages
    <3>2. Append(After(low, low), low + 1) = After(low, low + 1)
      <4>1. low \in Nat /\ low <= low
        OBVIOUS
      <4>2. QED
        BY <4>1, AfterFacts, Zenon
    <3>3. After(low, low) = <<>>
      <4>1. low <= low /\ low - low = 0
        OBVIOUS
      <4>2. After(low, low) \in Seq(Nat) /\ Len(After(low, low)) = low - low
        BY <4>1, AfterFacts
      <4>3. QED
        BY <4>1, <4>2, EmptySeq
    <3>4. h[1] = Append(<<>>, s[1].id)
      BY <1>6, <3>1, <3>2, <3>3
    <3>5. h[1] = IF s[1].at = 1 THEN Append(h[0], s[1].id) ELSE h[0]
      BY <3>1, <3>4
    <3>6. 1 # 0 /\ 1 - 1 = 0
      OBVIOUS
    <3>7. QED
      BY <2>2, <3>5, <3>6
  <2>3. CASE n \notin {0, 1}
    <3>1. n \in 2 .. l /\ n - 1 \in 1 .. l
      BY <2>3
    <3>2. h[n] = After(low, s[n].id) /\ h[n - 1] = After(low, s[n - 1].id)
      BY <3>1
    <3>3. PICK id \in Nat : id = s[n - 1].id /\ low <= id
      <4>1. s[n - 1].id \in Nat /\ s[1].id <= s[n - 1].id
        BY <1>2, <1>4, <3>1
      <4>2. QED
        BY <1>6, <4>1
    <3>4. s[n].id = IF s[n].at = 1 THEN id + 1 ELSE id
      BY <1>5, <3>1, <3>3
    <3>5. Append(After(low, id), id + 1) = After(low, id + 1)
      BY <3>3, AfterFacts
    <3>6. QED
      BY <2>3, <3>2, <3>3, <3>4, <3>5
  <2>4. QED
    BY <2>1, <2>2, <2>3
<1>9. HeadersOf(s, h)
    BY <1>1, <1>8 DEF HeadersOf
<1>10. HeadersIn(s) = h[l]
    BY <1>1, <1>9, HeadersEquation
<1>11. h[l] = After(low, s[l].id) /\ 1 \in 1 .. l /\ l \in 1 .. l
    OBVIOUS
<1>12. HIDE DEF h
<1>13. QED
    BY <1>1, <1>2, <1>4, <1>6, <1>10, <1>11

LEMMA NoHeaders == HeadersIn(<<>>) = <<>>
<1>1. DEFINE h == [n \in 0 .. 0 |-> <<>>]
<1>2. Len(<<>>) = 0
    OBVIOUS
<1>3. HeadersOf(<<>>, h)
    BY <1>2 DEF HeadersOf
<1>4. HeadersIn(<<>>) = h[0]
    BY <1>2, <1>3, HeadersEquation
<1>5. QED
    BY <1>4

\* What is on its way from e are the messages up to the newest one that its
\* peer has not taken.
LEMMA MessagesAre ==
    ASSUME LinkKinds, NEW e \in End, NEW newest \in Nat,
           InMessages(Stream(e), Size(e)), SenderInStep(e), Numbered(e, newest)
    PROVE  /\ NextFrom(e, newest) - 1 \in Nat
           /\ NextFrom(e, newest) - 1 <= newest
           /\ MessagesFrom(e) = After(NextFrom(e, newest) - 1, newest)
<1>1. PICK w \in Seq(Id) : w = out[e]
    BY StreamKind
<1>2. PICK len \in Nat : len = Len(w)
    BY <1>1, LenProperties
<1>3. PICK k \in {0, 1} : k = IF sender[e].sent = 0 THEN 0 ELSE 1
    OBVIOUS
<1>4. k <= len
  <2>1. sender[e].sent # 0 => w # <<>>
    BY <1>1 DEF SenderInStep, LinkKinds
  <2>2. w # <<>> => len # 0
    BY <1>2, EmptySeq
  <2>3. QED
    BY <1>3, <2>1, <2>2
<1>5. len <= newest /\ \A i \in 1 .. len : w[i] = newest - len + i
    BY <1>1, <1>2 DEF Numbered
<1>6. PICK begun \in Nat : begun = newest - len + k /\ begun <= newest
    BY <1>4, <1>5
<1>7. SentUpTo(e, newest) = begun
    BY <1>1, <1>2, <1>3, <1>6 DEF SentUpTo
<1>8. SubSeq(w, k + 1, len) = After(begun, newest)
  <2>1. PICK r : r = SubSeq(w, k + 1, len)
    OBVIOUS
  <2>2. \A i \in k + 1 .. len : w[i] \in Nat
    BY <1>5
  <2>3. /\ r \in Seq(Nat)
        /\ Len(r) = IF k + 1 <= len THEN len - (k + 1) + 1 ELSE 0
        /\ \A i \in 1 .. len - (k + 1) + 1 : r[i] = w[k + 1 + i - 1]
    BY <1>1, <1>2, <1>4, <2>1, <2>2, SubSeqProperties
  <2>4. Len(r) = newest - begun
    BY <1>4, <1>6, <2>3
  <2>5. ASSUME NEW i \in 1 .. newest - begun PROVE r[i] = begun + i
    <3>1. PICK j \in 1 .. len : j = k + 1 + i - 1 /\ newest - len + j = begun + i
      BY <1>4, <1>6
    <3>2. i \in 1 .. len - (k + 1) + 1
      BY <1>6
    <3>3. r[i] = w[j]
      BY <2>3, <3>1, <3>2
    <3>4. QED
      BY <1>5, <3>1, <3>3
  <2>6. r = After(begun, newest)
    BY <1>6, <2>3, <2>4, <2>5, AfterIs
  <2>7. QED
    BY <2>1, <2>6
<1>9. MessagesFrom(e) = HeadersIn(Stream(e)) \o After(begun, newest)
  <2>1. SubSeq(out[e], IF sender[e].sent = 0 THEN 1 ELSE 2, Len(out[e]))
            = SubSeq(w, k + 1, len)
    BY <1>1, <1>2, <1>3
  <2>2. QED
    BY <1>8, <2>1 DEF MessagesFrom
<1>10. CASE Stream(e) = <<>>
  <2>1. NextFrom(e, newest) = begun + 1
    BY <1>7, <1>10 DEF NextFrom
  <2>2. After(begun, newest) \in Seq(Nat)
    BY <1>6, AfterFacts
  <2>3. MessagesFrom(e) = After(begun, newest)
    BY <1>9, <1>10, <2>2, NoHeaders, ConcatEmptySeq
  <2>4. QED
    BY <1>6, <2>1, <2>3
<1>11. CASE Stream(e) # <<>>
  <2>1. PICK s \in Seq(Piece) : s = Stream(e)
    BY StreamKind
  <2>2. Size(e) \in Nat \ {0}
    BY EndFacts
  <2>3. /\ s[1].id \in Id /\ s[Len(s)].id \in Id /\ s[1].id <= s[Len(s)].id
        /\ HeadersIn(s) = After(s[1].id - 1, s[Len(s)].id)
    BY <1>11, <2>1, <2>2, HeadersOfStream
  <2>4. s[Len(s)].id = begun
    BY <1>7, <1>11, <2>1 DEF Numbered, EndsAt
  <2>5. NextFrom(e, newest) = s[1].id
    BY <1>11, <2>1 DEF NextFrom
  <2>6. PICK low \in Nat : low = s[1].id - 1 /\ low <= begun
    BY <2>3, <2>4 DEF Id
  <2>7. MessagesFrom(e) = After(low, begun) \o After(begun, newest)
    BY <1>9, <2>1, <2>3, <2>4, <2>6
  <2>8. After(low, begun) \o After(begun, newest) = After(low, newest)
    BY <1>6, <2>6, AfterJoins
  <2>9. NextFrom(e, newest) - 1 = low
    BY <2>5, <2>6
  <2>10. low <= newest
    BY <1>6, <2>6
  <2>11. QED
    BY <2>7, <2>8, <2>9, <2>10, Zenon
<1>12. QED
    BY <1>10, <1>11, Zenon
LEMMA IdsAreNumbers ==
    ASSUME NEW s \in Seq(Id)
    PROVE  s \in Seq(Nat) /\ s \in Seq(Int)
<1>1. Id \subseteq Nat /\ Id \subseteq Int
    BY DEF Id
<1>2. QED
    BY <1>1, SeqMonotonic, ZenonT(30)

\* What the handler works on, what it will take and what is on its way to it
\* are the requests after the last one that was answered.
LEMMA RequestsAre ==
    ASSUME LinkInv
    PROVE  Requests = After(LastAnswered, currentID)
<1>1. "client" \in End /\ "server" \in End
    BY DEF End
<1>2. PICK cid \in Nat : cid = currentID
    BY AnsweredIsBounded
<1>3. PICK la \in Nat : la = LastAnswered
    BY AnsweredIsBounded
<1>4. PICK s \in Seq(Id) : s = serving
    BY DEF LinkInv, LinkKinds
<1>5. PICK k \in Nat : k = Len(s)
    BY LenProperties
<1>6. PICK t \in Seq(Id) : t = mIncoming["server"]
    BY <1>1 DEF LinkInv, LinkKinds
<1>7. PICK len \in Nat : len = Len(t)
    BY LenProperties
<1>8. PICK mid \in Nat : mid = la + k /\ la <= mid /\ mid - la = k
    OBVIOUS
<1>9. PICK next \in Nat : next = mid + len /\ mid <= next /\ next - mid = len
    OBVIOUS
<1>10. s = After(la, mid)
  <2>1. s \in Seq(Nat)
    BY IdsAreNumbers
  <2>2. \A i \in 1 .. mid - la : s[i] = la + i
    BY <1>3, <1>4, <1>5, <1>8 DEF LinkInv, TakenInOrder
  <2>3. Len(s) = mid - la
    BY <1>5, <1>8
  <2>4. QED
    BY <1>8, <2>1, <2>2, <2>3, AfterIs
<1>11. t = After(mid, next)
  <2>1. t \in Seq(Nat)
    BY IdsAreNumbers
  <2>2. \A i \in 1 .. next - mid : t[i] = mid + i
    BY <1>3, <1>4, <1>5, <1>6, <1>7, <1>8, <1>9 DEF LinkInv, TakenInOrder
  <2>3. Len(t) = next - mid
    BY <1>7, <1>9
  <2>4. QED
    BY <1>9, <2>1, <2>2, <2>3, AfterIs
<1>12. next <= cid /\ MessagesFrom("client") = After(next, cid)
  <2>1. /\ NextFrom("client", cid) - 1 <= cid
        /\ MessagesFrom("client") = After(NextFrom("client", cid) - 1, cid)
    BY <1>1, <1>2, MessagesAre DEF LinkInv, InTurn, Sound, Clean
  <2>2. NextFrom("client", cid) \in Int
    BY <1>1, NextIsNumber DEF LinkInv
  <2>3. PICK first \in Int : first = NextFrom("client", cid)
    BY <2>2
  <2>4. la = first - 1 - len - k
    BY <1>2, <1>3, <1>4, <1>5, <1>6, <1>7, <2>3 DEF LastAnswered
  <2>5. first - 1 = next
    BY <1>8, <1>9, <2>4
  <2>6. QED
    BY <2>1, <2>3, <2>5
<1>13. Requests = (After(la, mid) \o After(mid, next)) \o After(next, cid)
    BY <1>4, <1>6, <1>10, <1>11, <1>12 DEF Requests
<1>14. la <= next
    BY <1>8, <1>9
<1>15. After(la, mid) \o After(mid, next) = After(la, next)
    BY <1>8, <1>9, AfterJoins, ZenonT(60)
<1>16. After(la, next) \o After(next, cid) = After(la, cid)
    BY <1>12, <1>14, AfterJoins
<1>17. QED
    BY <1>2, <1>3, <1>13, <1>15, <1>16
-----------------------------------------------------------------------------
(* The answer that the client waits for.                                   *)

LEMMA ContainsEither ==
    ASSUME NEW s \in Seq(Nat), NEW t \in Seq(Nat), NEW x
    PROVE  Contains(s \o t, x) <=> Contains(s, x) \/ Contains(t, x)
<1>1. PICK m \in Nat : m = Len(s)
    BY LenProperties
<1>2. PICK n \in Nat : n = Len(t)
    BY LenProperties
<1>3. PICK u : u = s \o t
    OBVIOUS
<1>4. /\ Len(u) = m + n
      /\ \A i \in 1 .. m + n : u[i] = IF i <= m THEN s[i] ELSE t[i - m]
    BY <1>1, <1>2, <1>3, ConcatProperties
<1>5. ASSUME NEW i \in 1 .. m + n, u[i] = x
      PROVE  Contains(s, x) \/ Contains(t, x)
  <2>1. CASE i <= m
    <3>1. i \in 1 .. m /\ s[i] = x
      BY <1>4, <1>5, <2>1
    <3>2. QED
      BY <1>1, <3>1 DEF Contains
  <2>2. CASE ~(i <= m)
    <3>1. i - m \in 1 .. n /\ t[i - m] = x
      BY <1>4, <1>5, <2>2
    <3>2. QED
      BY <1>2, <3>1 DEF Contains
  <2>3. QED
    BY <2>1, <2>2
<1>6. ASSUME NEW i \in 1 .. m, s[i] = x
      PROVE  Contains(u, x)
  <2>1. i \in 1 .. m + n /\ i <= m
    OBVIOUS
  <2>2. u[i] = x
    BY <1>4, <1>6, <2>1
  <2>3. QED
    BY <1>4, <2>1, <2>2 DEF Contains
<1>7. ASSUME NEW i \in 1 .. n, t[i] = x
      PROVE  Contains(u, x)
  <2>1. PICK j \in 1 .. m + n : j = i + m /\ ~(j <= m) /\ j - m = i
    OBVIOUS
  <2>2. u[j] = x
    BY <1>4, <1>7, <2>1
  <2>3. QED
    BY <1>4, <2>2 DEF Contains
<1>8. QED
    BY <1>1, <1>2, <1>3, <1>4, <1>5, <1>6, <1>7 DEF Contains

LEMMA ContainsAfter ==
    ASSUME NEW low \in Nat, NEW high \in Nat, low <= high, NEW x \in Nat
    PROVE  Contains(After(low, high), x) <=> low < x /\ x <= high
<1>1. PICK s : s = After(low, high)
    OBVIOUS
<1>2. Len(s) = high - low
    BY <1>1, AfterFacts
<1>3. \A i \in 1 .. high - low : s[i] = low + i
    BY <1>1 DEF After
<1>4. ASSUME low < x, x <= high PROVE Contains(s, x)
  <2>1. x - low \in 1 .. high - low /\ low + (x - low) = x
    BY <1>4
  <2>2. QED
    BY <1>2, <1>3, <2>1 DEF Contains
<1>5. ASSUME Contains(s, x) PROVE low < x /\ x <= high
  <2>1. PICK i \in 1 .. high - low : s[i] = x
    BY <1>2, <1>5 DEF Contains
  <2>2. x = low + i
    BY <1>3, <2>1
  <2>3. QED
    BY <2>2
<1>6. QED
    BY <1>1, <1>4, <1>5

\* When the client has taken the answer to its newest request from the
\* connection, it finds that answer among its messages.
Awaited ==
    Clean("server") /\ waiting /\ currentID < NextAnswer =>
        Contains(mIncoming["client"], currentID)

LEMMA AwaitedInit == Init => Awaited
BY DEF Init, Awaited

LEMMA AwaitedStays ==
    ASSUME Awaited, Clean("server")' => Clean("server") /\ NextAnswer' = NextAnswer,
           waiting' => waiting, currentID' = currentID,
           mIncoming'["client"] = mIncoming["client"]
    PROVE  Awaited'
BY DEF Awaited

LEMMA AwaitedRequest ==
    ASSUME LinkInv, Request
    PROVE  Awaited'
<1>1. PICK cid \in Nat : cid = currentID /\ currentID' = cid + 1
    BY AnsweredIsBounded DEF Request
<1>2. PICK next \in Int : next = NextAnswer /\ next = NextAnswer'
    BY AnsweredIsBounded, RequestStep DEF NextAnswer
<1>3. Clean("server") => next <= cid + 1
  <2>1. PICK la \in Nat : la = LastAnswered /\ (Clean("server") => next <= la + 1)
    BY <1>2, AnsweredIsBounded DEF NextAnswer
  <2>2. PICK k \in Nat : k = Len(serving)
    BY LenProperties DEF LinkInv, LinkKinds
  <2>3. la + k <= cid
    BY <1>1, <2>1, <2>2, AnsweredIsBounded
  <2>4. QED
    BY <2>1, <2>3
<1>4. Clean("server") => ~(currentID' < NextAnswer')
    BY <1>1, <1>2, <1>3
<1>5. Clean("server")' => Clean("server")
    BY DEF Request, Clean
<1>6. QED
    BY <1>4, <1>5 DEF Awaited

LEMMA AwaitedRefresh ==
    ASSUME LinkInv, Awaited, Clean("server"), Refresh("client")
    PROVE  Awaited'
<1>1. "client" \in End /\ "client" # "server"
    BY DEF End
<1>2. /\ mIncoming'["client"] = Append(mIncoming["client"], NextAnswer)
      /\ NextAnswer' = NextAnswer + 1
    BY <1>1, RefreshStep
<1>3. currentID' = currentID /\ waiting' = waiting
    BY DEF Refresh, userVars
<1>4. PICK s \in Seq(Id) : s = mIncoming["client"]
    BY <1>1 DEF LinkInv, LinkKinds
<1>5. PICK next \in Int : next = NextAnswer
    BY AnsweredIsBounded DEF NextAnswer
<1>6. PICK cid \in Nat : cid = currentID
    BY AnsweredIsBounded
<1>7. PICK len \in Nat : len = Len(s)
    BY LenProperties
<1>8. PICK t : t = Append(s, next)
    OBVIOUS
<1>9. /\ Len(t) = len + 1
      /\ \A i \in 1 .. len : t[i] = s[i]
      /\ t[len + 1] = next
  <2>1. s \in Seq(Int)
    BY IdsAreNumbers
  <2>2. QED
    BY <1>7, <1>8, <2>1, AppendProperties
<1>10. CASE cid = next
    BY <1>2, <1>3, <1>4, <1>5, <1>6, <1>8, <1>9, <1>10 DEF Awaited, Contains
<1>11. CASE cid < next
  <2>1. SUFFICES ASSUME waiting' PROVE Contains(t, cid)
    BY <1>2, <1>3, <1>4, <1>5, <1>6, <1>8 DEF Awaited
  <2>2. Contains(s, cid)
    BY <1>3, <1>4, <1>5, <1>6, <1>11, <2>1 DEF Awaited
  <2>3. PICK i \in 1 .. len : s[i] = cid
    BY <1>7, <2>2 DEF Contains
  <2>4. i \in 1 .. len + 1 /\ t[i] = cid
    BY <1>9, <2>3
  <2>5. QED
    BY <1>9, <2>4 DEF Contains
<1>12. CASE cid > next
  <2>1. ~(currentID' < NextAnswer')
    BY <1>2, <1>3, <1>5, <1>6, <1>12
  <2>2. QED
    BY <2>1 DEF Awaited
<1>13. QED
    BY <1>10, <1>11, <1>12

LEMMA AwaitedStep == LinkInv /\ Awaited /\ [Next]_linkVars => Awaited'
<1>1. SUFFICES ASSUME LinkInv, Awaited, [Next]_linkVars PROVE Awaited'
    OBVIOUS
<1>2. /\ "client" \in End /\ "server" \in End /\ "client" # "server"
      /\ Clean("server")' => Clean("server")
    BY <1>1, CleanBefore DEF End
<1>3. ASSUME NEW e \in End, SendingThread(e) \/ ReceivingThread(e)
      PROVE  Awaited'
  <2>1. Clean("server")' => NextAnswer' = NextAnswer
    BY <1>1, <1>2, <1>3, LookStep, SendStep, EraseStep, SendFailsStep, ReceiveStep
       DEF SendingThread, ReceivingThread
  <2>2. UNCHANGED <<mIncoming, currentID, waiting>>
    BY <1>3 DEF SendingThread, ReceivingThread, Look, Send, Erase, SendFails, Receive,
                Insert, userVars
  <2>3. QED
    BY <1>1, <1>2, <2>1, <2>2, AwaitedStays
<1>4. ASSUME NEW e \in End, Stop(e) \/ Race(e)
      PROVE  Awaited'
  <2>1. NextAnswer' = NextAnswer
    BY <1>1, <1>4, EndingStep
  <2>2. UNCHANGED <<mIncoming, currentID, waiting>>
    BY <1>4 DEF Stop, Race, userVars
  <2>3. QED
    BY <1>1, <1>2, <2>1, <2>2, AwaitedStays
<1>5. CASE Refresh("server")
  <2>1. NextAnswer' = NextAnswer
    BY <1>1, <1>2, <1>5, RefreshStep
  <2>2. UNCHANGED <<currentID, waiting>> /\ mIncoming'["client"] = mIncoming["client"]
    BY <1>1, <1>2, <1>5 DEF Refresh, userVars, LinkInv, LinkKinds
  <2>3. QED
    BY <1>1, <1>2, <2>1, <2>2, AwaitedStays
<1>6. CASE TakeNext \/ Respond
  <2>1. NextAnswer' = NextAnswer
    BY <1>1, <1>2, <1>6, TakeNextStep, RespondStep
  <2>2. UNCHANGED <<currentID, waiting>> /\ mIncoming'["client"] = mIncoming["client"]
    BY <1>1, <1>2, <1>6 DEF TakeNext, Respond, LinkInv, LinkKinds
  <2>3. QED
    BY <1>1, <1>2, <2>1, <2>2, AwaitedStays
<1>7. CASE TakeAnswer \/ GiveUp
    BY <1>7 DEF TakeAnswer, GiveUp, Awaited
<1>8. CASE UNCHANGED linkVars
  <2>1. UNCHANGED <<out, sender, wire, chunk, buffer, mIncoming, currentID, waiting,
                    serving>>
    BY <1>8 DEF linkVars, userVars
  <2>2. NextAnswer' = NextAnswer
    BY <2>1 DEF NextAnswer, LastAnswered, NextFrom, SentUpTo, Stream
  <2>3. QED
    BY <1>1, <1>2, <2>1, <2>2, AwaitedStays
<1>8a. CASE Refresh("client")
  <2>1. CASE Clean("server")
    BY <1>1, <1>8a, <2>1, AwaitedRefresh
  <2>2. CASE ~Clean("server")
    BY <1>2, <2>2 DEF Awaited
  <2>3. QED
    BY <2>1, <2>2
<1>9. QED
    BY <1>1, <1>3, <1>4, <1>5, <1>6, <1>7, <1>8, <1>8a, AwaitedRequest
       DEF Next, Handler, Logic

LEMMA AwaitedInvariant == Spec => []Awaited
BY LinkInvariant, AwaitedInit, AwaitedStep, PTL DEF Spec

\* The client has or will have the answer to the request it waits for exactly
\* when that is the last request that was answered.
LEMMA AnswerComes ==
    ASSUME LinkInv, Awaited, Clean("server"), waiting
    PROVE  Answered <=> LastAnswered = currentID
<1>1. "client" \in End /\ "server" \in End
    BY DEF End
<1>2. PICK cid \in Nat : cid = currentID
    BY AnsweredIsBounded
<1>3. PICK la \in Nat : la = LastAnswered /\ la <= cid
  <2>1. PICK k \in Nat : k = Len(serving)
    BY LenProperties DEF LinkInv, LinkKinds
  <2>2. QED
    BY <1>2, <2>1, AnsweredIsBounded
<1>4. PICK taken \in Nat : /\ taken = NextAnswer - 1 /\ NextAnswer = taken + 1
                           /\ taken <= la
                           /\ MessagesFrom("server") = After(taken, la)
  <2>1. /\ NextFrom("server", la) - 1 \in Nat
        /\ NextFrom("server", la) - 1 <= la
        /\ MessagesFrom("server") = After(NextFrom("server", la) - 1, la)
    BY <1>1, <1>3, MessagesAre DEF LinkInv, Sound, InTurn
  <2>2. NextFrom("server", la) \in Int
    BY <1>1, NextIsNumber DEF LinkInv
  <2>3. PICK next \in Int : next = NextFrom("server", la)
    BY <2>2
  <2>4. next - 1 \in Nat /\ next = (next - 1) + 1
    BY <2>1, <2>3
  <2>5. QED
    BY <1>3, <2>1, <2>3, <2>4 DEF NextAnswer
<1>5. PICK s \in Seq(Id) : s = mIncoming["client"]
    BY <1>1 DEF LinkInv, LinkKinds
<1>6. Answered <=> Contains(s, cid) \/ (taken < cid /\ cid <= la)
  <2>1. s \in Seq(Nat)
    BY IdsAreNumbers
  <2>2. After(taken, la) \in Seq(Nat)
    BY <1>4, AfterFacts
  <2>3. PICK t \in Seq(Nat) : t = After(taken, la)
    BY <2>2
  <2>4. Answered <=> Contains(s \o t, cid)
    BY <1>2, <1>4, <1>5, <2>3 DEF Answered
  <2>5. Contains(s \o t, cid) <=> Contains(s, cid) \/ Contains(t, cid)
    BY <2>1, ContainsEither
  <2>6. Contains(t, cid) <=> taken < cid /\ cid <= la
    BY <1>4, <2>3, ContainsAfter
  <2>7. QED
    BY <2>4, <2>5, <2>6
<1>7. Contains(s, cid) => cid <= taken
  <2>1. SUFFICES ASSUME Contains(s, cid) PROVE cid <= taken
    OBVIOUS
  <2>2. PICK i \in 1 .. Len(s) : s[i] = cid
    BY <2>1 DEF Contains
  <2>3. s[i] < taken + 1
    BY <1>4, <1>5 DEF LinkInv, AnswersInOrder, NextAnswer
  <2>4. QED
    BY <2>2, <2>3
<1>8. cid <= taken => Contains(s, cid)
  <2>1. SUFFICES ASSUME cid <= taken PROVE Contains(s, cid)
    OBVIOUS
  <2>2. cid < taken + 1
    BY <2>1
  <2>3. QED
    BY <1>2, <1>4, <1>5, <2>2 DEF Awaited
<1>9. (cid <= taken \/ (taken < cid /\ cid <= la)) <=> la = cid
    BY <1>3, <1>4
<1>10. QED
    BY <1>2, <1>3, <1>6, <1>7, <1>8, <1>9

\* What the two ends, the sockets and the four threads hold between them are
\* the requests after the last one that was answered, each once and in the
\* order the client sent them; and until a send of the server fails half-way,
\* the answer that the client waits for is on its way, or there, exactly when
\* the handler has given it: sendMessage, refreshMessages, getMessage and the
\* threads of ClientSocketManager.
THEOREM NothingIsLost == Spec => []InOrder
<1>1. LinkInv /\ Awaited => InOrder
  <2>1. SUFFICES ASSUME LinkInv, Awaited PROVE InOrder
    OBVIOUS
  <2>2. Requests = [i \in 1 .. currentID - LastAnswered |-> LastAnswered + i]
    BY <2>1, RequestsAre DEF After
  <2>3. Framed("client") /\ waiting => (Answered <=> LastAnswered = currentID)
    BY <2>1, AnswerComes DEF Framed, Clean
  <2>4. QED
    BY <2>2, <2>3 DEF InOrder
<1>2. QED
    BY LinkInvariant, AwaitedInvariant, <1>1, PTL
-----------------------------------------------------------------------------
(* The refinement with numbers.                                            *)

LEMMA CountedInit == Init => Counted!ConnInit
<1>1. SUFFICES ASSUME Init PROVE Counted!ConnInit
    OBVIOUS
<1>2. LinkInv /\ waiting = FALSE /\ currentID = 0
    BY <1>1, LinkInvInit DEF Init
<1>3. LastAnswered = 0
  <2>1. LastAnswered \in Nat /\ LastAnswered <= 0
    <3>1. PICK k \in Nat : k = Len(serving)
      BY <1>2, LenProperties DEF LinkInv, LinkKinds
    <3>2. QED
      BY <1>2, <3>1, AnsweredIsBounded
  <2>2. QED
    BY <2>1
<1>4. After(0, 0) = <<>>
  <2>1. 0 \in Nat /\ 0 <= 0 /\ 0 - 0 = 0
    OBVIOUS
  <2>2. After(0, 0) \in Seq(Nat) /\ Len(After(0, 0)) = 0 - 0
    BY <2>1, AfterFacts, Zenon
  <2>3. QED
    BY <2>1, <2>2, EmptySeq
<1>5. QED
    BY <1>2, <1>3, <1>4 DEF Counted!ConnInit, Counted!NoReply, Answering

LEMMA CountedRest ==
    ASSUME UNCHANGED <<currentID, waiting>>, LastAnswered' = LastAnswered
    PROVE  UNCHANGED Counted!connVars
BY DEF Counted!connVars, Answering

LEMMA CountedRequest ==
    ASSUME LinkInv, Request
    PROVE  CountedNext
<1>1. PICK cid \in Nat : cid = currentID /\ cid + 1 = currentID'
    BY AnsweredIsBounded DEF Request
<1>2. PICK la \in Nat : la = LastAnswered /\ la = LastAnswered' /\ la <= cid
  <2>1. LastAnswered <= currentID
    <3>1. PICK k \in Nat : k = Len(serving)
      BY LenProperties DEF LinkInv, LinkKinds
    <3>2. QED
      BY <3>1, AnsweredIsBounded
  <2>2. QED
    BY <1>1, <2>1, AnsweredIsBounded, RequestStep
<1>3. waiting = FALSE /\ waiting' = TRUE
    BY DEF Request, LinkInv, LinkKinds
<1>4. Append(After(la, cid), cid + 1) = After(la, cid + 1)
    BY <1>2, AfterFacts
<1>5. ~Answering /\ ~Answering'
    BY <1>1, <1>2, <1>3 DEF Answering
<1>6. Counted!Send("client", currentID + 1)
    BY <1>1, <1>2, <1>3, <1>4, <1>5 DEF Counted!Send
<1>7. QED
    BY <1>6 DEF CountedNext

LEMMA CountedTakeAnswer ==
    ASSUME LinkInv, Clean("server"), TakeAnswer
    PROVE  CountedNext
<1>1. PICK i \in DOMAIN mIncoming["client"] : mIncoming["client"][i] = currentID
    BY DEF TakeAnswer
<1>2. waiting = TRUE /\ waiting' = FALSE /\ currentID' = currentID
    BY DEF TakeAnswer, Asking, LinkInv, LinkKinds
<1>3. LastAnswered = currentID
  <2>1. i \in 1 .. Len(mIncoming["client"])
    BY LenProperties DEF LinkInv, LinkKinds, End
  <2>2. currentID < NextFrom("server", LastAnswered)
    BY <1>1, <2>1 DEF LinkInv, AnswersInOrder
  <2>3. PICK k \in Nat : k = Len(serving)
    BY LenProperties DEF LinkInv, LinkKinds
  <2>4. QED
    BY <2>2, <2>3, AnsweredIsBounded
<1>4. Answering /\ ~Answering' /\ LastAnswered' = LastAnswered
    BY <1>2, <1>3, TakeAnswerStep DEF Answering
<1>5. [type |-> "Answer", id |-> currentID] # [type |-> "None"]
    OBVIOUS
<1>6. Counted!Receive("client")
    BY <1>2, <1>4, <1>5 DEF Counted!Receive, Counted!Arrived, Counted!NoReply
<1>7. QED
    BY <1>6 DEF CountedNext

LEMMA CountedGiveUp ==
    ASSUME LinkInv, GiveUp
    PROVE  CountedNext
<1>1. waiting = TRUE /\ waiting' = FALSE /\ currentID' = currentID
    BY DEF GiveUp, Asking, LinkInv, LinkKinds
<1>2. ~Answering' /\ LastAnswered' = LastAnswered
    BY <1>1, EndingStep DEF Answering, End
<1>3. Counted!GiveUp("client")
    BY <1>1, <1>2 DEF Counted!GiveUp, Counted!HangUp, Counted!NoReply
<1>4. QED
    BY <1>3 DEF CountedNext

LEMMA CountedRespond ==
    ASSUME LinkInv, Respond
    PROVE  CountedNext
<1>1. PICK cid \in Nat : cid = currentID /\ cid = currentID'
    BY AnsweredIsBounded DEF Respond
<1>2. PICK la \in Nat : la = LastAnswered /\ la + 1 = LastAnswered'
    BY AnsweredIsBounded, RespondStep
<1>3. la < cid
  <2>1. PICK k \in Nat \ {0} : k = Len(serving)
    BY LenProperties, EmptySeq DEF LinkInv, LinkKinds, Respond
  <2>2. la + k <= cid
    BY <1>1, <1>2, <2>1, AnsweredIsBounded
  <2>3. QED
    BY <2>2
<1>4. waiting \in BOOLEAN /\ waiting' = waiting
    BY DEF Respond, LinkInv, LinkKinds
<1>5. Tail(After(la, cid)) = After(la + 1, cid) /\ Len(After(la, cid)) = cid - la
  <2>1. la <= cid
    BY <1>3
  <2>2. QED
    BY <1>3, <2>1, AfterFacts
<1>6. ~Answering
    BY <1>1, <1>2, <1>3 DEF Answering
<1>7. Answering' <=> waiting /\ Len(After(la, cid)) = 1
  <2>1. Answering' <=> waiting /\ la + 1 = cid
    BY <1>1, <1>2, <1>4 DEF Answering
  <2>2. la + 1 = cid <=> cid - la = 1
    OBVIOUS
  <2>3. QED
    BY <1>5, <2>1, <2>2
<1>8. Counted!Answer("client", [type |-> "Answer", id |-> currentID])
    BY <1>1, <1>2, <1>4, <1>5, <1>6, <1>7 DEF Counted!Answer
<1>9. QED
    BY <1>1, <1>2, <1>3, <1>8 DEF CountedNext

LEMMA CountedStep ==
    LinkInv /\ [Next]_linkVars =>
        [Framed("client")' => CountedNext]_(Counted!connVars)
<1>1. SUFFICES ASSUME LinkInv, [Next]_linkVars, Clean("server")'
               PROVE  CountedNext \/ UNCHANGED Counted!connVars
    BY DEF Framed, Clean
<1>2. "client" \in End /\ "server" \in End /\ Clean("server")
    BY <1>1, CleanBefore DEF End
<1>3. ASSUME NEW e \in End, SendingThread(e) \/ ReceivingThread(e) \/ Refresh(e)
      PROVE  UNCHANGED Counted!connVars
  <2>1. LastAnswered' = LastAnswered
    BY <1>1, <1>3, LookStep, SendStep, EraseStep, SendFailsStep, ReceiveStep, RefreshStep
       DEF SendingThread, ReceivingThread
  <2>2. UNCHANGED <<currentID, waiting>>
    BY <1>3 DEF SendingThread, ReceivingThread, Look, Send, Erase, SendFails, Receive,
                Insert, Refresh, userVars
  <2>3. QED
    BY <2>1, <2>2, CountedRest
<1>4. ASSUME NEW e \in End, Stop(e) \/ Race(e)
      PROVE  UNCHANGED Counted!connVars
  <2>1. LastAnswered' = LastAnswered
    BY <1>1, <1>4, EndingStep
  <2>2. UNCHANGED <<currentID, waiting>>
    BY <1>4 DEF Stop, Race, userVars
  <2>3. QED
    BY <2>1, <2>2, CountedRest
<1>5. CASE TakeNext
  <2>1. LastAnswered' = LastAnswered
    BY <1>1, <1>5, TakeNextStep
  <2>2. UNCHANGED <<currentID, waiting>>
    BY <1>5 DEF TakeNext
  <2>3. QED
    BY <2>1, <2>2, CountedRest
<1>6. CASE Handler
    BY <1>1, <1>2, <1>3, <1>5, <1>6, CountedRespond DEF Handler
<1>7. CASE Logic
    BY <1>1, <1>2, <1>3, <1>7, CountedTakeAnswer DEF Logic
<1>8. CASE Request \/ GiveUp
    BY <1>1, <1>8, CountedRequest, CountedGiveUp
<1>9. CASE UNCHANGED linkVars
  <2>1. UNCHANGED <<out, sender, wire, chunk, buffer, mIncoming, currentID, waiting,
                    serving>>
    BY <1>9 DEF linkVars, userVars
  <2>2. LastAnswered' = LastAnswered
    BY <2>1 DEF LastAnswered, NextFrom, SentUpTo, Stream
  <2>3. QED
    BY <2>1, <2>2, CountedRest
<1>10. QED
    BY <1>1, <1>3, <1>4, <1>6, <1>7, <1>8, <1>9 DEF Next

\* The two CommunicationManagers do what Connection says, counted, until a send
\* of the server fails half-way: every request is answered once and in its
\* turn, and the client finds an answer only when it is the one to its newest
\* request.
THEOREM AnsweredInTurn == Spec => CountedConnection
<1>1. Spec => Counted!ConnInit
    BY CountedInit, PTL DEF Spec
<1>2. Spec => [][Framed("client")' => CountedNext]_(Counted!connVars)
    BY LinkInvariant, CountedStep, PTL DEF Spec
<1>3. QED
    BY <1>1, <1>2 DEF CountedConnection

LEMMA InOrderFacts ==
    ASSUME InOrder, Framed("client")
    PROVE  /\ Requests = After(LastAnswered, currentID)
           /\ waiting /\ Answered <=> Answering
BY DEF InOrder, After, Answering

\* The two CommunicationManagers, with the sockets and the threads between
\* them, implement Connection, which the model of the whole system takes them
\* for, until a send of the server's socket fails half-way.  Up to then nothing
\* is lost, repeated or overtaken, and late answers do no harm.
THEOREM LinkIsAConnection == Spec => ImplementsConnection
<1>1. Init /\ InOrder /\ Counted!ConnInit => Channel!ConnInit
    BY InOrderFacts
       DEF Init, Framed, Counted!ConnInit, Channel!ConnInit, Counted!NoReply,
           Channel!NoReply
<1>2. ASSUME LinkInv, InOrder, InOrder', [Next]_linkVars, Framed("client")',
             [Framed("client")' => CountedNext]_(Counted!connVars)
      PROVE  [ChannelNext]_(Channel!connVars)
  <2>1. /\ Requests = After(LastAnswered, currentID)
        /\ waiting /\ Answered <=> Answering
    BY <1>2, InOrderFacts, CleanBefore DEF Framed, Clean
  <2>2. /\ Requests' = After(LastAnswered, currentID)'
        /\ waiting' /\ Answered' <=> Answering'
    BY <1>2 DEF InOrder, After, Answering
  <2>3. CASE UNCHANGED Counted!connVars
    <3>1. UNCHANGED Channel!connVars
      BY <2>1, <2>2, <2>3 DEF Counted!connVars, Channel!connVars
    <3>2. QED
      BY <3>1
  <2>4. CASE Counted!Send("client", currentID + 1)
    <3>1. Channel!Send("client", currentID + 1)
      BY <2>1, <2>2, <2>4 DEF Counted!Send, Channel!Send
    <3>2. QED
      BY <3>1 DEF ChannelNext
  <2>5. CASE Counted!Receive("client")
    <3>1. Channel!Receive("client")
      BY <2>1, <2>2, <2>5
         DEF Counted!Receive, Channel!Receive, Counted!Arrived, Channel!Arrived,
             Counted!NoReply, Channel!NoReply
    <3>2. QED
      BY <3>1 DEF ChannelNext
  <2>6. CASE Counted!GiveUp("client")
    <3>1. Channel!GiveUp("client")
      BY <2>1, <2>2, <2>6
         DEF Counted!GiveUp, Channel!GiveUp, Counted!HangUp, Channel!HangUp,
             Counted!NoReply, Channel!NoReply
    <3>2. QED
      BY <3>1 DEF ChannelNext
  <2>7. CASE /\ LastAnswered < currentID
             /\ Counted!Answer("client", [type |-> "Answer", id |-> currentID])
    <3>1. Requests # <<>>
      <4>1. PICK la \in Nat : la = LastAnswered
        BY <1>2, AnsweredIsBounded
      <4>2. PICK cid \in Nat : cid = currentID
        BY <1>2, AnsweredIsBounded
      <4>3. la < cid /\ la <= cid
        BY <2>7, <4>1, <4>2
      <4>4. After(la, cid) \in Seq(Nat) /\ Len(After(la, cid)) = cid - la
        BY <4>3, AfterFacts
      <4>5. After(la, cid) # <<>>
        BY <4>3, <4>4, EmptySeq
      <4>6. QED
        BY <2>1, <4>1, <4>2, <4>5
    <3>2. Channel!Answer("client", [type |-> "Answer", id |-> currentID])
      BY <2>1, <2>2, <2>7 DEF Counted!Answer, Channel!Answer
    <3>3. QED
      BY <3>1, <3>2 DEF ChannelNext
  <2>8. QED
    BY <1>2, <2>3, <2>4, <2>5, <2>6, <2>7 DEF CountedNext
<1>3. LinkInv /\ InOrder /\ InOrder' /\ [Next]_linkVars
         /\ [Framed("client")' => CountedNext]_(Counted!connVars)
         => [Framed("client")' => ChannelNext]_(Channel!connVars)
    BY <1>2
<1>4. QED
    BY AnsweredInTurn, LinkInvariant, NothingIsLost, <1>1, <1>3, PTL
       DEF Spec, CountedConnection, ImplementsConnection
=============================================================================
