----------------------------- MODULE ListProofs -----------------------------
(***************************************************************************)
(* Proofs about PathLists, for all names, times, roots and lengths: what   *)
(* is read is what was written.                                            *)
(***************************************************************************)
EXTENDS PathLists, SequenceTheorems, WellFoundedInduction, TLAPS

-----------------------------------------------------------------------------
(* Places in texts.                                                        *)

\* Every set of numbers that has a member has a least one.
LEMMA LeastNumber ==
    ASSUME NEW T, T \subseteq Nat, T # {}
    PROVE  \E m \in T : \A n \in T : m <= n
<1>1. DEFINE less == OpToRel(<, Nat)
<1>2. IsWellFoundedOn(less, Nat)
    BY NatLessThanWellFounded, Zenon
<1>3. \A m, n \in Nat : m < n => <<m, n>> \in less
    BY SMT DEF OpToRel
<1>4. HIDE DEF less
<1>5. PICK m \in T : \A n \in T : ~(<<n, m>> \in less)
    BY <1>2, WFMin, Zenon
<1>6. ASSUME NEW n \in T PROVE m <= n
  <2>1. m \in Nat /\ n \in Nat /\ ~(<<n, m>> \in less)
    BY <1>5
  <2>2. ~(n < m)
    BY <1>3, <2>1
  <2>3. QED
    BY <2>1, <2>2
<1>7. QED
    BY <1>6

LEMMA FirstIs ==
    ASSUME NEW S, NEW s \in Seq(S), NEW places, places \subseteq 1 .. Len(s)
    PROVE  /\ First(s, places) \in 1 .. Len(s) + 1
           /\ First(s, places) \in places \cup {Len(s) + 1}
           /\ \A i \in places : First(s, places) <= i
<1>1. PICK len \in Nat : len = Len(s)
    BY LenProperties
<1>2. PICK T : T = places \cup {len + 1}
    OBVIOUS
<1>3. T \subseteq 1 .. len + 1 /\ T \subseteq Nat /\ T # {}
  <2>1. \A i \in places : i \in 1 .. len + 1
    BY <1>1
  <2>2. len + 1 \in 1 .. len + 1
    OBVIOUS
  <2>3. QED
    BY <1>2, <2>1, <2>2
<1>4. PICK m \in T : \A n \in T : m <= n
    BY <1>3, LeastNumber
<1>5. First(s, places) \in T /\ \A n \in T : First(s, places) <= n
    BY <1>1, <1>2, <1>4 DEF First, Min
<1>6. QED
    BY <1>1, <1>2, <1>3, <1>5

\* The first place, when it is known.
LEMMA FirstAt ==
    ASSUME NEW S, NEW s \in Seq(S), NEW places, places \subseteq 1 .. Len(s),
           NEW n \in 1 .. Len(s) + 1, n \in places \/ n = Len(s) + 1,
           \A i \in 1 .. n - 1 : i \notin places
    PROVE  First(s, places) = n
<1>1. PICK len \in Nat : len = Len(s)
    BY LenProperties
<1>2. PICK f \in 1 .. len + 1 : /\ f = First(s, places)
                                /\ f \in places \cup {len + 1}
                                /\ \A i \in places : f <= i
    BY <1>1, FirstIs
<1>3. f <= n
    BY <1>1, <1>2
<1>4. ~(f < n)
  <2>1. SUFFICES ASSUME f < n PROVE FALSE
    OBVIOUS
  <2>2. f \in 1 .. n - 1 /\ f # len + 1
    BY <1>1, <1>2, <2>1
  <2>3. QED
    BY <1>2, <2>2
<1>5. QED
    BY <1>1, <1>2, <1>3, <1>4

LEMMA FromIs ==
    ASSUME NEW S, NEW s \in Seq(S), NEW n \in 1 .. Len(s) + 1
    PROVE  /\ From(s, n) \in Seq(S)
           /\ Len(From(s, n)) = Len(s) + 1 - n
           /\ \A j \in 1 .. Len(s) + 1 - n : From(s, n)[j] = s[n + j - 1]
<1>1. PICK len \in Nat : len = Len(s)
    BY LenProperties
<1>2. PICK r : r = SubSeq(s, n, len)
    OBVIOUS
<1>3. \A i \in n .. len : s[i] \in S
    BY <1>1, ElementOfSeq
<1>4. /\ r \in Seq(S)
      /\ Len(r) = IF n <= len THEN len - n + 1 ELSE 0
      /\ \A i \in 1 .. len - n + 1 : r[i] = s[n + i - 1]
    BY <1>1, <1>2, <1>3, SubSeqProperties
<1>5. Len(r) = len + 1 - n /\ len - n + 1 = len + 1 - n
    BY <1>1, <1>4
<1>6. QED
    BY <1>1, <1>2, <1>4, <1>5 DEF From

\* What is left after the first of two parts, and the first.
LEMMA Parts ==
    ASSUME NEW S, NEW a \in Seq(S), NEW b \in Seq(S)
    PROVE  /\ a \o b \in Seq(S) /\ Len(a \o b) = Len(a) + Len(b)
           /\ \A i \in 1 .. Len(a) : (a \o b)[i] = a[i]
           /\ From(a \o b, Len(a) + 1) = b
           /\ SubSeq(a \o b, 1, Len(a)) = a
<1>1. PICK m \in Nat : m = Len(a)
    BY LenProperties
<1>2. PICK n \in Nat : n = Len(b)
    BY LenProperties
<1>3. PICK u : u = a \o b
    OBVIOUS
<1>4. /\ u \in Seq(S) /\ Len(u) = m + n
      /\ \A i \in 1 .. m + n : u[i] = IF i <= m THEN a[i] ELSE b[i - m]
    BY <1>1, <1>2, <1>3, ConcatProperties
<1>5. \A i \in 1 .. m : u[i] = a[i]
    BY <1>4
<1>6. PICK r : r = SubSeq(u, m + 1, m + n)
    OBVIOUS
<1>7. r = b
  <2>1. m + 1 \in 1 .. Len(u) + 1 /\ Len(u) + 1 - (m + 1) = n
    BY <1>4
  <2>2. r = From(u, m + 1)
    BY <1>4, <1>6 DEF From
  <2>3. /\ r \in Seq(S) /\ Len(r) = Len(u) + 1 - (m + 1)
        /\ \A j \in 1 .. Len(u) + 1 - (m + 1) : r[j] = u[m + 1 + j - 1]
    BY <1>4, <2>1, <2>2, FromIs
  <2>4. ASSUME NEW j \in 1 .. n PROVE r[j] = b[j]
    <3>1. PICK i \in 1 .. m + n : i = m + 1 + j - 1 /\ ~(i <= m) /\ i - m = j
      OBVIOUS
    <3>2. r[j] = u[i]
      BY <2>1, <2>3, <3>1
    <3>3. QED
      BY <1>4, <3>1, <3>2
  <2>5. Len(r) = n
    BY <2>1, <2>3
  <2>6. QED
    BY <1>2, <2>3, <2>4, <2>5, SeqEqual
<1>8. PICK q : q = SubSeq(u, 1, m)
    OBVIOUS
<1>9. q = a
  <2>1. \A i \in 1 .. m : u[i] \in S
    BY <1>1, <1>5, ElementOfSeq
  <2>2. /\ q \in Seq(S) /\ Len(q) = IF 1 <= m THEN m - 1 + 1 ELSE 0
        /\ \A i \in 1 .. m - 1 + 1 : q[i] = u[1 + i - 1]
    BY <1>8, <2>1, SubSeqProperties
  <2>3. ASSUME NEW i \in 1 .. m PROVE q[i] = a[i]
    <3>1. i \in 1 .. m - 1 + 1 /\ 1 + i - 1 = i
      OBVIOUS
    <3>2. QED
      BY <1>5, <2>2, <3>1
  <2>4. Len(q) = m
    BY <2>2
  <2>5. QED
    BY <1>1, <2>2, <2>3, <2>4, SeqEqual
<1>10. From(u, m + 1) = b
    BY <1>4, <1>6, <1>7 DEF From
<1>11. QED
    BY <1>1, <1>2, <1>3, <1>4, <1>5, <1>8, <1>9, <1>10

LEMMA Assoc ==
    ASSUME NEW S
    PROVE  \A a, b, c \in Seq(S) : (a \o b) \o c = a \o (b \o c)
BY ConcatAssociative

\* What is before the first place of a character.
LEMMA UpToIs ==
    ASSUME NEW S, NEW p \in Seq(S), NEW char \in S, ~Contains(p, char),
           NEW rest \in Seq(S)
    PROVE  /\ UpTo(Append(p, char) \o rest, char) = p
           /\ From(Append(p, char) \o rest, Len(p) + 2) = rest
           /\ Append(p, char) \o rest # <<>>
           /\ Append(p, char) \o rest # p
<1>1. PICK m \in Nat : m = Len(p)
    BY LenProperties
<1>2. PICK e : e = Append(p, char)
    OBVIOUS
<1>3. e \in Seq(S) /\ Len(e) = m + 1 /\ e[m + 1] = char /\ \A j \in 1 .. m : e[j] = p[j]
    BY <1>1, <1>2, AppendProperties
<1>4. PICK s : s = e \o rest
    OBVIOUS
<1>5. PICK n \in Nat : n = Len(rest)
    BY LenProperties
<1>6. /\ s \in Seq(S) /\ Len(s) = m + 1 + n
      /\ \A i \in 1 .. m + 1 : s[i] = e[i]
      /\ From(s, m + 1 + 1) = rest
  <2>1. /\ e \o rest \in Seq(S) /\ Len(e \o rest) = Len(e) + Len(rest)
        /\ \A i \in 1 .. Len(e) : (e \o rest)[i] = e[i]
        /\ From(e \o rest, Len(e) + 1) = rest
    BY <1>3, Parts, ZenonT(60)
  <2>2. QED
    BY <1>3, <1>4, <1>5, <2>1
<1>7. PICK places : places = {i \in DOMAIN s : s[i] = char}
    OBVIOUS
<1>8. DOMAIN s = 1 .. m + 1 + n
    BY <1>6, LenProperties
<1>9. places \subseteq 1 .. Len(s) /\ m + 1 \in places /\ m + 1 \in 1 .. Len(s) + 1
    BY <1>3, <1>6, <1>7, <1>8
<1>10. ASSUME NEW i \in 1 .. (m + 1) - 1 PROVE i \notin places
  <2>1. i \in 1 .. m /\ i \in 1 .. m + 1
    OBVIOUS
  <2>2. s[i] = p[i] /\ p[i] # char
    BY <1>1, <1>3, <1>6, <2>1 DEF Contains
  <2>3. QED
    BY <1>7, <2>2
<1>11. First(s, places) = m + 1
    BY <1>6, <1>9, <1>10, FirstAt
<1>12. (m + 1) - 1 = m
    OBVIOUS
<1>13. UpTo(s, char) = SubSeq(s, 1, m)
    BY <1>7, <1>11, <1>12 DEF UpTo
<1>14. SubSeq(s, 1, m) = p
  <2>1. PICK last : last = <<char>>
    OBVIOUS
  <2>2. last \in Seq(S) /\ last \o rest \in Seq(S)
    BY <2>1, ConcatProperties
  <2>3. e = p \o last
    BY <1>2, <2>1, AppendIsConcat
  <2>4. (p \o last) \o rest = p \o (last \o rest)
    BY <2>2, ConcatAssociative
  <2>5. QED
    BY <1>1, <1>4, <2>2, <2>3, <2>4, Parts
<1>15. s # <<>> /\ s # p
  <2>1. Len(s) > m
    BY <1>6
  <2>2. QED
    BY <1>1, <2>1, EmptySeq
<1>16. m + 1 + 1 = m + 2
    OBVIOUS
<1>17. QED
    BY <1>1, <1>2, <1>4, <1>6, <1>13, <1>14, <1>15, <1>16

LEMMA FromFirst ==
    ASSUME NEW S, NEW s \in Seq(S)
    PROVE  From(s, 1) = s
<1>1. <<>> \in Seq(S) /\ Len(<<>>) = 0 /\ <<>> \o s = s
    BY ConcatProperties
<1>2. From(<<>> \o s, Len(<<>>) + 1) = s
    BY <1>1, Parts
<1>3. QED
    BY <1>1, <1>2

LEMMA UpToNone ==
    ASSUME NEW S, NEW s \in Seq(S), NEW char, ~Contains(s, char)
    PROVE  UpTo(s, char) = s
<1>1. PICK len \in Nat : len = Len(s)
    BY LenProperties
<1>2. DOMAIN s = 1 .. len
    BY <1>1, LenProperties
<1>3. {i \in DOMAIN s : s[i] = char} = {}
    BY <1>1, <1>2 DEF Contains
<1>4. First(s, {}) = len + 1
  <2>1. {} \subseteq 1 .. Len(s) /\ len + 1 \in 1 .. Len(s) + 1 /\ len + 1 = Len(s) + 1
    BY <1>1
  <2>2. \A i \in 1 .. (len + 1) - 1 : i \notin {}
    OBVIOUS
  <2>3. QED
    BY <2>1, <2>2, FirstAt
<1>5. PICK r : r = SubSeq(s, 1, len)
    OBVIOUS
<1>6. r = s
    BY <1>1, <1>5, FromFirst DEF From
<1>7. (len + 1) - 1 = len
    OBVIOUS
<1>8. QED
    BY <1>3, <1>4, <1>5, <1>6, <1>7 DEF UpTo

-----------------------------------------------------------------------------
(* Rounds of the loops that read.                                          *)

\* The characters of all texts.
Char == STRING \cup Digit \cup Space \cup {NUL, ";"}

LEMMA SkipNone ==
    ASSUME NEW S, NEW s \in Seq(S), s # <<>>, s[1] \notin Space
    PROVE  SkipSpace(s) = s
<1>1. PICK len \in Nat \ {0} : len = Len(s)
    BY EmptySeq
<1>2. DOMAIN s = 1 .. len
    BY <1>1, LenProperties
<1>3. PICK places : places = {i \in DOMAIN s : s[i] \notin Space}
    OBVIOUS
<1>4. places \subseteq 1 .. Len(s) /\ 1 \in places /\ 1 \in 1 .. Len(s) + 1
    BY <1>1, <1>2, <1>3
<1>5. \A i \in 1 .. 1 - 1 : i \notin places
    OBVIOUS
<1>6. First(s, places) = 1
    BY <1>4, <1>5, FirstAt
<1>7. QED
    BY <1>3, <1>6, FromFirst DEF SkipSpace

\* Digits followed by something else.
LEMMA NumberIs ==
    ASSUME NEW S, NEW t \in Seq(S), t \in Seq(Digit), NEW rest \in Seq(S),
           rest # <<>>, rest[1] \notin Digit
    PROVE  Number(t \o rest) = t
<1>1. PICK m \in Nat : m = Len(t)
    BY LenProperties
<1>2. PICK s : s = t \o rest
    OBVIOUS
<1>3. PICK n \in Nat \ {0} : n = Len(rest)
    BY EmptySeq, LenProperties
<1>4. /\ s \in Seq(S) /\ Len(s) = m + n
      /\ \A i \in 1 .. m + n : s[i] = IF i <= m THEN t[i] ELSE rest[i - m]
    BY <1>1, <1>2, <1>3, ConcatProperties
<1>5. PICK places : places = {i \in DOMAIN s : s[i] \notin Digit}
    OBVIOUS
<1>6. DOMAIN s = 1 .. m + n
    BY <1>4, LenProperties
<1>7. s[m + 1] = rest[1]
  <2>1. m + 1 \in 1 .. m + n /\ ~(m + 1 <= m) /\ (m + 1) - m = 1
    BY <1>3
  <2>2. QED
    BY <1>4, <2>1
<1>8. places \subseteq 1 .. Len(s) /\ m + 1 \in places /\ m + 1 \in 1 .. Len(s) + 1
    BY <1>3, <1>4, <1>5, <1>6, <1>7
<1>9. ASSUME NEW i \in 1 .. (m + 1) - 1 PROVE i \notin places
  <2>1. i \in 1 .. m /\ i \in 1 .. m + n /\ i <= m
    OBVIOUS
  <2>2. s[i] = t[i] /\ t[i] \in Digit
    BY <1>1, <1>4, <2>1, ElementOfSeq
  <2>3. QED
    BY <1>5, <2>2
<1>10. First(s, places) = m + 1
    BY <1>4, <1>8, <1>9, FirstAt
<1>11. SubSeq(s, 1, Len(t)) = t
    BY <1>2, Parts
<1>12. (m + 1) - 1 = m
    OBVIOUS
<1>13. QED
    BY <1>1, <1>2, <1>5, <1>10, <1>11, <1>12 DEF Number

LEMMA Characters ==
    /\ Digit \subseteq Char /\ NUL \in Char /\ "\n" \in Char /\ ";" \in Char
    /\ " " \in Char /\ ";" \notin Digit /\ ";" \notin Space
    /\ \A x \in Digit : x \notin Space
BY SMTT(30) DEF Digit, Char, NUL, Space

LEMMA Pair ==
    ASSUME NEW S, NEW x \in S, NEW y \in S
    PROVE  /\ <<x, y>> \in Seq(S) /\ <<x, y>>[1] = x /\ Len(<<x, y>>) = 2
           /\ <<x>> \in Seq(S)
<1>1. <<x>> \in Seq(S)
    OBVIOUS
<1>2. <<x, y>> \in Seq(S)
    OBVIOUS
<1>3. Len(<<x, y>>) = 2 /\ <<x, y>>[1] = x
    OBVIOUS
<1>4. QED
    BY <1>1, <1>2, <1>3

FileKind == [path : Name, timestamp : Time]

LEMMA NameIs ==
    ASSUME NEW name \in Name
    PROVE  name \in Seq(Char) /\ name # <<>> /\ ~Contains(name, NUL)
<1>1. name \in Seq(STRING) /\ STRING \subseteq Char /\ name # <<>> /\ ~Contains(name, NUL)
    BY ListAssumption DEF Char
<1>2. QED
    BY <1>1, SeqMonotonic

LEMMA TimeIs ==
    ASSUME NEW time \in Time
    PROVE  time \in Seq(Digit) /\ time \in Seq(Char) /\ Len(time) \in Nat \ {0}
<1>1. time \in Seq(Digit) /\ time # <<>>
    BY ListAssumption
<1>2. QED
    BY <1>1, EmptySeq, SeqMonotonic, Characters


LEMMA AssocChar == \A a, b, c \in Seq(Char) : (a \o b) \o c = a \o (b \o c)
BY ConcatAssociative

\* A path that ends in a line feed or in NUL is found.
LEMMA LineIs ==
    ASSUME NEW p \in Seq(Char), ~Contains(p, "\n"), NEW rest \in Seq(Char),
           NEW line, line = Append(p, "\n") \o rest
    PROVE  /\ UpTo(line, "\n") = p /\ From(line, Len(p) + 2) = rest /\ line # <<>>
<1>1. "\n" \in Char
    BY Characters
<1>2. UpTo(Append(p, "\n") \o rest, "\n") = p
    BY <1>1, UpToIs, ZenonT(60)
<1>3. From(Append(p, "\n") \o rest, Len(p) + 2) = rest
    BY <1>1, UpToIs, ZenonT(60)
<1>4. Append(p, "\n") \o rest # <<>>
    BY <1>1, UpToIs
<1>5. QED
    BY <1>2, <1>3, <1>4

LEMMA PathIs ==
    ASSUME NEW p \in Seq(Char), ~Contains(p, NUL), NEW rest \in Seq(Char),
           NEW line, line = Append(p, NUL) \o rest
    PROVE  /\ UpTo(line, NUL) = p /\ From(line, Len(p) + 2) = rest /\ line # p
<1>1. NUL \in Char
    BY Characters
<1>2. UpTo(Append(p, NUL) \o rest, NUL) = p
    BY <1>1, UpToIs, ZenonT(60)
<1>3. From(Append(p, NUL) \o rest, Len(p) + 2) = rest
    BY <1>1, UpToIs, ZenonT(60)
<1>4. Append(p, NUL) \o rest # p
    BY <1>1, UpToIs
<1>5. QED
    BY <1>2, <1>3, <1>4

\* operator>> finds the file whose name has no line feed,
LEMMA FileIs ==
    ASSUME NEW file \in FileKind, Plain(file.path), NEW rest \in Seq(Char),
           NEW read, read = ReadFileInfo(asFileList(file) \o rest)
    PROVE  read.good /\ read.file = file /\ read.rest = rest
<1>1. PICK t \in Seq(Char) : t = file.timestamp /\ t \in Seq(Digit) /\ Len(t) \in Nat \ {0}
    BY TimeIs DEF FileKind
<1>2. PICK p \in Seq(Char) : p = file.path /\ ~Contains(p, NUL) /\ ~Contains(p, "\n")
    BY NameIs DEF FileKind, Plain
<1>3. PICK sep : sep = <<";", " ">>
    OBVIOUS
<1>4. sep \in Seq(Char) /\ sep[1] = ";" /\ Len(sep) = 2
  <2>1. ";" \in Char /\ " " \in Char
    BY Characters
  <2>2. <<";", " ">> \in Seq(Char) /\ <<";", " ">>[1] = ";" /\ Len(<<";", " ">>) = 2
    BY <2>1, Pair
  <2>3. QED
    BY <1>3, <2>2
<1>5. PICK line : line = Append(p, "\n") \o rest
    OBVIOUS
<1>6. Append(p, "\n") \in Seq(Char) /\ line \in Seq(Char)
    BY <1>5, Characters, AppendProperties, ConcatProperties
<1>7. /\ UpTo(line, "\n") = p /\ From(line, Len(p) + 2) = rest /\ line # <<>>
    BY <1>2, <1>5, LineIs
<1>8. PICK u : u = sep \o line
    OBVIOUS
<1>9. /\ u \in Seq(Char) /\ u[1] = ";" /\ u # <<>> /\ From(u, 3) = line
  <2>1. /\ sep \o line \in Seq(Char) /\ Len(sep \o line) = Len(sep) + Len(line)
        /\ \A i \in 1 .. Len(sep) : (sep \o line)[i] = sep[i]
        /\ From(sep \o line, Len(sep) + 1) = line
    BY <1>4, <1>6, Parts, ZenonT(60)
  <2>2. 1 \in 1 .. Len(sep) /\ Len(sep) + 1 = 3
    <3>1. Len(sep) = 2
      BY <1>4, Zenon
    <3>2. 1 \in 1 .. 2 /\ 2 + 1 = 3
      OBVIOUS
    <3>3. QED
      BY <3>1, <3>2, Zenon
  <2>3. Len(u) # 0
    <3>1. PICK n \in Nat : n = Len(line)
      BY <1>6, LenProperties
    <3>2. Len(u) = 2 + n
      BY <1>4, <1>8, <2>1, <3>1
    <3>3. QED
      BY <3>1, <3>2
  <2>4. QED
    BY <1>4, <1>8, <2>1, <2>2, <2>3
<1>10. PICK s : s = t \o u
    OBVIOUS
<1>11. /\ s \in Seq(Char) /\ s # <<>> /\ s # u /\ s[1] = t[1] /\ From(s, Len(t) + 1) = u
  <2>1. /\ t \o u \in Seq(Char) /\ Len(t \o u) = Len(t) + Len(u)
        /\ \A i \in 1 .. Len(t) : (t \o u)[i] = t[i]
        /\ From(t \o u, Len(t) + 1) = u
    BY <1>9, Parts, ZenonT(60)
  <2>2. 1 \in 1 .. Len(t)
    BY <1>1
  <2>3. Len(s) # Len(u) /\ Len(s) # 0
    <3>1. PICK n \in Nat : n = Len(u)
      BY <1>9, LenProperties
    <3>2. PICK m \in Nat \ {0} : m = Len(t)
      BY <1>1
    <3>3. Len(s) = m + n
      BY <1>10, <2>1, <3>1, <3>2
    <3>4. QED
      BY <3>1, <3>2, <3>3
  <2>4. QED
    BY <1>10, <2>1, <2>2, <2>3
<1>12. asFileList(file) \o rest = s
  <2>1. PICK end : end = <<"\n">>
    OBVIOUS
  <2>2. end \in Seq(Char)
    BY <2>1, Characters, Pair
  <2>3. PICK a : a = t \o sep
    OBVIOUS
  <2>4. PICK b : b = a \o p
    OBVIOUS
  <2>5. a \in Seq(Char) /\ b \in Seq(Char) /\ end \o rest \in Seq(Char)
    BY <1>4, <2>2, <2>3, <2>4, ConcatProperties
  <2>6. asFileList(file) = b \o end
    BY <1>1, <1>2, <1>3, <2>1, <2>3, <2>4 DEF asFileList
  <2>7. (b \o end) \o rest = b \o (end \o rest)
    <3>1. b \in Seq(Char) /\ end \in Seq(Char) /\ rest \in Seq(Char)
      BY <2>2, <2>5
    <3>2. QED
      BY <3>1, AssocChar, ZenonT(60)
  <2>8. (a \o p) \o (end \o rest) = a \o (p \o (end \o rest))
    <3>1. a \in Seq(Char) /\ p \in Seq(Char) /\ end \o rest \in Seq(Char)
      BY <2>5
    <3>2. QED
      BY <3>1, AssocChar, ZenonT(60)
  <2>9. p \o (end \o rest) = line
    <3>1. (p \o end) \o rest = p \o (end \o rest)
      BY <2>2, AssocChar, ZenonT(60)
    <3>2. Append(p, "\n") = p \o end
      BY <2>1, Characters, AppendIsConcat
    <3>3. QED
      BY <1>5, <3>1, <3>2
  <2>10. (t \o sep) \o line = t \o (sep \o line)
    BY <1>4, <1>6, AssocChar, ZenonT(60)
  <2>11. QED
    BY <1>8, <1>10, <2>3, <2>4, <2>6, <2>7, <2>8, <2>9, <2>10
<1>13. SkipSpace(s) = s
  <2>1. t[1] \in Digit
    BY <1>1, ElementOfSeq
  <2>2. QED
    BY <1>11, <2>1, Characters, SkipNone
<1>14. Number(s) = t
    BY <1>1, <1>9, <1>10, Characters, NumberIs
<1>15. SkipSpace(u) = u
    BY <1>9, Characters, SkipNone
<1>16. UpTo(p, NUL) = p
    BY <1>2, UpToNone
<1>17. ReadFileInfo(s) = [good |-> s # u /\ line # <<>>,
                          file |-> [timestamp |-> t, path |-> p],
                          rest |-> rest]
    BY <1>7, <1>9, <1>11, <1>13, <1>14, <1>15, <1>16 DEF ReadFileInfo
<1>18. file = [timestamp |-> t, path |-> p]
    BY <1>1, <1>2 DEF FileKind
<1>19. read = [good |-> TRUE, file |-> file, rest |-> rest]
    BY <1>7, <1>11, <1>12, <1>17, <1>18, Zenon
<1>20. QED
    BY <1>19

\* and none in the characters at the end of the message.
LEMMA NoFileLeft == <<NUL, NUL>> \in Seq(Char) /\ ~ReadFileInfo(<<NUL, NUL>>).good
<1>1. PICK s : s = <<NUL, NUL>>
    OBVIOUS
<1>2. s \in Seq(Char) /\ s[1] = NUL /\ s # <<>>
  <2>1. NUL \in Char
    BY Characters
  <2>2. <<NUL, NUL>> \in Seq(Char) /\ <<NUL, NUL>>[1] = NUL /\ Len(<<NUL, NUL>>) = 2
    BY <2>1, Pair
  <2>3. QED
    BY <1>1, <2>2
<1>3. NUL \notin Space /\ NUL \notin Digit
    BY DEF NUL, Space, Digit
<1>4. SkipSpace(s) = s
    BY <1>2, <1>3, SkipNone
<1>5. Number(s) = <<>> /\ Len(<<>>) + 1 = 1
  <2>1. <<>> \in Seq(Char) /\ <<>> \in Seq(Digit) /\ <<>> \o s = s
    BY <1>2, ConcatProperties
  <2>2. Number(<<>> \o s) = <<>>
    BY <1>2, <1>3, <2>1, NumberIs
  <2>3. QED
    BY <2>1, <2>2
<1>6. From(s, 1) = s
    BY <1>2, FromFirst
<1>7. ~ReadFileInfo(s).good
    BY <1>4, <1>5, <1>6 DEF ReadFileInfo
<1>8. QED
    BY <1>1, <1>2, <1>7
-----------------------------------------------------------------------------
(* The invariant: what is left to be read when some entries have been.     *)

Kinds ==
    /\ form \in {"none", "fileList", "listFile", "deletedList", "path"}
    /\ phase \in {"write", "read", "done"}
    /\ form = "none" => /\ given = <<>> /\ phase = "write"
                        /\ written = 0 /\ text = <<>> /\ taken = <<>>
    /\ form = "fileList" => given \in Seq(FileKind)
    /\ form \in {"listFile", "deletedList"} => given \in Seq(Name)
    /\ form # "path" => written \in 0 .. Len(given)
    /\ form # "path" /\ phase # "write" => form # "none" /\ written = Len(given)
    /\ phase = "write" => taken = <<>>
    /\ form # "path" => \E S : taken \in Seq(S)

\* tails[i] is the text after the first i entries.
Tails(tails) ==
    /\ tails \in [0 .. written -> Seq(Char)]
    /\ \A i \in 1 .. written : tails[i - 1] = Entry(given[i]) \o tails[i]

Wrote ==
    form # "path" /\ phase = "write" =>
        \E tails : Tails(tails) /\ tails[0] = text /\ tails[written] = <<>>

\* An entry that what follows it does not touch, and many of them.
Separable(x) ==
    /\ form = "fileList" => Plain(x.path)
    /\ form = "listFile" => Plain(x)

Clean(n) == \A i \in 1 .. n : i <= Len(given) => Separable(given[i])

End == IF form = "fileList" THEN <<NUL, NUL>> ELSE <<>>

Arrived == \A i \in 1 .. Len(taken) : Clean(i) => i <= Len(given) /\ taken[i] = given[i]

Place(tails) ==
    Clean(Len(taken) + 1) => Len(taken) <= Len(given) /\ text = tails[Len(taken)]

Reads ==
    IsList /\ phase # "write" =>
        /\ Arrived
        /\ \E tails : Tails(tails) /\ tails[written] = End /\ Place(tails)
        /\ phase = "done" => (Clean(Len(taken) + 1) => Len(taken) = Len(given))

LEMMA EntryIs ==
    ASSUME Kinds, IsList, NEW i \in 1 .. Len(given)
    PROVE  Entry(given[i]) \in Seq(Char)
<1>1. CASE form = "fileList"
  <2>1. given[i] \in FileKind
    BY <1>1, ElementOfSeq DEF Kinds
  <2>2. PICK t, p \in Seq(Char) : t = given[i].timestamp /\ p = given[i].path
    <3>1. given[i].timestamp \in Time /\ given[i].path \in Name
      BY <2>1 DEF FileKind
    <3>2. QED
      BY <3>1, NameIs, TimeIs
  <2>3. PICK sep : sep = <<";", " ">> /\ sep \in Seq(Char)
    BY Characters, Pair
  <2>4. PICK end : end = <<"\n">> /\ end \in Seq(Char)
    BY Characters, Pair
  <2>5. Entry(given[i]) = t \o sep \o p \o end
    BY <1>1, <2>2, <2>3, <2>4 DEF Entry, asFileList
  <2>6. t \o sep \in Seq(Char)
    BY <2>3, ConcatProperties
  <2>7. t \o sep \o p \in Seq(Char)
    BY <2>6, ConcatProperties
  <2>8. QED
    BY <2>4, <2>5, <2>7, ConcatProperties
<1>2. CASE form \in {"listFile", "deletedList"}
  <2>1. PICK p \in Seq(Char) : p = given[i]
    <3>1. given[i] \in Name
      BY <1>2, ElementOfSeq DEF Kinds
    <3>2. QED
      BY <3>1, NameIs
  <2>2. Append(p, "\n") \in Seq(Char) /\ Append(p, NUL) \in Seq(Char)
    BY Characters, AppendProperties
  <2>3. Entry(given[i]) \in {Append(p, "\n"), Append(p, NUL)}
    BY <1>2, <2>1 DEF Entry, DeletedText
  <2>4. QED
    BY <2>2, <2>3
<1>3. QED
    BY <1>1, <1>2 DEF IsList

\* The definitions speak only of the list.
LEMMA Same ==
    ASSUME UNCHANGED <<form, given, written>>
    PROVE  /\ \A tails : Tails(tails)' <=> Tails(tails)
           /\ \A n : Clean(n)' <=> Clean(n)
           /\ End' = End /\ (IsList' <=> IsList)
<1>1. \A x : Entry(x)' = Entry(x)
    BY DEF Entry
<1>2. \A x : Separable(x)' <=> Separable(x)
    BY DEF Separable
<1>3. \A tails : Tails(tails)' <=> Tails(tails)
    BY <1>1 DEF Tails
<1>4. \A n : Clean(n)' <=> Clean(n)
    BY <1>2 DEF Clean
<1>5. QED
    BY <1>3, <1>4 DEF End, IsList

\* A text grows at its end, and all that is left of it after an entry too.
LEMMA Grows ==
    ASSUME Kinds, IsList, NEW tails, Tails(tails), NEW e \in Seq(Char),
           tails[written] = <<>>
    PROVE  \E more : Tails(more) /\ more[0] = tails[0] \o e /\ more[written] = e
<1>1. PICK n \in Nat : n = written /\ n <= Len(given)
    BY LenProperties DEF Kinds, IsList
<1>2. DEFINE more == [i \in 0 .. written |-> tails[i] \o e]
<1>3. \A i \in 0 .. n : tails[i] \in Seq(Char) /\ more[i] = tails[i] \o e
    BY <1>1 DEF Tails
<1>4. more \in [0 .. written -> Seq(Char)]
  <2>1. \A i \in 0 .. n : tails[i] \o e \in Seq(Char)
    BY <1>3, ConcatProperties
  <2>2. QED
    BY <1>1, <2>1
<1>5. HIDE DEF more
<1>6. ASSUME NEW i \in 1 .. n PROVE more[i - 1] = Entry(given[i]) \o more[i]
  <2>1. i - 1 \in 0 .. n /\ i \in 0 .. n /\ i \in 1 .. Len(given)
    BY <1>1
  <2>2. tails[i - 1] = Entry(given[i]) \o tails[i]
    BY <1>1 DEF Tails
  <2>3. Entry(given[i]) \in Seq(Char) /\ tails[i] \in Seq(Char)
    BY <1>3, <2>1, EntryIs
  <2>4. (Entry(given[i]) \o tails[i]) \o e = Entry(given[i]) \o (tails[i] \o e)
    BY <2>3, AssocChar, ZenonT(60)
  <2>5. QED
    BY <1>3, <2>1, <2>2, <2>4
<1>7. 0 \in 0 .. n /\ n \in 0 .. n
    BY <1>1
<1>8. more[n] = e
  <2>1. <<>> \o e = e
    BY ConcatProperties
  <2>2. QED
    BY <1>1, <1>3, <1>7, <2>1
<1>9. QED
    BY <1>1, <1>3, <1>4, <1>6, <1>7, <1>8 DEF Tails

ListInv == Kinds /\ Wrote /\ Reads

LEMMA Lists ==
    ASSUME NEW S, NEW list, list \in SeqOf(S, MaxLength)
    PROVE  list \in Seq(S)
<1>1. MaxLength \in Nat
    BY ListAssumption
<1>2. PICK m \in 0 .. MaxLength : list \in [1 .. m -> S]
    BY <1>1 DEF SeqOf
<1>3. QED
    BY <1>1, <1>2, SeqDef

LEMMA BeginInv ==
    ASSUME ListInv, SendFileList \/ SaveList \/ SendDeletedList
    PROVE  ListInv'
<1>1. /\ form = "none" /\ written = 0 /\ text = <<>> /\ taken = <<>>
      /\ form' \in {"fileList", "listFile", "deletedList"} /\ phase' = "write"
      /\ form' = "fileList" => given' \in Seq(FileKind)
      /\ form' # "fileList" => given' \in Seq(Name)
      /\ UNCHANGED <<written, text, taken>>
  <2>1. CASE SendFileList
    <3>1. given' \in SeqOf([path : Name, timestamp : Time], MaxLength)
      BY <2>1 DEF SendFileList, Begin
    <3>2. given' \in Seq(FileKind)
      BY <3>1, Lists DEF FileKind
    <3>3. QED
      BY <2>1, <3>2 DEF SendFileList, Begin, ListInv, Kinds
  <2>2. CASE SaveList
    <3>1. given' \in SeqOf(Name, MaxLength)
      BY <2>2 DEF SaveList, Begin
    <3>2. given' \in Seq(Name)
      BY <3>1, Lists
    <3>3. QED
      BY <2>2, <3>2 DEF SaveList, Begin, ListInv, Kinds
  <2>3. CASE SendDeletedList
    <3>1. given' \in SeqOf(Name, MaxLength)
      BY <2>3 DEF SendDeletedList, Begin
    <3>2. given' \in Seq(Name)
      BY <3>1, Lists
    <3>3. QED
      BY <2>3, <3>2 DEF SendDeletedList, Begin, ListInv, Kinds
  <2>4. QED
    BY <2>1, <2>2, <2>3
<1>2. Kinds'
  <2>1. Len(given') \in Nat
    BY <1>1, LenProperties
  <2>2. written' \in 0 .. Len(given')
    BY <1>1, <2>1
  <2>3. QED
    BY <1>1, <2>2 DEF ListInv, Kinds
<1>3. Wrote'
  <2>1. PICK tails : tails = [i \in 0 .. 0 |-> <<>>]
    OBVIOUS
  <2>2. tails \in [0 .. 0 -> Seq(Char)] /\ tails[0] = <<>>
    BY <2>1
  <2>3. Tails(tails)'
    BY <1>1, <2>2 DEF Tails
  <2>4. QED
    BY <1>1, <2>2, <2>3 DEF Wrote
<1>4. Reads'
    BY <1>1 DEF Reads
<1>5. QED
    BY <1>2, <1>3, <1>4 DEF ListInv

LEMMA WriteInv ==
    ASSUME ListInv, Write
    PROVE  ListInv'
<1>1. /\ IsList /\ phase = "write" /\ written < Len(given) /\ written' = written + 1
      /\ text' = text \o Entry(given[written + 1])
      /\ UNCHANGED <<form, given, phase, taken>>
  <2>1. form # "none"
    BY LenProperties DEF ListInv, Kinds, Write
  <2>2. QED
    BY <2>1 DEF ListInv, Kinds, Write, IsList
<1>2. PICK n \in Nat : n = written /\ n + 1 <= Len(given) /\ Len(given) \in Nat
    BY <1>1, LenProperties DEF ListInv, Kinds, IsList
<1>3. PICK tails : Tails(tails) /\ tails[0] = text /\ tails[n] = <<>>
    BY <1>1, <1>2 DEF ListInv, Wrote, IsList
<1>4. PICK e \in Seq(Char) : e = Entry(given[n + 1])
  <2>1. n + 1 \in 1 .. Len(given)
    BY <1>2
  <2>2. QED
    BY <1>1, <2>1, EntryIs DEF ListInv
<1>5. PICK more : /\ Tails(more) /\ more[0] = tails[0] \o e /\ more[n] = e
    BY <1>1, <1>2, <1>3, <1>4, Grows DEF ListInv
<1>6. PICK all : all = [i \in 0 .. n + 1 |-> IF i <= n THEN more[i] ELSE <<>>]
    OBVIOUS
<1>7. /\ \A i \in 0 .. n : all[i] = more[i] /\ more[i] \in Seq(Char)
      /\ all[n + 1] = <<>> /\ n + 1 \in 0 .. n + 1
  <2>1. \A i \in 0 .. n : i \in 0 .. n + 1 /\ i <= n
    OBVIOUS
  <2>2. n + 1 \in 0 .. n + 1 /\ ~(n + 1 <= n)
    OBVIOUS
  <2>3. \A i \in 0 .. n : more[i] \in Seq(Char)
    BY <1>2, <1>5 DEF Tails
  <2>4. QED
    BY <1>6, <2>1, <2>2, <2>3
<1>8. all \in [0 .. n + 1 -> Seq(Char)]
  <2>1. \A i \in 0 .. n + 1 : (IF i <= n THEN more[i] ELSE <<>>) \in Seq(Char)
    BY <1>7
  <2>2. QED
    BY <1>6, <2>1
<1>9. ASSUME NEW i \in 1 .. n + 1 PROVE all[i - 1] = Entry(given[i]) \o all[i]
  <2>1. CASE i = n + 1
    <3>1. i - 1 = n /\ n \in 0 .. n
      BY <2>1
    <3>2. e \o <<>> = e
      BY ConcatProperties
    <3>3. QED
      BY <1>4, <1>5, <1>7, <2>1, <3>1, <3>2
  <2>2. CASE i # n + 1
    <3>1. i \in 1 .. n /\ i - 1 \in 0 .. n /\ i \in 0 .. n
      BY <2>2
    <3>2. QED
      BY <1>2, <1>5, <1>7, <3>1 DEF Tails
  <2>3. QED
    BY <2>1, <2>2
<1>10. Tails(all)'
  <2>1. \A x : Entry(x)' = Entry(x)
    BY <1>1 DEF Entry
  <2>2. written' = n + 1 /\ given' = given
    BY <1>1, <1>2
  <2>3. QED
    BY <1>8, <1>9, <2>1, <2>2 DEF Tails
<1>11. all[0] = text' /\ all[written'] = <<>>
  <2>1. 0 \in 0 .. n
    OBVIOUS
  <2>2. all[0] = text'
    BY <1>1, <1>2, <1>3, <1>4, <1>5, <1>7, <2>1
  <2>3. QED
    BY <1>1, <1>2, <1>7, <2>2
<1>12. Kinds'
    BY <1>1, <1>2 DEF ListInv, Kinds, IsList
<1>13. QED
    BY <1>1, <1>10, <1>11, <1>12 DEF ListInv, Wrote, Reads

LEMMA PassInv ==
    ASSUME ListInv, Pass
    PROVE  ListInv'
<1>1. /\ IsList /\ phase = "write" /\ written = Len(given) /\ phase' = "read"
      /\ text' = IF form = "fileList" THEN text \o <<NUL, NUL>> ELSE text
      /\ taken = <<>> /\ UNCHANGED <<form, given, written, taken>>
    BY DEF Pass, ListInv, Kinds
<1>2. PICK n \in Nat : n = written
    BY <1>1, LenProperties DEF ListInv, Kinds, IsList
<1>3. PICK tails : Tails(tails) /\ tails[0] = text /\ tails[n] = <<>>
    BY <1>1, <1>2 DEF ListInv, Wrote, IsList
<1>4. PICK more : Tails(more) /\ more[0] = text' /\ more[n] = End
  <2>1. CASE form = "fileList"
    <3>1. PICK e \in Seq(Char) : e = <<NUL, NUL>>
      BY NoFileLeft
    <3>2. PICK more : Tails(more) /\ more[0] = tails[0] \o e /\ more[n] = e
      BY <1>1, <1>2, <1>3, <3>1, Grows, ZenonT(60) DEF ListInv
    <3>3. QED
      BY <1>1, <1>3, <2>1, <3>1, <3>2 DEF End
  <2>2. CASE form # "fileList"
    BY <1>1, <1>3, <2>2 DEF End
  <2>3. QED
    BY <2>1, <2>2
<1>5. Kinds'
    BY <1>1 DEF ListInv, Kinds, IsList
<1>6. /\ Tails(more)' /\ End' = End /\ more[written'] = End' /\ Len(taken') = 0
      /\ more[Len(taken')] = text' /\ Len(taken') <= Len(given')
  <2>1. Len(taken') = 0
    BY <1>1
  <2>2. Len(given') \in Nat
    BY <1>1, <1>2
  <2>3. QED
    BY <1>1, <1>2, <1>4, <2>1, <2>2, Same
<1>7. Reads'
  <2>1. Arrived'
    BY <1>6 DEF Arrived
  <2>2. QED
    BY <1>1, <1>6, <2>1 DEF Reads, Place
<1>8. QED
    BY <1>1, <1>5, <1>7 DEF ListInv, Wrote

\* While the entries can be told apart, the next one is what the text begins
\* with, and after the last one there is its end.
LEMMA Upcoming ==
    ASSUME ListInv, IsList, phase = "read", NEW k, k = Len(taken), Clean(k + 1),
           NEW tails, Tails(tails), tails[written] = End, Place(tails)
    PROVE  /\ k \in Nat /\ k <= Len(given)
           /\ k = Len(given) => text = End
           /\ k < Len(given) => /\ k + 1 \in 1 .. Len(given) /\ Separable(given[k + 1])
                                /\ tails[k + 1] \in Seq(Char)
                                /\ text = Entry(given[k + 1]) \o tails[k + 1]
<1>1. PICK n \in Nat : n = Len(given) /\ n = written
    BY LenProperties DEF ListInv, Kinds, IsList
<1>2. k \in Nat
    BY LenProperties DEF ListInv, Kinds, IsList
<1>3. k <= n /\ text = tails[k]
    BY <1>1 DEF Place
<1>4. k = n => text = End
    BY <1>1, <1>3
<1>5. ASSUME k < n
      PROVE  /\ k + 1 \in 1 .. n /\ Separable(given[k + 1]) /\ tails[k + 1] \in Seq(Char)
             /\ text = Entry(given[k + 1]) \o tails[k + 1]
  <2>1. k + 1 \in 1 .. n /\ k + 1 \in 0 .. n /\ k + 1 \in 1 .. k + 1 /\ (k + 1) - 1 = k
    BY <1>2, <1>5
  <2>2. Separable(given[k + 1])
    BY <1>1, <2>1 DEF Clean
  <2>3. tails[k + 1] \in Seq(Char)
    BY <1>1, <2>1 DEF Tails
  <2>4. text = Entry(given[k + 1]) \o tails[k + 1]
    BY <1>1, <1>3, <2>1 DEF Tails
  <2>5. QED
    BY <2>1, <2>2, <2>3, <2>4
<1>6. QED
    BY <1>1, <1>2, <1>3, <1>4, <1>5

\* A round in which an entry is read,
LEMMA TakenInv ==
    ASSUME ListInv, IsList, phase = "read", UNCHANGED <<form, given, phase, written>>,
           NEW x, taken' = Append(taken, x), text # End,
           \A i \in 1 .. Len(given), rest \in Seq(Char) :
               Separable(given[i]) /\ text = Entry(given[i]) \o rest =>
                   x = given[i] /\ text' = rest
    PROVE  ListInv'
<1>1. PICK tails : Tails(tails) /\ tails[written] = End /\ Place(tails)
    BY DEF ListInv, Reads
<1>2. PICK k \in Nat : k = Len(taken)
    BY LenProperties DEF ListInv, Kinds, IsList
<1>3. PICK n \in Nat : n = Len(given) /\ n = written
    BY LenProperties DEF ListInv, Kinds, IsList
<1>4. PICK S : taken \in Seq(S) /\ x \in S
  <2>1. PICK R : taken \in Seq(R)
    BY DEF ListInv, Kinds, IsList
  <2>2. R \subseteq R \cup {x}
    OBVIOUS
  <2>3. taken \in Seq(R \cup {x})
    BY <2>1, <2>2, SeqMonotonic
  <2>4. QED
    BY <2>3
<1>5. /\ taken' \in Seq(S) /\ Len(taken') = k + 1 /\ taken'[k + 1] = x
      /\ \A i \in 1 .. k : taken'[i] = taken[i]
    BY <1>2, <1>4, AppendProperties
<1>6. Kinds'
    BY <1>5 DEF ListInv, Kinds
<1>7. ASSUME Clean(k + 1)
      PROVE  k + 1 <= n /\ x = given[k + 1] /\ text' = tails[k + 1]
  <2>1. /\ k <= Len(given)
        /\ k = Len(given) => text = End
        /\ k < Len(given) => /\ k + 1 \in 1 .. Len(given) /\ Separable(given[k + 1])
                             /\ tails[k + 1] \in Seq(Char)
                             /\ text = Entry(given[k + 1]) \o tails[k + 1]
    BY <1>1, <1>2, <1>7, Upcoming
  <2>2. k < n /\ n = Len(given)
    BY <1>3, <2>1
  <2>3. PICK i \in 1 .. Len(given) : i = k + 1
    BY <2>1, <2>2
  <2>4. PICK rest \in Seq(Char) : rest = tails[i]
    BY <2>1, <2>2, <2>3
  <2>5. Separable(given[i]) /\ text = Entry(given[i]) \o rest
    BY <2>1, <2>2, <2>3, <2>4
  <2>6. x = given[i] /\ text' = rest
    BY <2>5
  <2>7. QED
    BY <2>2, <2>3, <2>4, <2>6
<1>8. Arrived'
  <2>1. SUFFICES ASSUME NEW i \in 1 .. k + 1, Clean(i)
                 PROVE  i <= n /\ taken'[i] = given[i]
    BY <1>3, <1>5, Same DEF Arrived
  <2>2. CASE i = k + 1
    BY <1>5, <1>7, <2>1, <2>2
  <2>3. CASE i # k + 1
    <3>1. i \in 1 .. k
      BY <2>3
    <3>2. QED
      BY <1>2, <1>3, <1>5, <2>1, <3>1 DEF ListInv, Reads, Arrived
  <2>4. QED
    BY <2>2, <2>3
<1>9. Place(tails)'
  <2>1. SUFFICES ASSUME Clean(k + 1 + 1)
                 PROVE  k + 1 <= n /\ text' = tails[k + 1]
    BY <1>3, <1>5, Same DEF Place
  <2>2. Clean(k + 1)
    BY <2>1 DEF Clean
  <2>3. QED
    BY <1>7, <2>2
<1>10. Reads'
    BY <1>1, <1>8, <1>9, Same DEF Reads
<1>11. QED
    BY <1>6, <1>10 DEF ListInv, Wrote

\* one in which none is found where an entry would be,
LEMMA PassedInv ==
    ASSUME ListInv, IsList, phase = "read", UNCHANGED <<form, given, written, taken>>,
           phase' \in {"read", "done"},
           \A i \in 1 .. Len(given), rest \in Seq(Char) :
               Separable(given[i]) => text # Entry(given[i]) \o rest,
           text # End \/ UNCHANGED text
    PROVE  ListInv'
<1>1. PICK tails : Tails(tails) /\ tails[written] = End /\ Place(tails)
    BY DEF ListInv, Reads
<1>2. PICK k \in Nat : k = Len(taken)
    BY LenProperties DEF ListInv, Kinds, IsList
<1>3. Kinds'
    BY DEF ListInv, Kinds
<1>4. ASSUME Clean(k + 1)
      PROVE  k = Len(given) /\ text' = text
  <2>1. /\ k <= Len(given)
        /\ k = Len(given) => text = End
        /\ k < Len(given) => /\ k + 1 \in 1 .. Len(given) /\ Separable(given[k + 1])
                             /\ tails[k + 1] \in Seq(Char)
                             /\ text = Entry(given[k + 1]) \o tails[k + 1]
    BY <1>1, <1>2, <1>4, Upcoming
  <2>2. PICK n \in Nat : n = Len(given)
    BY LenProperties DEF ListInv, Kinds, IsList
  <2>3. ~(k < n)
    BY <2>1, <2>2
  <2>4. QED
    BY <2>1, <2>2, <2>3
<1>5. Arrived'
    BY Same DEF ListInv, Reads, Arrived
<1>6. Place(tails)'
    BY <1>1, <1>2, <1>4, Same DEF Place
<1>7. Reads'
  <2>1. Clean(Len(taken) + 1)' => Len(taken') = Len(given')
    BY <1>2, <1>4, Same
  <2>2. QED
    BY <1>1, <1>5, <1>6, <2>1, Same DEF Reads
<1>8. QED
    BY <1>3, <1>7 DEF ListInv, Wrote

LEMMA TakeFileListInv ==
    ASSUME ListInv, TakeFileList
    PROVE  ListInv'
<1>1. PICK read : read = ReadFileInfo(text)
    OBVIOUS
<1>2. /\ IsList /\ form = "fileList" /\ phase = "read" /\ UNCHANGED <<form, given, written>>
      /\ read.good => /\ taken' = Append(taken, read.file) /\ text' = read.rest
                      /\ UNCHANGED phase
      /\ ~read.good => phase' = "done" /\ UNCHANGED <<text, taken>>
    BY <1>1 DEF TakeFileList, Done, IsList
<1>3. ASSUME NEW i \in 1 .. Len(given), NEW rest \in Seq(Char), Separable(given[i]),
             text = Entry(given[i]) \o rest
      PROVE  read.good /\ read.file = given[i] /\ read.rest = rest
  <2>1. PICK file \in FileKind : file = given[i]
    BY <1>2, ElementOfSeq DEF ListInv, Kinds
  <2>2. Plain(file.path) /\ Entry(given[i]) = asFileList(file)
    BY <1>2, <1>3, <2>1 DEF Separable, Entry
  <2>3. read = ReadFileInfo(asFileList(file) \o rest)
    BY <1>1, <1>3, <2>2
  <2>4. read.good /\ read.file = file /\ read.rest = rest
    BY <2>2, <2>3, FileIs
  <2>5. QED
    BY <2>1, <2>4
<1>4. CASE read.good
  <2>1. text # End
    BY <1>1, <1>2, <1>4, NoFileLeft DEF End
  <2>2. PICK x : x = read.file /\ taken' = Append(taken, x)
    BY <1>2, <1>4
  <2>3. \A i \in 1 .. Len(given), rest \in Seq(Char) :
            Separable(given[i]) /\ text = Entry(given[i]) \o rest =>
                x = given[i] /\ text' = rest
    BY <1>2, <1>3, <1>4, <2>2
  <2>4. UNCHANGED <<form, given, phase, written>>
    BY <1>2, <1>4
  <2>5. QED
    BY <1>2, <2>1, <2>2, <2>3, <2>4, TakenInv
<1>5. CASE ~read.good
  <2>1. \A i \in 1 .. Len(given), rest \in Seq(Char) :
            Separable(given[i]) => text # Entry(given[i]) \o rest
    BY <1>3, <1>5
  <2>2. phase' = "done" /\ UNCHANGED <<form, given, written, text, taken>>
    BY <1>2, <1>5
  <2>3. QED
    BY <1>2, <2>1, <2>2, PassedInv
<1>6. QED
    BY <1>4, <1>5

LEMMA RereadFileInv ==
    ASSUME ListInv, RereadFile
    PROVE  ListInv'
<1>1. PICK line, rest : ReadLine(text) = [line |-> line, rest |-> rest]
    BY DEF ReadLine
<1>2. line = UpTo(text, "\n") /\ rest = From(text, Len(line) + 2)
    BY <1>1 DEF ReadLine
<1>3. /\ IsList /\ form = "listFile" /\ phase = "read" /\ End = <<>>
      /\ UNCHANGED <<form, given, written>>
      /\ text # <<>> => /\ taken' = (IF line = <<>> THEN taken ELSE Append(taken, line))
                        /\ text' = rest /\ UNCHANGED phase
      /\ text = <<>> => phase' = "done" /\ UNCHANGED <<text, taken>>
    BY <1>1 DEF RereadFile, Done, IsList, End
<1>4. ASSUME NEW i \in 1 .. Len(given), NEW left \in Seq(Char), Separable(given[i]),
             text = Entry(given[i]) \o left
      PROVE  text # <<>> /\ line # <<>> /\ line = given[i] /\ rest = left
  <2>1. given[i] \in Name
    BY <1>3, ElementOfSeq DEF ListInv, Kinds
  <2>2. PICK p \in Seq(Char) : p = given[i] /\ p # <<>>
    BY <2>1, NameIs
  <2>3. ~Contains(p, "\n") /\ text = Append(p, "\n") \o left
    BY <1>3, <1>4, <2>2 DEF Separable, Entry, Plain
  <2>4. UpTo(text, "\n") = p /\ From(text, Len(p) + 2) = left /\ text # <<>>
    BY <2>3, LineIs
  <2>5. QED
    BY <1>2, <2>2, <2>4
<1>5. CASE text # <<>> /\ line # <<>>
  <2>1. taken' = Append(taken, line) /\ text' = rest /\ UNCHANGED <<form, given, phase, written>>
    BY <1>3, <1>5
  <2>2. \A i \in 1 .. Len(given), left \in Seq(Char) :
            Separable(given[i]) /\ text = Entry(given[i]) \o left =>
                line = given[i] /\ text' = left
    BY <1>4, <2>1
  <2>3. text # End
    BY <1>3, <1>5
  <2>4. QED
    BY <1>3, <2>1, <2>2, <2>3, TakenInv
<1>6. CASE text # <<>> /\ line = <<>>
  <2>1. UNCHANGED <<form, given, written, taken>> /\ phase' = "read" /\ text # End
    BY <1>3, <1>6
  <2>2. \A i \in 1 .. Len(given), left \in Seq(Char) :
            Separable(given[i]) => text # Entry(given[i]) \o left
    BY <1>4, <1>6
  <2>3. QED
    BY <1>3, <2>1, <2>2, PassedInv
<1>7. CASE text = <<>>
  <2>1. UNCHANGED <<form, given, written, taken>> /\ phase' = "done" /\ UNCHANGED text
    BY <1>3, <1>7
  <2>2. \A i \in 1 .. Len(given), left \in Seq(Char) :
            Separable(given[i]) => text # Entry(given[i]) \o left
    BY <1>4, <1>7
  <2>3. QED
    BY <1>3, <2>1, <2>2, PassedInv
<1>8. QED
    BY <1>5, <1>6, <1>7

LEMMA TakeDeletedListInv ==
    ASSUME ListInv, TakeDeletedList
    PROVE  ListInv'
<1>1. PICK path : path = UpTo(text, NUL)
    OBVIOUS
<1>2. /\ IsList /\ form = "deletedList" /\ phase = "read" /\ End = <<>>
      /\ UNCHANGED <<form, given, written>>
      /\ path # text => /\ taken' = Append(taken, path)
                        /\ text' = From(text, Len(path) + 2) /\ UNCHANGED phase
      /\ path = text => phase' = "done" /\ UNCHANGED <<text, taken>>
    BY <1>1 DEF TakeDeletedList, Done, IsList, End
<1>3. ASSUME NEW i \in 1 .. Len(given), NEW left \in Seq(Char),
             text = Entry(given[i]) \o left
      PROVE  path # text /\ path = given[i] /\ From(text, Len(path) + 2) = left
  <2>1. given[i] \in Name
    BY <1>2, ElementOfSeq DEF ListInv, Kinds
  <2>2. PICK p \in Seq(Char) : p = given[i] /\ ~Contains(p, NUL)
    BY <2>1, NameIs
  <2>3. text = Append(p, NUL) \o left
    BY <1>2, <1>3, <2>2 DEF Entry, DeletedText
  <2>4. UpTo(text, NUL) = p /\ From(text, Len(p) + 2) = left /\ text # p
    BY <2>2, <2>3, PathIs
  <2>5. QED
    BY <1>1, <2>2, <2>4
<1>4. CASE path # text
  <2>1. /\ taken' = Append(taken, path) /\ text' = From(text, Len(path) + 2)
        /\ UNCHANGED <<form, given, phase, written>>
    BY <1>2, <1>4
  <2>2. \A i \in 1 .. Len(given), left \in Seq(Char) :
            Separable(given[i]) /\ text = Entry(given[i]) \o left =>
                path = given[i] /\ text' = left
    BY <1>3, <2>1
  <2>3. text # <<>>
    <3>1. <<>> \in Seq(Char) /\ ~Contains(<<>>, NUL)
      BY DEF Contains
    <3>2. UpTo(<<>>, NUL) = <<>>
      BY <3>1, UpToNone
    <3>3. QED
      BY <1>1, <1>4, <3>2
  <2>4. QED
    BY <1>2, <2>1, <2>2, <2>3, TakenInv
<1>5. CASE path = text
  <2>1. UNCHANGED <<form, given, written, taken>> /\ phase' = "done" /\ UNCHANGED text
    BY <1>2, <1>5
  <2>2. \A i \in 1 .. Len(given), left \in Seq(Char) :
            Separable(given[i]) => text # Entry(given[i]) \o left
    BY <1>3, <1>5
  <2>3. QED
    BY <1>2, <2>1, <2>2, PassedInv
<1>6. QED
    BY <1>4, <1>5

LEMMA PathInv ==
    ASSUME ListInv, ScanDirectory \/ JoinPaths
    PROVE  ListInv'
<1>1. CASE ScanDirectory
  <2>1. /\ form' = "path" /\ phase' = "read" /\ taken' = taken
    BY <1>1 DEF ScanDirectory
  <2>2. taken = <<>>
    BY <1>1 DEF ScanDirectory, ListInv, Kinds
  <2>3. QED
    BY <2>1, <2>2 DEF ListInv, Kinds, Wrote, Reads, IsList
<1>2. CASE JoinPaths
  <2>1. form = "path" /\ form' = "path" /\ phase' = "done"
    BY <1>2 DEF JoinPaths
  <2>2. QED
    BY <2>1 DEF ListInv, Kinds, Wrote, Reads, IsList
<1>3. QED
    BY <1>1, <1>2
-----------------------------------------------------------------------------
(* Lines of the list file end where its entries end.                       *)

\* Nothing, or something that ends in a line feed.
Closed(x) == x \in Seq(Char) /\ (x = <<>> \/ x[Len(x)] = "\n")

LEMMA Crossing ==
    ASSUME NEW x \in Seq(Char), Closed(x), x # <<>>, NEW rest \in Seq(Char)
    PROVE  \E y \in Seq(Char) : Closed(y) /\ ReadLine(x \o rest).rest = y \o rest
<1>1. PICK m \in Nat \ {0} : m = Len(x) /\ x[m] = "\n"
    BY EmptySeq, LenProperties DEF Closed
<1>2. PICK s : s = x \o rest
    OBVIOUS
<1>3. PICK n \in Nat : n = Len(rest)
    BY LenProperties
<1>4. /\ s \in Seq(Char) /\ Len(s) = m + n /\ \A i \in 1 .. m : s[i] = x[i]
  <2>1. /\ x \o rest \in Seq(Char) /\ Len(x \o rest) = Len(x) + Len(rest)
        /\ \A i \in 1 .. Len(x) : (x \o rest)[i] = x[i]
    BY Parts, ZenonT(60)
  <2>2. QED
    BY <1>1, <1>2, <1>3, <2>1
<1>5. PICK places : places = {i \in DOMAIN s : s[i] = "\n"}
    OBVIOUS
<1>6. DOMAIN s = 1 .. m + n
    BY <1>4, LenProperties
<1>7. places \subseteq 1 .. Len(s) /\ m \in places
    BY <1>1, <1>4, <1>5, <1>6
<1>8. PICK f \in 1 .. m : f = First(s, places)
  <2>1. First(s, places) \in 1 .. Len(s) + 1 /\ First(s, places) <= m
    BY <1>4, <1>7, FirstIs
  <2>2. QED
    BY <1>4, <2>1
<1>9. PICK k \in 0 .. m - 1 : k = f - 1 /\ k + 2 = f + 1
    OBVIOUS
<1>10. Len(UpTo(s, "\n")) = k
  <2>1. UpTo(s, "\n") = SubSeq(s, 1, k)
    BY <1>5, <1>8, <1>9 DEF UpTo
  <2>2. \A i \in 1 .. k : s[i] \in Char
    BY <1>1, <1>4, ElementOfSeq
  <2>3. Len(SubSeq(s, 1, k)) = IF 1 <= k THEN k - 1 + 1 ELSE 0
    BY <2>2, SubSeqProperties
  <2>4. QED
    BY <2>1, <2>3
<1>11. ReadLine(s).rest = From(s, f + 1)
    BY <1>9, <1>10 DEF ReadLine
<1>12. PICK a : a = SubSeq(x, 1, f)
    OBVIOUS
<1>13. PICK y : y = From(x, f + 1)
    OBVIOUS
<1>14. a \in Seq(Char) /\ Len(a) = f
  <2>1. \A i \in 1 .. f : x[i] \in Char
    BY <1>1, ElementOfSeq
  <2>2. a \in Seq(Char) /\ Len(a) = IF 1 <= f THEN f - 1 + 1 ELSE 0
    BY <1>12, <2>1, SubSeqProperties
  <2>3. QED
    BY <2>2
<1>15. y \in Seq(Char) /\ Len(y) = m - f /\ \A j \in 1 .. m - f : y[j] = x[f + j]
  <2>1. f + 1 \in 1 .. Len(x) + 1
    BY <1>1
  <2>2. /\ y \in Seq(Char) /\ Len(y) = Len(x) + 1 - (f + 1)
        /\ \A j \in 1 .. Len(x) + 1 - (f + 1) : y[j] = x[f + 1 + j - 1]
    BY <1>13, <2>1, FromIs, ZenonT(60)
  <2>3. Len(x) + 1 - (f + 1) = m - f /\ \A j \in Nat : f + 1 + j - 1 = f + j
    BY <1>1
  <2>4. QED
    BY <2>2, <2>3
<1>16. Closed(y)
  <2>1. CASE f = m
    BY <1>15, <2>1, EmptySeq DEF Closed
  <2>2. CASE f # m
    <3>1. PICK l \in 1 .. m - f : l = m - f /\ f + l = m
      BY <2>2
    <3>2. y[l] = x[m] /\ Len(y) = l
      BY <1>15, <3>1
    <3>3. QED
      BY <1>1, <1>15, <3>2 DEF Closed
  <2>3. QED
    BY <2>1, <2>2
<1>17. x = a \o y
  <2>1. 1 \in 1 .. Len(x) + 1 /\ f \in 1 - 1 .. Len(x) /\ m \in f .. Len(x)
    BY <1>1
  <2>2. SubSeq(x, 1, f) \o SubSeq(x, f + 1, m) = SubSeq(x, 1, m)
    BY <2>1, ConcatAdjacentSubSeq
  <2>3. SubSeq(x, 1, m) = x
    BY <1>1, SubSeqFull
  <2>4. QED
    BY <1>1, <1>12, <1>13, <2>2, <2>3 DEF From
<1>18. From(s, f + 1) = y \o rest
  <2>1. y \o rest \in Seq(Char)
    BY <1>15, ConcatProperties
  <2>2. (a \o y) \o rest = a \o (y \o rest)
    BY <1>14, <1>15, AssocChar, ZenonT(60)
  <2>3. From(a \o (y \o rest), Len(a) + 1) = y \o rest
    BY <1>14, <2>1, Parts, ZenonT(60)
  <2>4. QED
    BY <1>2, <1>14, <1>17, <2>2, <2>3
<1>19. QED
    BY <1>2, <1>11, <1>15, <1>16, <1>18

\* The first i entries have been passed, and what has no line feed among them
\* was read; of the last one some lines may be left.
Passed(tails, i, x) ==
    /\ i \in 0 .. written /\ Closed(x)
    /\ text = x \o tails[i]
    /\ \A j \in 1 .. i : Plain(given[j]) => Contains(taken, given[j])

Lines ==
    form = "listFile" /\ phase # "write" =>
        /\ \E tails, i, x : Tails(tails) /\ tails[written] = <<>> /\ Passed(tails, i, x)
        /\ phase = "done" => text = <<>>

LEMMA PassLines ==
    ASSUME ListInv, Pass
    PROVE  Lines'
<1>1. SUFFICES ASSUME form' = "listFile" PROVE Lines'
    BY DEF Lines
<1>2. /\ IsList /\ form = "listFile" /\ phase = "write" /\ phase' = "read"
      /\ UNCHANGED <<form, given, written, taken, text>>
    BY <1>1 DEF Pass
<1>3. PICK tails : Tails(tails) /\ tails[0] = text /\ tails[written] = <<>>
    BY <1>2 DEF ListInv, Wrote
<1>4. PICK x : x = <<>>
    OBVIOUS
<1>5. 0 \in 0 .. written
    BY <1>2, LenProperties DEF ListInv, Kinds
<1>6. text = x \o tails[0] /\ Closed(x)
  <2>1. tails[0] \in Seq(Char)
    BY <1>3, <1>5 DEF Tails
  <2>2. <<>> \o tails[0] = tails[0] /\ <<>> \in Seq(Char)
    BY <2>1, ConcatProperties
  <2>3. QED
    BY <1>3, <1>4, <2>2 DEF Closed
<1>7. Passed(tails, 0, x)'
    BY <1>2, <1>5, <1>6 DEF Passed, Closed
<1>8. Tails(tails)' /\ tails[written'] = <<>>
    BY <1>2, <1>3, Same
<1>9. QED
    BY <1>2, <1>7, <1>8 DEF Lines

\* What was read stays, and what is read joins it.
LEMMA ContainsMore ==
    ASSUME NEW S, NEW s \in Seq(S), NEW x
    PROVE  /\ Contains(Append(s, x), x)
           /\ \A y : Contains(s, y) => Contains(Append(s, x), y)
<1>1. PICK m \in Nat : m = Len(s)
    BY LenProperties
<1>2. s \in Seq(S \cup {x}) /\ x \in S \cup {x}
    BY SeqMonotonic
<1>3. PICK t : t = Append(s, x)
    OBVIOUS
<1>4. Len(t) = m + 1 /\ t[m + 1] = x /\ \A i \in 1 .. m : t[i] = s[i]
    BY <1>1, <1>2, <1>3, AppendProperties
<1>5. Contains(t, x)
  <2>1. m + 1 \in 1 .. m + 1
    OBVIOUS
  <2>2. QED
    BY <1>4, <2>1 DEF Contains
<1>6. ASSUME NEW y, Contains(s, y) PROVE Contains(t, y)
  <2>1. PICK i \in 1 .. m : s[i] = y
    BY <1>1, <1>6 DEF Contains
  <2>2. i \in 1 .. m + 1
    OBVIOUS
  <2>3. QED
    BY <1>4, <2>1, <2>2 DEF Contains
<1>7. QED
    BY <1>3, <1>5, <1>6

LEMMA RereadLines ==
    ASSUME ListInv, Lines, RereadFile
    PROVE  Lines'
<1>1. PICK line, rest : ReadLine(text) = [line |-> line, rest |-> rest]
    BY DEF ReadLine
<1>2. line = UpTo(text, "\n") /\ rest = From(text, Len(line) + 2)
    BY <1>1 DEF ReadLine
<1>3. /\ IsList /\ form = "listFile" /\ phase = "read"
      /\ UNCHANGED <<form, given, written>>
      /\ text # <<>> => /\ taken' = (IF line = <<>> THEN taken ELSE Append(taken, line))
                        /\ text' = rest /\ UNCHANGED phase
      /\ text = <<>> => phase' = "done" /\ UNCHANGED <<text, taken>>
    BY <1>1 DEF RereadFile, Done, IsList
<1>4. PICK tails, i, x : Tails(tails) /\ tails[written] = <<>> /\ Passed(tails, i, x)
    BY <1>3 DEF Lines
<1>5. PICK n \in Nat : n = Len(given) /\ n = written
    BY <1>3, LenProperties DEF ListInv, Kinds
<1>6. i \in 0 .. n /\ x \in Seq(Char) /\ tails[i] \in Seq(Char)
    BY <1>4, <1>5 DEF Passed, Closed, Tails
<1>7. Tails(tails)' /\ tails[written'] = <<>>
    BY <1>3, <1>4, Same
<1>8. ASSUME NEW y, Contains(taken, y) PROVE Contains(taken', y)
  <2>1. PICK S : taken \in Seq(S)
    BY <1>3 DEF ListInv, Kinds
  <2>2. taken' = taken \/ taken' = Append(taken, line)
    BY <1>3
  <2>3. Contains(Append(taken, line), y)
    BY <1>8, <2>1, ContainsMore
  <2>4. QED
    BY <1>8, <2>2, <2>3
<1>9. CASE text = <<>>
  <2>1. Passed(tails, i, x)'
    BY <1>3, <1>4, <1>9 DEF Passed, Closed
  <2>2. QED
    BY <1>3, <1>7, <1>9, <2>1 DEF Lines
\* More of the last entry that was passed, or of one that is begun.
<1>10. ASSUME text # <<>>, NEW k \in 0 .. n, NEW z \in Seq(Char), Closed(z), z # <<>>,
              text = z \o tails[k],
              \A j \in 1 .. k : Plain(given[j]) => Contains(taken, given[j])
       PROVE  Lines'
  <2>1. tails[k] \in Seq(Char)
    BY <1>4, <1>5 DEF Tails
  <2>2. PICK y \in Seq(Char) : Closed(y) /\ ReadLine(z \o tails[k]).rest = y \o tails[k]
    BY <1>10, <2>1, Crossing
  <2>3. text' = y \o tails[k] /\ phase' = "read"
    BY <1>1, <1>3, <1>10, <2>2
  <2>4. Passed(tails, k, y)'
    BY <1>3, <1>5, <1>8, <1>10, <2>2, <2>3 DEF Passed, Closed
  <2>5. QED
    BY <1>7, <2>3, <2>4 DEF Lines
<1>11. CASE text # <<>> /\ x # <<>>
    BY <1>4, <1>6, <1>10, <1>11 DEF Passed
<1>12. CASE text # <<>> /\ x = <<>>
  <2>1. text = tails[i]
    <3>1. text = <<>> \o tails[i]
      BY <1>4, <1>12 DEF Passed
    <3>2. QED
      BY <1>6, <3>1, ConcatProperties
  <2>2. i # n
    BY <1>4, <1>5, <1>12, <2>1
  <2>3. PICK k \in 1 .. n : k = i + 1 /\ k - 1 = i /\ k \in 0 .. n
    BY <1>6, <2>2
  <2>4. tails[k] \in Seq(Char) /\ text = Entry(given[k]) \o tails[k]
    BY <1>4, <1>5, <2>1, <2>3 DEF Tails
  <2>5. PICK p \in Seq(Char) : p = given[k] /\ p # <<>> /\ Entry(given[k]) = Append(p, "\n")
    <3>1. given[k] \in Name
      BY <1>3, <1>5, ElementOfSeq DEF ListInv, Kinds
    <3>2. Entry(given[k]) = Append(given[k], "\n")
      BY <1>3 DEF Entry
    <3>3. QED
      BY <3>1, <3>2, NameIs
  <2>6. \A j \in 1 .. k : j # k /\ Plain(given[j]) => Contains(taken, given[j])
    <3>1. \A j \in 1 .. k : j # k => j \in 1 .. i
      BY <1>6, <2>3
    <3>2. QED
      BY <1>4, <3>1 DEF Passed
  <2>7. CASE Plain(p)
    <3>1. ~Contains(p, "\n") /\ text = Append(p, "\n") \o tails[k]
      BY <2>4, <2>5, <2>7 DEF Plain
    <3>2. UpTo(text, "\n") = p /\ From(text, Len(p) + 2) = tails[k]
      BY <2>4, <3>1, LineIs
    <3>3. line = p /\ text' = tails[k] /\ taken' = Append(taken, p) /\ phase' = "read"
      BY <1>2, <1>3, <1>12, <2>5, <3>2
    <3>4. Contains(taken', p)
      <4>1. PICK S : taken \in Seq(S)
        BY <1>3 DEF ListInv, Kinds
      <4>2. QED
        BY <3>3, <4>1, ContainsMore
    <3>5. \A j \in 1 .. k : Plain(given[j]) => Contains(taken', given[j])
      BY <1>8, <2>5, <2>6, <3>4
    <3>6. Closed(<<>>) /\ text' = <<>> \o tails[k]
      <4>1. <<>> \o tails[k] = tails[k] /\ <<>> \in Seq(Char)
        BY <2>4, ConcatProperties
      <4>2. QED
        BY <3>3, <4>1 DEF Closed
    <3>7. Passed(tails, k, <<>>)'
      BY <1>3, <1>5, <2>3, <3>5, <3>6 DEF Passed, Closed
    <3>8. QED
      BY <1>7, <3>3, <3>7 DEF Lines
  <2>8. CASE ~Plain(p)
    <3>1. PICK z : z = Append(p, "\n")
      OBVIOUS
    <3>2. PICK m \in Nat : m = Len(p)
      BY LenProperties
    <3>3. z \in Seq(Char) /\ Len(z) = m + 1 /\ z[m + 1] = "\n"
      BY <3>1, <3>2, Characters, AppendProperties
    <3>4. z # <<>> /\ Closed(z)
      BY <3>3, EmptySeq DEF Closed
    <3>5. \A j \in 1 .. k : Plain(given[j]) => Contains(taken, given[j])
      BY <2>5, <2>6, <2>8
    <3>6. QED
      BY <1>10, <1>12, <2>3, <2>4, <2>5, <3>1, <3>3, <3>4, <3>5
  <2>9. QED
    BY <2>7, <2>8
<1>13. QED
    BY <1>9, <1>11, <1>12
-----------------------------------------------------------------------------
(* Paths below the root.                                                   *)

\* What is made relative to the root is what stands below it.
LEMMA RelativeIs ==
    ASSUME NEW S, NEW root \in Seq(S), NEW below \in Seq(S), below # <<>>
    PROVE  relativeTo(root, root \o below) = below
<1>1. PICK m \in Nat : m = Len(root)
    BY LenProperties
<1>2. PICK n \in Nat \ {0} : n = Len(below)
    BY EmptySeq, LenProperties
<1>3. PICK to : to = root \o below
    OBVIOUS
<1>4. /\ to \in Seq(S) /\ Len(to) = m + n /\ \A i \in 1 .. m : to[i] = root[i]
      /\ From(to, m + 1) = below
  <2>1. /\ root \o below \in Seq(S) /\ Len(root \o below) = Len(root) + Len(below)
        /\ \A i \in 1 .. Len(root) : (root \o below)[i] = root[i]
        /\ From(root \o below, Len(root) + 1) = below
    BY Parts, ZenonT(60)
  <2>2. QED
    BY <1>1, <1>2, <1>3, <2>1
<1>5. PICK places : places = {i \in DOMAIN to : i > Len(root) \/ to[i] # root[i]}
    OBVIOUS
<1>6. DOMAIN to = 1 .. m + n
    BY <1>4, LenProperties
<1>7. places \subseteq 1 .. Len(to) /\ m + 1 \in places /\ m + 1 \in 1 .. Len(to) + 1
    BY <1>1, <1>2, <1>4, <1>5, <1>6
<1>8. \A i \in 1 .. (m + 1) - 1 : i \notin places
    BY <1>1, <1>4, <1>5
<1>9. First(to, places) = m + 1
    BY <1>4, <1>7, <1>8, FirstAt
<1>10. PICK up : up = [i \in 1 .. Len(root) + 1 - (m + 1) |-> ".."]
    OBVIOUS
<1>11. up = <<>>
  <2>1. Len(root) + 1 - (m + 1) = 0
    BY <1>1
  <2>2. up = [i \in 1 .. 0 |-> ".."]
    BY <1>10, <2>1
  <2>3. QED
    BY <2>2
<1>12. relativeTo(root, to) = up \o From(to, m + 1)
    BY <1>5, <1>9, <1>10 DEF relativeTo
<1>13. <<>> \o below = below
    BY ConcatProperties
<1>14. QED
    BY <1>3, <1>4, <1>11, <1>12, <1>13

Paths ==
    form = "path" =>
        /\ phase = "read" => Root \o text = given
        /\ phase = "done" => taken = given

LEMMA ScanPaths ==
    ASSUME ~TrailingSlash, ScanDirectory
    PROVE  Paths'
<1>1. PICK below : /\ below \in SeqOf(Component, MaxLength) /\ below # <<>>
                   /\ given' = Root \o below
    BY DEF ScanDirectory
<1>2. below \in Seq(Component)
    BY <1>1, Lists
<1>3. Root \in Seq(STRING) /\ Component \subseteq STRING
    BY ListAssumption
<1>4. below \in Seq(STRING)
    BY <1>2, <1>3, SeqMonotonic
<1>5. relativeTo(Root, Root \o below) = below
    BY <1>1, <1>3, <1>4, RelativeIs
<1>6. text' = below /\ phase' = "read"
    BY <1>1, <1>5 DEF ScanDirectory, RootPath
<1>7. QED
    BY <1>1, <1>6 DEF Paths

LEMMA PathsStep ==
    ASSUME ~TrailingSlash, Paths, [Next]_listVars
    PROVE  Paths'
<1>1. CASE ScanDirectory
    BY <1>1, ScanPaths
<1>2. CASE JoinPaths
    BY <1>2 DEF Paths, JoinPaths
<1>3. CASE form' # "path" \/ UNCHANGED listVars
    BY <1>3 DEF Paths, listVars
<1>4. CASE SendFileList \/ SaveList \/ SendDeletedList
    BY <1>3, <1>4 DEF SendFileList, SaveList, SendDeletedList, Begin
<1>5. CASE Write \/ Pass
    BY <1>3, <1>5 DEF Write, Pass, IsList
<1>6. CASE TakeFileList
    BY <1>3, <1>6 DEF TakeFileList, Done
<1>7. CASE RereadFile
    BY <1>3, <1>7 DEF RereadFile, Done
<1>8. CASE TakeDeletedList
    BY <1>3, <1>8 DEF TakeDeletedList, Done
<1>9. QED
    BY <1>1, <1>2, <1>3, <1>4, <1>5, <1>6, <1>7, <1>8 DEF Next
-----------------------------------------------------------------------------
(* The theorems.                                                           *)

LEMMA InitInv == Init => ListInv /\ Lines /\ Paths
<1>1. SUFFICES ASSUME Init PROVE ListInv /\ Lines /\ Paths
    OBVIOUS
<1>2. Kinds
  <2>1. Len(given) = 0 /\ 0 \in 0 .. 0
    BY <1>1 DEF Init
  <2>2. taken \in Seq(STRING)
    BY <1>1 DEF Init
  <2>3. QED
    BY <1>1, <2>1, <2>2 DEF Init, Kinds
<1>3. Wrote
  <2>1. PICK tails : tails = [i \in 0 .. 0 |-> <<>>]
    OBVIOUS
  <2>2. tails \in [0 .. 0 -> Seq(Char)] /\ tails[0] = <<>>
    BY <2>1
  <2>3. Tails(tails)
    BY <1>1, <2>2 DEF Init, Tails
  <2>4. QED
    BY <1>1, <2>2, <2>3 DEF Init, Wrote
<1>4. QED
    BY <1>1, <1>2, <1>3 DEF Init, ListInv, Reads, Lines, Paths, IsList

LEMMA NextInv ==
    ASSUME ListInv, Lines, [Next]_listVars
    PROVE  ListInv' /\ Lines'
<1>1. CASE SendFileList \/ SaveList \/ SendDeletedList
  <2>1. phase' = "write"
    BY <1>1 DEF SendFileList, SaveList, SendDeletedList, Begin
  <2>2. QED
    BY <1>1, <2>1, BeginInv DEF Lines
<1>2. CASE Write
  <2>1. phase' = "write"
    BY <1>2 DEF Write
  <2>2. QED
    BY <1>2, <2>1, WriteInv DEF Lines
<1>3. CASE Pass
    BY <1>3, PassInv, PassLines
<1>4. CASE TakeFileList
  <2>1. form' # "listFile"
    BY <1>4 DEF TakeFileList, Done
  <2>2. QED
    BY <1>4, <2>1, TakeFileListInv DEF Lines
<1>5. CASE RereadFile
    BY <1>5, RereadFileInv, RereadLines
<1>6. CASE TakeDeletedList
  <2>1. form' # "listFile"
    BY <1>6 DEF TakeDeletedList, Done
  <2>2. QED
    BY <1>6, <2>1, TakeDeletedListInv DEF Lines
<1>7. CASE ScanDirectory \/ JoinPaths
  <2>1. form' # "listFile"
    BY <1>7 DEF ScanDirectory, JoinPaths
  <2>2. QED
    BY <1>7, <2>1, PathInv DEF Lines
<1>8. CASE UNCHANGED listVars
  <2>1. /\ UNCHANGED <<form, given, phase, written, text, taken>>
    BY <1>8 DEF listVars
  <2>2. Kinds' /\ Wrote' /\ Reads'
    <3>1. Kinds'
      BY <2>1 DEF ListInv, Kinds
    <3>2. Wrote'
      BY <2>1, Same DEF ListInv, Wrote
    <3>3. Arrived' <=> Arrived
      BY <2>1, Same DEF Arrived
    <3>4. \A tails : Place(tails)' <=> Place(tails)
      BY <2>1, Same DEF Place
    <3>5. Reads'
      BY <2>1, <3>3, <3>4, Same DEF ListInv, Reads
    <3>6. QED
      BY <3>1, <3>2, <3>5
  <2>3. Lines'
    <3>1. \A tails, i, x : Passed(tails, i, x)' <=> Passed(tails, i, x)
      BY <2>1 DEF Passed, Closed
    <3>2. QED
      BY <2>1, <3>1, Same DEF Lines
  <2>4. QED
    BY <2>2, <2>3 DEF ListInv
<1>9. QED
    BY <1>1, <1>2, <1>3, <1>4, <1>5, <1>6, <1>7, <1>8 DEF Next

\* When the reading has ended, all is there that could be told apart.
LEMMA AllTaken ==
    ASSUME ListInv, IsList, phase = "done", NEW plain \in 0 .. Len(given), Clean(plain)
    PROVE  /\ SubSeq(taken, 1, plain) = SubSeq(given, 1, plain)
           /\ plain = Len(given) => taken = given
<1>1. PICK n \in Nat : n = Len(given) /\ plain \in 0 .. n
    BY LenProperties DEF ListInv, Kinds, IsList
<1>2. PICK k \in Nat : k = Len(taken)
    BY LenProperties DEF ListInv, Kinds, IsList
<1>3. PICK S : taken \in Seq(S) /\ given \in Seq(S)
  <2>1. PICK R : taken \in Seq(R)
    BY DEF ListInv, Kinds, IsList
  <2>2. PICK Q : given \in Seq(Q)
    BY DEF ListInv, Kinds, IsList
  <2>3. R \subseteq R \cup Q /\ Q \subseteq R \cup Q
    OBVIOUS
  <2>4. taken \in Seq(R \cup Q) /\ given \in Seq(R \cup Q)
    BY <2>1, <2>2, <2>3, SeqMonotonic
  <2>5. QED
    BY <2>4
<1>4. Clean(k + 1) => k = n
    BY <1>1, <1>2 DEF ListInv, Reads
<1>5. plain <= k
  <2>1. SUFFICES ASSUME k < plain PROVE FALSE
    BY <1>1, <1>2
  <2>2. Clean(k + 1)
    BY <1>1, <1>2, <2>1 DEF Clean
  <2>3. QED
    BY <1>1, <1>4, <2>1, <2>2
<1>6. ASSUME NEW i \in 1 .. plain PROVE taken[i] = given[i]
  <2>1. i \in 1 .. k /\ Clean(i)
    BY <1>1, <1>2, <1>5 DEF Clean
  <2>2. QED
    BY <1>2, <2>1 DEF ListInv, Reads, Arrived
<1>7. SubSeq(taken, 1, plain) = SubSeq(given, 1, plain)
  <2>1. \A i \in 1 .. plain : taken[i] \in S /\ given[i] \in S
    BY <1>1, <1>3, <1>6, ElementOfSeq
  <2>2. PICK a : a = SubSeq(taken, 1, plain)
    OBVIOUS
  <2>3. PICK b : b = SubSeq(given, 1, plain)
    OBVIOUS
  <2>4. /\ a \in Seq(S) /\ Len(a) = IF 1 <= plain THEN plain - 1 + 1 ELSE 0
        /\ \A i \in 1 .. plain - 1 + 1 : a[i] = taken[1 + i - 1]
    BY <1>1, <2>1, <2>2, SubSeqProperties
  <2>5. /\ b \in Seq(S) /\ Len(b) = IF 1 <= plain THEN plain - 1 + 1 ELSE 0
        /\ \A i \in 1 .. plain - 1 + 1 : b[i] = given[1 + i - 1]
    BY <1>1, <2>1, <2>3, SubSeqProperties
  <2>6. Len(a) = plain /\ Len(b) = plain
    BY <1>1, <2>4, <2>5
  <2>7. ASSUME NEW i \in 1 .. plain PROVE a[i] = b[i]
    <3>1. i \in 1 .. plain - 1 + 1 /\ 1 + i - 1 = i
      BY <1>1
    <3>2. QED
      BY <1>6, <2>4, <2>5, <3>1
  <2>8. a = b
    BY <2>4, <2>5, <2>6, <2>7, SeqEqual
  <2>9. QED
    BY <2>2, <2>3, <2>8
<1>8. ASSUME plain = n PROVE taken = given
  <2>1. Clean(k + 1)
    BY <1>1, <1>2, <1>8 DEF Clean
  <2>2. k = n
    BY <1>4, <2>1
  <2>3. QED
    BY <1>1, <1>2, <1>3, <1>6, <1>8, <2>2, SeqEqual
<1>9. QED
    BY <1>1, <1>7, <1>8

\* The invariant the theorems rest on: at every round what is left to be read
\* begins where an entry was written, unless a name with a line feed was met.
THEOREM ListsAreRead == Spec => [](ListInv /\ Lines)
<1>1. Init => ListInv /\ Lines
    BY InitInv
<1>2. ListInv /\ Lines /\ [Next]_listVars => (ListInv /\ Lines)'
    BY NextInv
<1>3. QED
    BY <1>1, <1>2, PTL DEF Spec

\* A list of files is read as it was written (FileScanner::asFileList,
\* FileScanner::fromString and FileInfo's operators): all of it when no name
\* has a line feed, else the files before the first name that has one.
THEOREM FilesAlwaysArrive == Spec => []FilesArrive
<1>1. ASSUME ListInv PROVE FilesArrive
  <2>1. SUFFICES ASSUME form = "fileList", phase = "done" PROVE FilesArrive
    BY DEF FilesArrive, Read
  <2>2. given \in Seq(FileKind)
    BY <1>1, <2>1 DEF ListInv, Kinds
  <2>3. PICK n \in Nat : n = Len(given)
    BY <2>2, LenProperties
  <2>4. PICK places : places = {i \in DOMAIN given : ~Plain(given[i].path)}
    OBVIOUS
  <2>5. places \subseteq 1 .. Len(given)
    BY <2>2, <2>3, <2>4, LenProperties
  <2>6. PICK f \in 1 .. n + 1 : f = First(given, places) /\ \A i \in places : f <= i
    <3>1. /\ First(given, places) \in 1 .. Len(given) + 1
          /\ \A i \in places : First(given, places) <= i
      BY <2>2, <2>5, FirstIs
    <3>2. QED
      BY <2>3, <3>1
  <2>7. PICK plain \in 0 .. n : plain = f - 1
    OBVIOUS
  <2>8. Clean(plain)
    <3>1. SUFFICES ASSUME NEW i \in 1 .. plain, i <= n PROVE Plain(given[i].path)
      BY <2>1, <2>3 DEF Clean, Separable
    <3>2. i \in DOMAIN given /\ ~(f <= i)
      BY <2>2, <2>3, <2>7, <3>1, LenProperties
    <3>3. QED
      BY <2>4, <2>6, <3>2
  <2>9. /\ SubSeq(taken, 1, plain) = SubSeq(given, 1, plain)
        /\ plain = Len(given) => taken = given
    BY <1>1, <2>1, <2>3, <2>8, AllTaken DEF IsList
  <2>10. QED
    BY <2>4, <2>6, <2>7, <2>9 DEF FilesArrive
<1>2. QED
    BY <1>1, ListsAreRead, PTL

\* A server that starts again (DeletedFileList::rereadFile) has every path
\* without a line feed that it had written, and no other ones if none has one.
THEOREM ListIsAlwaysReread == Spec => []ListIsReread
<1>1. ASSUME ListInv, Lines PROVE ListIsReread
  <2>1. SUFFICES ASSUME form = "listFile", phase = "done" PROVE ListIsReread
    BY DEF ListIsReread, Read
  <2>2. given \in Seq(Name)
    BY <1>1, <2>1 DEF ListInv, Kinds
  <2>3. PICK n \in Nat : n = Len(given) /\ n = written
    BY <1>1, <2>1, <2>2, LenProperties DEF ListInv, Kinds
  <2>4. DOMAIN given = 1 .. n
    BY <2>2, <2>3, LenProperties
  <2>5. ASSUME NEW j \in DOMAIN given, Plain(given[j]) PROVE Contains(taken, given[j])
    <3>1. PICK tails, i, x : Tails(tails) /\ tails[written] = <<>> /\ Passed(tails, i, x)
      BY <1>1, <2>1 DEF Lines
    <3>2. /\ i \in 0 .. n /\ x \in Seq(Char) /\ tails[i] \in Seq(Char)
          /\ x \o tails[i] = <<>>
      BY <1>1, <2>1, <2>3, <3>1 DEF Lines, Passed, Closed, Tails
    <3>3. tails[i] = <<>>
      BY <3>2, ConcatProperties
    <3>4. i = n
      <4>1. SUFFICES ASSUME i # n PROVE FALSE
        OBVIOUS
      <4>2. PICK k \in 1 .. n : k = i + 1 /\ k - 1 = i /\ k \in 0 .. n
        BY <3>2, <4>1
      <4>3. tails[k] \in Seq(Char) /\ <<>> = Entry(given[k]) \o tails[k]
        BY <2>3, <3>1, <3>3, <4>2 DEF Tails
      <4>4. PICK p \in Seq(Char) : Entry(given[k]) = Append(p, "\n")
        <5>1. given[k] \in Name
          BY <2>2, <2>3, <4>2, ElementOfSeq
        <5>2. Entry(given[k]) = Append(given[k], "\n")
          BY <2>1 DEF Entry
        <5>3. QED
          BY <5>1, <5>2, NameIs
      <4>5. Append(p, "\n") \o tails[k] # <<>>
        <5>1. Append(p, "\n") \in Seq(Char) /\ Len(Append(p, "\n")) = Len(p) + 1
          BY Characters, AppendProperties
        <5>2. Append(p, "\n") # <<>>
          <6>1. PICK m \in Nat : m = Len(p)
            BY LenProperties
          <6>2. QED
            BY <5>1, <6>1, EmptySeq
        <5>3. QED
          BY <4>3, <5>1, <5>2, ConcatProperties
      <4>6. QED
        BY <4>3, <4>4, <4>5
    <3>5. j \in 1 .. i
      BY <2>4, <3>4
    <3>6. QED
      BY <2>5, <3>1, <3>5 DEF Passed
  <2>6. ASSUME \A i \in DOMAIN given : Plain(given[i]) PROVE taken = given
    <3>1. Clean(n)
      BY <2>1, <2>3, <2>4, <2>6 DEF Clean, Separable
    <3>2. n \in 0 .. Len(given)
      BY <2>3
    <3>3. QED
      BY <1>1, <2>1, <2>3, <3>1, <3>2, AllTaken DEF IsList
  <2>7. QED
    BY <2>5, <2>6 DEF ListIsReread
<1>2. QED
    BY <1>1, ListsAreRead, PTL

\* The list of deleted files that a server sends (ServerDeletedList) is the one
\* a client reads.
THEOREM DeletedListAlwaysArrives == Spec => []DeletedListArrives
<1>1. ASSUME ListInv PROVE DeletedListArrives
  <2>1. SUFFICES ASSUME form = "deletedList", phase = "done" PROVE taken = given
    BY DEF DeletedListArrives, Read
  <2>2. PICK n \in Nat : n = Len(given)
    BY <1>1, <2>1, LenProperties DEF ListInv, Kinds
  <2>3. Clean(n)
    BY <2>1 DEF Clean, Separable
  <2>4. n \in 0 .. Len(given)
    BY <2>2
  <2>5. QED
    BY <1>1, <2>1, <2>2, <2>3, <2>4, AllTaken DEF IsList
<1>2. QED
    BY <1>1, ListsAreRead, PTL

\* If the root is given without a / at its end, as lists_slash shows it must be,
\* the path a scan finds leads back to its file (relativeTo, FileScanner,
\* ClientLogic).
THEOREM PathAlwaysLeadsBack == ~TrailingSlash /\ Spec => []PathLeadsBack
<1>1. Init => Paths
    BY InitInv
<1>2. ~TrailingSlash /\ Paths /\ [Next]_listVars => Paths'
    BY PathsStep
<1>3. Paths => PathLeadsBack
    BY DEF Paths, PathLeadsBack, Read
<1>4. CASE TrailingSlash
    BY <1>4
<1>5. CASE ~TrailingSlash
  <2>1. Paths /\ [Next]_listVars => Paths'
    BY <1>2, <1>5
  <2>2. Spec => []PathLeadsBack
    BY <1>1, <1>3, <2>1, PTL DEF Spec
  <2>3. QED
    BY <2>2
<1>6. QED
    BY <1>4, <1>5
=============================================================================
