---------------------------- MODULE TunnelProofs -----------------------------
(***************************************************************************)
(* Whatever the client says and asks, and whatever the application and the *)
(* target write: what the target reads is what the application wrote, from *)
(* its first byte on, and the other way round, and the links of the        *)
(* server's two connections never dangle.                                  *)
(*                                                                         *)
(* The invariant lays what is read, under way and not yet sent of each     *)
(* stream in a row (InRow): a piece of the stream each, one behind the     *)
(* other.  The client's stream is its greeting, its request and the        *)
(* payload; how much of it the server has taken is told by the flags of    *)
(* its connection (Taken), and where it ends by those of the client's      *)
(* (Written), so the flags can never run ahead of the bytes.               *)
(***************************************************************************)
EXTENDS Tunnel, SequenceTheorems, TLAPS

(* Pieces of a stream.                                                     *)
LEMMA PieceEmpty ==
  ASSUME NEW x \in Stream, NEW i \in Nat, i <= Len(x)
  PROVE  Piece(<<>>, x, i)
  BY DEF Piece

LEMMA PieceJoin ==
  ASSUME NEW x \in Stream, NEW i \in Nat, NEW a \in Stream, NEW b \in Stream,
         Piece(a, x, i), Piece(b, x, i + Len(a))
  PROVE  Piece(a \o b, x, i) /\ a \o b \in Stream /\ Len(a \o b) = Len(a) + Len(b)
<1> USE DEF Stream
<1>1. Len(a) \in Nat /\ Len(b) \in Nat /\ Len(x) \in Nat
  OBVIOUS
<1>2. /\ a \o b \in Seq(Bytes) /\ Len(a \o b) = Len(a) + Len(b)
      /\ \A j \in 1..(Len(a) + Len(b)) : (a \o b)[j] = IF j <= Len(a) THEN a[j] ELSE b[j - Len(a)]
  BY ConcatProperties
<1> DEFINE c == a \o b
<1> HIDE DEF c
<1>3. ASSUME NEW j \in 1..Len(c) PROVE c[j] = x[i + j]
  <2>1. CASE j <= Len(a)
    BY <1>1, <1>2, <2>1 DEF c, Piece
  <2>2. CASE j > Len(a)
    <3>1. j - Len(a) \in 1..Len(b) /\ (i + Len(a)) + (j - Len(a)) = i + j
      BY <1>1, <1>2, <2>2 DEF c
    <3>2. c[j] = b[j - Len(a)]
      BY <1>1, <1>2, <2>2 DEF c
    <3> QED BY <3>1, <3>2 DEF Piece
  <2> QED BY <1>1, <2>1, <2>2
<1>4. i + Len(c) <= Len(x)
  BY <1>1, <1>2 DEF Piece, c
<1> QED BY <1>2, <1>3, <1>4 DEF Piece, c

LEMMA PieceCut ==
  ASSUME NEW x \in Stream, NEW i \in Nat, NEW b \in Stream, Piece(b, x, i), NEW n \in 0..Len(b)
  PROVE  /\ SubSeq(b, 1, n) \in Stream /\ Len(SubSeq(b, 1, n)) = n /\ Piece(SubSeq(b, 1, n), x, i)
         /\ SubSeq(b, n + 1, Len(b)) \in Stream /\ Len(SubSeq(b, n + 1, Len(b))) = Len(b) - n
         /\ Piece(SubSeq(b, n + 1, Len(b)), x, i + n)
<1> USE DEF Stream
<1> DEFINE f == SubSeq(b, 1, n)
           g == SubSeq(b, n + 1, Len(b))
           l == Len(b)
<1>1. l \in Nat /\ n \in Nat /\ n <= l /\ Len(x) \in Nat /\ i + l <= Len(x)
      /\ \A j \in 1..l : b[j] = x[i + j]
  BY DEF Piece
<1>2. f \in Seq(Bytes) /\ Len(f) = n /\ \A j \in 1..n : f[j] = b[j]
  <2>1. CASE n = 0
    BY <1>1, <2>1
  <2>2. CASE n > 0
    BY <1>1, <2>2
  <2> QED BY <1>1, <2>1, <2>2
<1>3. g \in Seq(Bytes) /\ Len(g) = l - n /\ \A j \in 1..(l - n) : g[j] = b[n + j]
  <2>1. CASE n = l
    BY <1>1, <2>1
  <2>2. CASE n < l
    BY <1>1, <2>2
  <2> QED BY <1>1, <2>1, <2>2
<1> HIDE DEF f, g, l
<1>4. Piece(f, x, i)
  BY <1>1, <1>2 DEF Piece
<1>5. Piece(g, x, i + n)
  <2>1. ASSUME NEW j \in 1..(l - n) PROVE g[j] = x[(i + n) + j]
    <3>1. n + j \in 1..l /\ i + (n + j) = (i + n) + j
      BY <1>1
    <3> QED BY <1>1, <1>3, <3>1
  <2>2. (i + n) + Len(g) <= Len(x)
    BY <1>1, <1>3
  <2> QED BY <1>3, <2>1, <2>2 DEF Piece
<1> QED BY <1>2, <1>3, <1>4, <1>5 DEF f, g, l

LEMMA PrefixOf ==
  ASSUME NEW x \in Seq(Bytes), NEW y \in Seq(Bytes), Len(x) <= Len(y), \A j \in 1..Len(x) : x[j] = y[j]
  PROVE  IsPrefix(x, y)
<1> DEFINE n == Len(x)
           a == SubSeq(x, 1, n)
           b == SubSeq(y, 1, n)
<1>1. n \in Nat /\ Len(y) \in Nat /\ n <= Len(y)
  OBVIOUS
<1>2. a \in Seq(Bytes) /\ Len(a) = n /\ \A j \in 1..n : a[j] = x[j]
  BY <1>1
<1>3. b \in Seq(Bytes) /\ Len(b) = n /\ \A j \in 1..n : b[j] = y[j]
  BY <1>1
<1>4. \A j \in 1..n : x[j] = y[j]
  OBVIOUS
<1> HIDE DEF a, b, n
<1>5. a = b
  BY <1>1, <1>2, <1>3, <1>4, SeqEqual
<1> QED BY <1>1, <1>5 DEF IsPrefix, a, b, n

(* Rows: bytes are sent, arrive, are written, dropped and consumed.        *)
LEMMA RowFlush ==
  ASSUME NEW x \in Stream, NEW i \in Nat, NEW r \in Stream, NEW w \in Stream, NEW o \in Stream,
         InRow(r, w, o, x, i)
  PROVE  /\ InRow(r, w \o o, <<>>, x, i) /\ RowEnd(r, w \o o, <<>>, i) = RowEnd(r, w, o, i)
         /\ w \o o \in Stream
<1> DEFINE c == w \o o
           e == i + Len(r)
<1>1. Len(r) \in Nat /\ Len(w) \in Nat /\ Len(o) \in Nat /\ Len(x) \in Nat /\ e \in Nat
  BY DEF Stream
<1>2. Piece(w, x, e) /\ Piece(o, x, e + Len(w)) /\ Piece(r, x, i)
  BY DEF InRow
<1> HIDE DEF e
<1>3. Piece(c, x, e) /\ c \in Stream /\ Len(c) = Len(w) + Len(o)
  BY <1>1, <1>2, PieceJoin
<1> HIDE DEF c
<1>4. Piece(<<>>, x, e + Len(c)) /\ Len(<<>>) = 0
  <2>1. e + Len(c) \in Nat /\ e + Len(c) <= Len(x)
    BY <1>1, <1>3 DEF Piece
  <2> QED BY <2>1, PieceEmpty
<1>5. InRow(r, c, <<>>, x, i)
  BY <1>2, <1>3, <1>4 DEF InRow, e
<1>6. RowEnd(r, c, <<>>, i) = RowEnd(r, w, o, i)
  BY <1>1, <1>3, <1>4 DEF RowEnd
<1> QED BY <1>3, <1>5, <1>6 DEF c

LEMMA RowTake ==
  ASSUME NEW x \in Stream, NEW i \in Nat, NEW r \in Stream, NEW w \in Stream, NEW o \in Stream,
         InRow(r, w, o, x, i), NEW n \in 1..Len(w)
  PROVE  /\ InRow(r \o SubSeq(w, 1, n), SubSeq(w, n + 1, Len(w)), o, x, i)
         /\ RowEnd(r \o SubSeq(w, 1, n), SubSeq(w, n + 1, Len(w)), o, i) = RowEnd(r, w, o, i)
         /\ r \o SubSeq(w, 1, n) \in Stream /\ SubSeq(w, n + 1, Len(w)) \in Stream
         /\ Len(r \o SubSeq(w, 1, n)) = Len(r) + n
<1> DEFINE f == SubSeq(w, 1, n)
           g == SubSeq(w, n + 1, Len(w))
           e == i + Len(r)
           c == r \o f
<1>1. Len(r) \in Nat /\ Len(w) \in Nat /\ Len(o) \in Nat /\ e \in Nat /\ n \in 0..Len(w)
  BY DEF Stream
<1>2. Piece(w, x, e) /\ Piece(o, x, e + Len(w)) /\ Piece(r, x, i)
  BY DEF InRow
<1> HIDE DEF e
<1>3. /\ f \in Stream /\ Len(f) = n /\ Piece(f, x, e)
      /\ g \in Stream /\ Len(g) = Len(w) - n /\ Piece(g, x, e + n)
  BY <1>1, <1>2, PieceCut
<1> HIDE DEF f, g
<1>4. Piece(c, x, i) /\ c \in Stream /\ Len(c) = Len(r) + n
  <2>1. Piece(f, x, i + Len(r))
    BY <1>3 DEF e
  <2> QED BY <1>2, <1>3, <2>1, PieceJoin
<1> HIDE DEF c
<1>5. i + Len(c) = e + n /\ i + Len(c) + Len(g) = e + Len(w)
  BY <1>1, <1>3, <1>4 DEF e
<1>6. InRow(c, g, o, x, i)
  BY <1>2, <1>3, <1>4, <1>5 DEF InRow
<1>7. RowEnd(c, g, o, i) = RowEnd(r, w, o, i)
  BY <1>1, <1>5 DEF RowEnd, e
<1> QED BY <1>3, <1>4, <1>6, <1>7 DEF c, f, g

LEMMA RowWrite ==
  ASSUME NEW x \in Stream, NEW i \in Nat, NEW r \in Stream, NEW w \in Stream, NEW o \in Stream,
         InRow(r, w, o, x, i), NEW b \in Stream, Piece(b, x, RowEnd(r, w, o, i))
  PROVE  /\ InRow(r, w, o \o b, x, i) /\ RowEnd(r, w, o \o b, i) = RowEnd(r, w, o, i) + Len(b)
         /\ o \o b \in Stream
<1> DEFINE c == o \o b
           e == i + Len(r) + Len(w)
<1>1. Len(r) \in Nat /\ Len(w) \in Nat /\ Len(o) \in Nat /\ Len(b) \in Nat /\ e \in Nat
  BY DEF Stream
<1>2. Piece(o, x, e) /\ RowEnd(r, w, o, i) = e + Len(o)
  BY DEF InRow, RowEnd
<1> HIDE DEF e
<1>3. Piece(c, x, e) /\ c \in Stream /\ Len(c) = Len(o) + Len(b)
  BY <1>1, <1>2, PieceJoin
<1> HIDE DEF c
<1>4. InRow(r, w, c, x, i)
  BY <1>3 DEF InRow, e
<1>5. RowEnd(r, w, c, i) = RowEnd(r, w, o, i) + Len(b)
  BY <1>1, <1>2, <1>3 DEF RowEnd, e
<1> QED BY <1>3, <1>4, <1>5 DEF c

LEMMA RowDrop ==
  ASSUME NEW x \in Stream, NEW i \in Nat, NEW r \in Stream, NEW w \in Stream, NEW o \in Stream,
         InRow(r, w, o, x, i)
  PROVE  InRow(r, w, <<>>, x, i) /\ RowEnd(r, w, <<>>, i) <= RowEnd(r, w, o, i)
<1>1. Len(r) \in Nat /\ Len(w) \in Nat /\ Len(o) \in Nat /\ Len(x) \in Nat /\ Len(<<>>) = 0
  BY DEF Stream
<1>2. i + Len(r) + Len(w) \in Nat /\ i + Len(r) + Len(w) <= Len(x)
  BY <1>1 DEF InRow, Piece
<1>3. Piece(<<>>, x, i + Len(r) + Len(w))
  BY <1>2, PieceEmpty
<1> QED BY <1>1, <1>3 DEF InRow, RowEnd

LEMMA RowCut ==
  ASSUME NEW x \in Stream, NEW i \in Nat, NEW r \in Stream, NEW w \in Stream, NEW o \in Stream,
         InRow(r, w, o, x, i), NEW n \in 0..Len(r)
  PROVE  /\ mbuf_remove(r, n) \in Stream /\ Len(mbuf_remove(r, n)) = Len(r) - n
         /\ InRow(mbuf_remove(r, n), w, o, x, i + n)
         /\ RowEnd(mbuf_remove(r, n), w, o, i + n) = RowEnd(r, w, o, i)
<1> DEFINE g == SubSeq(r, n + 1, Len(r))
<1>1. Len(r) \in Nat /\ Len(w) \in Nat /\ Len(o) \in Nat
  BY DEF Stream
<1>2. mbuf_remove(r, n) = g
  BY <1>1 DEF mbuf_remove
<1>3. g \in Stream /\ Len(g) = Len(r) - n /\ Piece(g, x, i + n)
  BY PieceCut DEF InRow
<1> HIDE DEF g
<1>4. (i + n) + Len(g) = i + Len(r)
  BY <1>1, <1>3
<1>5. InRow(g, w, o, x, i + n)
  BY <1>3, <1>4 DEF InRow
<1>6. RowEnd(g, w, o, i + n) = RowEnd(r, w, o, i)
  BY <1>1, <1>4 DEF RowEnd
<1> QED BY <1>2, <1>3, <1>5, <1>6

LEMMA RowEmpty ==
  ASSUME NEW x \in Stream, NEW i \in Nat, NEW r \in Stream, NEW w \in Stream, NEW o \in Stream,
         InRow(r, w, o, x, i)
  PROVE  /\ InRow(<<>>, w, o, x, i + Len(r))
         /\ RowEnd(<<>>, w, o, i + Len(r)) = RowEnd(r, w, o, i)
<1>1. Len(r) \in Nat /\ Len(w) \in Nat /\ Len(o) \in Nat /\ Len(x) \in Nat /\ Len(<<>>) = 0
  BY DEF Stream
<1>2. i + Len(r) \in Nat /\ i + Len(r) <= Len(x)
  BY <1>1 DEF InRow, Piece
<1>3. Piece(<<>>, x, i + Len(r))
  BY <1>2, PieceEmpty
<1>4. (i + Len(r)) + Len(<<>>) = i + Len(r)
  BY <1>1
<1> QED BY <1>1, <1>3, <1>4 DEF InRow, RowEnd

(* The streams.                                                            *)
LEMMA AskedIs ==
  ASSUME greeting \in Greetings, request \in Requests
  PROVE  /\ greeting \in Stream /\ request \in Stream /\ AppText \in Stream /\ TargetText \in Stream
         /\ Asked \in Stream /\ Payload \in Nat /\ Payload = Len(greeting) + Len(request)
         /\ Len(Asked) = Payload + Len(AppText)
         /\ \A j \in 1..Len(greeting) : Asked[j] = greeting[j]
         /\ \A j \in 1..Len(request) : Asked[Len(greeting) + j] = request[j]
         /\ \A j \in 1..Len(AppText) : Asked[Payload + j] = AppText[j]
         /\ Len(request) \in Nat /\ Len(greeting) \in Nat /\ Len(AppText) \in Nat /\ Len(TargetText) \in Nat
         /\ Len(request) = AddressOf(request) + 6 /\ Len(request) >= 8
<1>1. /\ greeting \in Stream /\ request \in Stream /\ AppText \in Stream /\ TargetText \in Stream
      /\ DomainLen \in Nat \ {0} /\ Len(request) = AddressOf(request) + 6
  BY TunnelAssumption DEF Stream
<1>2. Len(greeting) \in Nat /\ Len(request) \in Nat /\ Len(AppText) \in Nat /\ Len(TargetText) \in Nat
  BY <1>1 DEF Stream
<1> DEFINE c == greeting \o request
<1>3. c \in Seq(Bytes) /\ Len(c) = Len(greeting) + Len(request)
      /\ \A j \in 1..(Len(greeting) + Len(request)) :
           c[j] = IF j <= Len(greeting) THEN greeting[j] ELSE request[j - Len(greeting)]
  BY <1>1, ConcatProperties DEF Stream
<1> HIDE DEF c
<1>4. c \o AppText \in Seq(Bytes) /\ Len(c \o AppText) = Len(c) + Len(AppText)
      /\ \A j \in 1..(Len(c) + Len(AppText)) :
           (c \o AppText)[j] = IF j <= Len(c) THEN c[j] ELSE AppText[j - Len(c)]
  BY <1>1, <1>3, ConcatProperties, SMTT(30) DEF Stream
<1>5. Asked = c \o AppText
  BY DEF Asked, c
<1> DEFINE G == Len(greeting)
           R == Len(request)
           A == Len(AppText)
<1>6. G \in Nat /\ R \in Nat /\ A \in Nat /\ Len(c) = G + R /\ Payload = G + R
  BY <1>2, <1>3 DEF Payload
<1> HIDE DEF G, R, A
<1>7. ASSUME NEW j \in 1..G PROVE Asked[j] = greeting[j]
  BY <1>3, <1>4, <1>5, <1>6 DEF G, R, A
<1>8. ASSUME NEW j \in 1..R PROVE Asked[G + j] = request[j]
  <2>1. G + j \in 1..(G + R) /\ ~ (G + j <= G) /\ (G + j) - G = j
    BY <1>6
  <2>2. c[G + j] = request[j]
    BY <1>3, <2>1 DEF G, R
  <2>3. G + j \in 1..(Len(c) + A) /\ G + j <= Len(c)
    BY <1>6, <2>1
  <2> QED BY <1>4, <1>5, <2>2, <2>3 DEF A
<1>9. ASSUME NEW j \in 1..A PROVE Asked[Payload + j] = AppText[j]
  <2>1. Payload + j \in 1..(Len(c) + A) /\ ~ (Payload + j <= Len(c)) /\ (Payload + j) - Len(c) = j
    BY <1>6
  <2> QED BY <1>4, <1>5, <2>1 DEF A
<1>10. AddressOf(request) \in Nat /\ AddressOf(request) >= 2
  BY <1>1 DEF AddressOf, AddrLen
<1>11. Len(request) >= 8
  <2> HIDE DEF AddressOf
  <2> QED BY <1>1, <1>10
<1>12. Len(Asked) = Payload + A /\ Asked \in Stream
  BY <1>4, <1>5, <1>6 DEF A, Stream
<1> QED BY <1>1, <1>2, <1>6, <1>7, <1>8, <1>9, <1>11, <1>12 DEF G, R, A

LEMMA AskedPieces ==
  ASSUME greeting \in Greetings, request \in Requests
  PROVE  /\ Piece(greeting, Asked, 0) /\ Piece(request, Asked, Len(greeting))
         /\ \A n \in 0..Len(AppText) :
              SubSeq(AppText, 1, n) \in Stream /\ Len(SubSeq(AppText, 1, n)) = n
              /\ Piece(SubSeq(AppText, 1, n), Asked, Payload)
         /\ \A n \in 1..Len(AppText) :
              <<AppText[n]>> \in Stream /\ Piece(<<AppText[n]>>, Asked, Payload + (n - 1))
              /\ Len(<<AppText[n]>>) = 1
              /\ SubSeq(AppText, 1, n - 1) \o <<AppText[n]>> = SubSeq(AppText, 1, n)
<1>0. /\ AppText \in Seq(Bytes) /\ Len(AppText) \in Nat /\ Payload \in Nat
      /\ Len(Asked) = Payload + Len(AppText) /\ Asked \in Stream
      /\ \A j \in 1..Len(AppText) : Asked[Payload + j] = AppText[j]
  BY AskedIs DEF Stream
<1>1. Piece(greeting, Asked, 0) /\ Piece(request, Asked, Len(greeting)) /\ Piece(AppText, Asked, Payload)
  BY AskedIs DEF Piece
<1>2. ASSUME NEW n \in 0..Len(AppText)
      PROVE  SubSeq(AppText, 1, n) \in Stream /\ Len(SubSeq(AppText, 1, n)) = n
             /\ Piece(SubSeq(AppText, 1, n), Asked, Payload)
  BY <1>0, <1>1, PieceCut DEF Stream
<1>3. ASSUME NEW n \in 1..Len(AppText)
      PROVE  <<AppText[n]>> \in Stream /\ Piece(<<AppText[n]>>, Asked, Payload + (n - 1))
             /\ Len(<<AppText[n]>>) = 1
             /\ SubSeq(AppText, 1, n - 1) \o <<AppText[n]>> = SubSeq(AppText, 1, n)
  <2> DEFINE b == <<AppText[n]>>
  <2>1. AppText[n] \in Bytes /\ Len(AppText) \in Nat
    BY <1>0
  <2>2. b \in Stream /\ Len(b) = 1 /\ b[1] = AppText[n]
    BY <2>1 DEF Stream
  <2> HIDE DEF b
  <2>3. Payload + (n - 1) + Len(b) <= Len(Asked) /\ b[1] = Asked[(Payload + (n - 1)) + 1]
    <3>1. Payload + (n - 1) + Len(b) <= Len(Asked)
      BY <1>0, <2>1, <2>2
    <3>2. (Payload + (n - 1)) + 1 = Payload + n
      BY <1>0, <2>1
    <3> QED BY <1>0, <2>1, <2>2, <3>1, <3>2
  <2>4. Piece(b, Asked, Payload + (n - 1))
    BY <2>2, <2>3 DEF Piece
  <2>5. SubSeq(AppText, 1, n - 1) \o <<AppText[n]>> = SubSeq(AppText, 1, n)
    <3> DEFINE s == SubSeq(AppText, 1, n - 1)
               t == SubSeq(AppText, 1, n)
               u == s \o b
    <3>1. n - 1 \in 0..Len(AppText) /\ n \in 0..Len(AppText)
      BY <2>1
    <3>2. s \in Stream /\ Len(s) = n - 1 /\ Piece(s, Asked, Payload)
      BY <1>2, <3>1
    <3>3. t \in Stream /\ Len(t) = n /\ Piece(t, Asked, Payload)
      BY <1>2, <3>1
    <3> HIDE DEF s, t
    <3>4. u \in Stream /\ Piece(u, Asked, Payload) /\ Len(u) = n
      <4>1. Piece(b, Asked, Payload + Len(s))
        BY <2>4, <3>2
      <4>2. u \in Stream /\ Piece(u, Asked, Payload) /\ Len(u) = Len(s) + Len(b)
        <5>1. Asked \in Stream /\ Payload \in Nat /\ s \in Stream /\ b \in Stream
              /\ Piece(s, Asked, Payload)
          BY <1>0, <2>2, <3>2
        <5> QED BY <4>1, <5>1, PieceJoin
      <4> QED BY <2>1, <2>2, <3>2, <4>2
    <3> HIDE DEF u
    <3>5. u = t
      <4>1. \A j \in 1..Len(u) : u[j] = t[j]
        BY <3>3, <3>4 DEF Piece
      <4> QED BY <3>3, <3>4, <4>1, SeqEqual DEF Stream
    <3> QED BY <3>5 DEF u, s, t, b
  <2> QED BY <2>2, <2>4, <2>5 DEF b
<1> QED BY <1>1, <1>2, <1>3

(* What the server tells.                                                  *)
LEMMA ToldIs ==
  ASSUME greeting \in Greetings, request \in Requests, NEW m \in 0..Len(request)
  PROVE  /\ Told(m) \in Stream /\ ToldHead \in Nat /\ ToldHead = 2 + Len(request)
         /\ Len(Told(m)) = ToldHead + Len(TargetText)
         /\ Answer(m) \in Stream /\ Len(Answer(m)) = Len(request)
         /\ <<"v5", Reply>> \in Stream /\ Len(<<"v5", Reply>>) = 2
         /\ Piece(<<"v5", Reply>>, Told(m), 0) /\ Piece(Answer(m), Told(m), 2)
         /\ Told(m)[2] = Reply /\ Told(m)[4] = IF Refused THEN NotSupported ELSE Success
         /\ \A n \in 1..Len(TargetText) :
              <<TargetText[n]>> \in Stream /\ Piece(<<TargetText[n]>>, Told(m), ToldHead + (n - 1))
              /\ Len(<<TargetText[n]>>) = 1
         /\ \A j \in 1..Len(TargetText) : Told(m)[ToldHead + j] = TargetText[j]
<1>0. /\ request \in Seq(Bytes) /\ TargetText \in Seq(Bytes) /\ Len(TargetText) \in Nat
      /\ Len(request) \in Nat /\ Len(request) >= 8
  BY AskedIs DEF Stream
<1> DEFINE R == Len(request)
           h == <<"v5", IF Refused THEN NotSupported ELSE Success, "rsv">>
           d == [i \in 1..R - 3 |-> IF i + 3 <= m THEN request[i + 3] ELSE "stale"]
           a == h \o d
           g == <<"v5", Reply>>
           c == g \o a
<1>1. "v5" \in Bytes /\ "rsv" \in Bytes /\ "stale" \in Bytes /\ NoAuth \in Bytes /\ Failure \in Bytes
      /\ Success \in Bytes /\ NotSupported \in Bytes
  BY TunnelAssumption
<1>2. R \in Nat /\ R >= 8
  BY <1>0
<1>3. h \in Seq(Bytes) /\ Len(h) = 3 /\ h[2] = IF Refused THEN NotSupported ELSE Success
  BY <1>1
<1>4. d \in Seq(Bytes) /\ Len(d) = R - 3
  <2>1. ASSUME NEW i \in 1..R - 3 PROVE (IF i + 3 <= m THEN request[i + 3] ELSE "stale") \in Bytes
    BY <1>0, <1>1, <1>2
  <2>2. d \in [1..R - 3 -> Bytes] /\ R - 3 \in Nat
    BY <1>2, <2>1
  <2> HIDE DEF d
  <2>3. d \in Seq(Bytes)
    BY <2>2, SeqDef
  <2> QED BY <2>2, <2>3
<1>5. g \in Seq(Bytes) /\ Len(g) = 2 /\ g[1] = "v5" /\ g[2] = Reply
  BY <1>1 DEF Reply
<1>6. Answer(m) = a
  BY DEF Answer
<1> HIDE DEF h, d, g, R
<1>7. a \in Seq(Bytes) /\ Len(a) = R /\ a[2] = h[2]
  <2>1. a \in Seq(Bytes) /\ Len(a) = Len(h) + Len(d)
        /\ \A j \in 1..(Len(h) + Len(d)) : a[j] = IF j <= Len(h) THEN h[j] ELSE d[j - Len(h)]
    BY <1>3, <1>4, ConcatProperties
  <2> HIDE DEF a
  <2> QED BY <1>2, <1>3, <1>4, <2>1
<1> HIDE DEF a
<1>8. c \in Seq(Bytes) /\ Len(c) = 2 + R
      /\ \A j \in 1..(2 + R) : c[j] = IF j <= 2 THEN g[j] ELSE a[j - 2]
  <2>1. c \in Seq(Bytes) /\ Len(c) = Len(g) + Len(a)
        /\ \A j \in 1..(Len(g) + Len(a)) : c[j] = IF j <= Len(g) THEN g[j] ELSE a[j - Len(g)]
    BY <1>5, <1>7, ConcatProperties
  <2> HIDE DEF c
  <2> QED BY <1>2, <1>5, <1>7, <2>1
<1> HIDE DEF c
<1>9. Told(m) = c \o TargetText
  BY <1>6 DEF Told, c, g
<1> DEFINE t == c \o TargetText
<1>10. t \in Seq(Bytes) /\ Len(t) = Len(c) + Len(TargetText)
      /\ \A j \in 1..(Len(c) + Len(TargetText)) : t[j] = IF j <= Len(c) THEN c[j] ELSE TargetText[j - Len(c)]
  BY <1>0, <1>8, ConcatProperties
<1> HIDE DEF t
<1>11. ToldHead = 2 + R /\ Len(c) = ToldHead /\ Len(TargetText) \in Nat
  BY <1>0, <1>8 DEF ToldHead, R
<1>12. ASSUME NEW j \in 1..2 PROVE t[j] = g[j]
  BY <1>2, <1>8, <1>10, <1>11
<1>13. ASSUME NEW j \in 1..R PROVE t[2 + j] = a[j]
  <2>1. 2 + j \in 1..(2 + R) /\ ~ (2 + j <= 2) /\ (2 + j) - 2 = j
    BY <1>2
  <2>2. 2 + j \in 1..(Len(c) + Len(TargetText)) /\ 2 + j <= Len(c)
    BY <1>2, <1>11, <2>1
  <2> QED BY <1>8, <1>10, <2>1, <2>2
<1>14. ASSUME NEW j \in 1..Len(TargetText) PROVE t[ToldHead + j] = TargetText[j]
  <2>1. ToldHead + j \in 1..(Len(c) + Len(TargetText)) /\ ~ (ToldHead + j <= Len(c)) /\ (ToldHead + j) - Len(c) = j
    BY <1>2, <1>11
  <2> QED BY <1>10, <2>1
<1>15. Piece(g, t, 0) /\ Piece(a, t, 2)
  BY <1>2, <1>5, <1>7, <1>10, <1>11, <1>12, <1>13 DEF Piece
<1>16. t[2] = Reply /\ t[4] = h[2]
  <2>1. t[2 + 2] = a[2]
    BY <1>2, <1>13, 2 \in 1..R
  <2> QED BY <1>5, <1>7, <1>12, <2>1
<1>17. ASSUME NEW n \in 1..Len(TargetText)
      PROVE <<TargetText[n]>> \in Stream /\ Piece(<<TargetText[n]>>, t, ToldHead + (n - 1))
            /\ Len(<<TargetText[n]>>) = 1
  <2> DEFINE b == <<TargetText[n]>>
  <2>1. TargetText[n] \in Bytes
    BY <1>0
  <2>2. b \in Stream /\ Len(b) = 1 /\ b[1] = TargetText[n]
    BY <2>1 DEF Stream
  <2> HIDE DEF b
  <2>3. (ToldHead + (n - 1)) + 1 = ToldHead + n
    BY <1>2, <1>11
  <2>4. ToldHead + (n - 1) + Len(b) <= Len(t)
    BY <1>2, <1>10, <1>11, <2>2
  <2>5. Piece(b, t, ToldHead + (n - 1))
    BY <1>14, <2>2, <2>3, <2>4 DEF Piece
  <2> QED BY <2>2, <2>5 DEF b
<1>18. Told(m) = t
  BY <1>9 DEF t
<1> QED BY <1>2, <1>3, <1>5, <1>6, <1>7, <1>10, <1>11, <1>14, <1>15, <1>16, <1>17, <1>18 DEF Stream, R, g

LEMMA RowNone ==
  ASSUME NEW x \in Stream, NEW i \in Nat, i <= Len(x)
  PROVE  /\ InRow(<<>>, <<>>, <<>>, x, i) /\ RowEnd(<<>>, <<>>, <<>>, i) = i
         /\ Piece(<<>>, x, i) /\ <<>> \in Stream
<1>1. <<>> \in Stream /\ Len(<<>>) = 0
  BY DEF Stream
<1>2. Piece(<<>>, x, i) /\ i + 0 = i
  BY PieceEmpty
<1> QED BY <1>1, <1>2 DEF InRow, RowEnd

-----------------------------------------------------------------------------
(* How the tunnel begins, and what each action keeps.                      *)
LEMMA LenNat == \A x \in Stream : Len(x) \in Nat
  BY DEF Stream

LEMMA RowEndIs == \A r, w, o \in Stream, i \in Nat : RowEnd(r, w, o, i) \in Nat
  BY LenNat DEF RowEnd

(* The parts of the rows, and where these are.                             *)
LEMMA Rows ==
  ASSUME TypeOK
  PROVE  /\ con["s"].recv \in Stream /\ con["p"].recv \in Stream /\ con["t"].recv \in Stream
         /\ con["s"].out \in Stream /\ con["p"].out \in Stream /\ con["t"].out \in Stream
         /\ wire["s"] \in Stream /\ wire["p"] \in Stream /\ wire["t"] \in Stream
         /\ wire["target"] \in Stream
         /\ app.recv \in Stream /\ target.recv \in Stream /\ data.tmp \in Stream
         /\ app.wrote \in 0..Len(AppText) /\ target.wrote \in 0..Len(TargetText)
  BY DEF TypeOK, Connection, Conns

LEMMA Sizes ==
  ASSUME TypeOK
  PROVE  /\ Passed \in Nat /\ Taken \in Nat /\ Written \in Nat /\ AskedEnd \in Nat
         /\ Read \in Nat /\ ToldEnd \in Nat /\ ToldHead \in Nat /\ Payload \in Nat
         /\ app.wrote \in Nat /\ target.wrote \in Nat
<1>1. Payload \in Nat /\ ToldHead \in Nat /\ Len(greeting) \in Nat /\ Len(request) \in Nat
      /\ Len(AppText) \in Nat /\ Len(TargetText) \in Nat
  BY AskedIs DEF ToldHead, TypeOK
<1>2. app.wrote \in Nat /\ target.wrote \in Nat
  BY <1>1, Rows
<1>3. \A r, w, o \in Stream, i \in Nat : RowEnd(r, w, o, i) \in Nat
  BY RowEndIs
<1>4. Passed \in Nat
  BY <1>1, <1>3, Rows DEF Passed
<1>5. Taken \in Nat /\ Written \in Nat /\ Read \in Nat
  <2>1. Len(app.recv) \in Nat
    BY Rows DEF Stream
  <2> QED BY <1>1, <1>2, <1>4, <2>1 DEF Taken, Written, Read
<1>6. AskedEnd \in Nat /\ ToldEnd \in Nat
  BY <1>3, <1>5, Rows DEF AskedEnd, ToldEnd
<1> QED BY <1>1, <1>2, <1>4, <1>5, <1>6

LEMMA InitInv == Init => TunnelInv
<1> SUFFICES ASSUME Init PROVE TunnelInv
  OBVIOUS
<1>0. greeting \in Greetings /\ request \in Requests
  BY DEF Init
<1>1. /\ AppText \in Stream /\ Asked \in Stream /\ Payload \in Nat /\ Payload <= Len(Asked)
      /\ 0 \in 0..Len(AppText) /\ 0 \in 0..Len(TargetText) /\ 0 \in 0..Len(request) /\ Payload + 0 = Payload
  BY <1>0, AskedIs
<1>2. /\ Told(0) \in Stream /\ ToldHead \in Nat /\ ToldHead <= Len(Told(0)) /\ Len(Told(0)) \in Nat
      /\ ToldHead + 0 = ToldHead
  BY <1>0, <1>1, ToldIs DEF Stream
<1>3. <<>> \in Stream /\ Len(<<>>) = 0
  BY DEF Stream
<1>4. TypeOK
  <2>1. NewConn("connecting") \in Connection /\ NewConn("none") \in Connection
    BY <1>3 DEF NewConn, Connection
  <2> DEFINE c == [s |-> NewConn("connecting"), p |-> NewConn("none"), t |-> NewConn("none")]
  <2>2. c = [k \in Conns |-> c[k]]
    BY DEF Conns
  <2>3. \A k \in Conns : c[k] \in Connection
    BY <2>1 DEF Conns
  <2> HIDE DEF c
  <2>4. c \in [Conns -> Connection]
    BY <2>2, <2>3
  <2>5. con \in [Conns -> Connection]
    BY <2>4 DEF Init, c
  <2> QED BY <1>0, <1>1, <1>3, <2>5 DEF Init, TypeOK, Conns
<1>5. NotBegun /\ LinksAlive /\ ~ con["p"].user /\ ~ con["p"].connect /\ ~ con["p"].handshake
  BY DEF Init, NotBegun, LinksAlive, NewConn, Conns
<1>6. ToTarget
  <2>1. InRow(<<>>, <<>>, <<>>, Asked, Payload) /\ RowEnd(<<>>, <<>>, <<>>, Payload) = Payload
    BY <1>1, RowNone
  <2>2. InRow(<<>>, <<>>, <<>>, Asked, 0) /\ RowEnd(<<>>, <<>>, <<>>, 0) = 0
    BY <1>1, RowNone
  <2>3. <<>> = SubSeq(AppText, 1, 0)
    BY <1>1 DEF Stream
  <2>4. con["s"].state = "connecting" /\ Taken = 0 /\ Written = 0
    BY DEF Init, Taken, Written, NewConn, Conns
  <2> QED BY <1>1, <2>1, <2>2, <2>3, <2>4 DEF Init, ToTarget, Passed, AskedEnd, NewConn, Conns
<1>7. ToApp(0)
  <2>1. Piece(<<>>, Told(0), ToldHead)
    BY <1>2, RowNone
  <2>2. InRow(<<>>, <<>>, <<>>, Told(0), 0) /\ RowEnd(<<>>, <<>>, <<>>, 0) = 0
    BY <1>2, RowNone
  <2>3. Read = 0 /\ ToldEnd = 0
    BY <2>2 DEF Init, Read, ToldEnd, NewConn, Conns
  <2> QED BY <1>2, <1>3, <2>1, <2>2, <2>3 DEF Init, ToApp, NewConn, Conns
<1> QED BY <1>1, <1>4, <1>5, <1>6, <1>7 DEF TunnelInv

LEMMA ClientConnectFailsInv == TunnelInv /\ ClientConnectFails => TunnelInv'
<1> SUFFICES ASSUME TunnelInv, ClientConnectFails PROVE TunnelInv'
  OBVIOUS
<1>1. PICK m \in 0..Len(request) : ToApp(m)
  BY DEF TunnelInv
<1>2. TypeOK'
  BY ZenonT(40) DEF TunnelInv, TypeOK, Connection, ClientConnectFails, Conns
<1> USE DEF ClientConnectFails
<1>3. NotBegun'
  BY DEF TunnelInv, TypeOK, Connection, Conns, NotBegun
<1>4. LinksAlive' /\ (con["p"].user => con["p"].connect)'
  BY DEF TunnelInv, TypeOK, Connection, Conns, LinksAlive
<1>5. ToTarget'
  BY DEF TunnelInv, TypeOK, Connection, Conns, ToTarget, Taken, Written, AskedEnd, Passed, Asked, Payload
<1>6. ToApp(m)'
  BY <1>1 DEF TunnelInv, TypeOK, Connection, Conns, ToApp, Read, ToldEnd, Told, ToldHead, Answer, Reply, Refused
<1> QED BY <1>2, <1>3, <1>4, <1>5, <1>6 DEF TunnelInv

LEMMA TargetConnectsInv == TunnelInv /\ TargetConnects => TunnelInv'
<1> SUFFICES ASSUME TunnelInv, TargetConnects PROVE TunnelInv'
  OBVIOUS
<1>1. PICK m \in 0..Len(request) : ToApp(m)
  BY DEF TunnelInv
<1> USE DEF TargetConnects
<1>2. TypeOK'
  BY DEF TunnelInv, TypeOK, Connection, Conns
<1>3. NotBegun'
  BY DEF TunnelInv, TypeOK, Connection, Conns, NotBegun, NewConn
<1>4. LinksAlive' /\ (con["p"].user => con["p"].connect)'
  BY DEF TunnelInv, TypeOK, Connection, Conns, LinksAlive
<1>5. ToTarget'
  BY DEF TunnelInv, TypeOK, Connection, Conns, ToTarget, Taken, Written, AskedEnd, Passed, Asked, Payload
<1>6. ToApp(m)'
  BY <1>1 DEF TunnelInv, TypeOK, Connection, Conns, ToApp, Read, ToldEnd, Told, ToldHead, Answer, Reply, Refused
<1> QED BY <1>2, <1>3, <1>4, <1>5, <1>6 DEF TunnelInv

LEMMA TargetConnectFailsInv == TunnelInv /\ TargetConnectFails => TunnelInv'
<1> SUFFICES ASSUME TunnelInv, TargetConnectFails PROVE TunnelInv'
  OBVIOUS
<1>1. PICK m \in 0..Len(request) : ToApp(m)
  BY DEF TunnelInv
<1> USE DEF TargetConnectFails
<1>2. TypeOK'
  BY DEF TunnelInv, TypeOK, Connection, Conns
<1>3. NotBegun'
  BY DEF TunnelInv, TypeOK, Connection, Conns, NotBegun, NewConn
<1>4. LinksAlive' /\ (con["p"].user => con["p"].connect)'
  BY DEF TunnelInv, TypeOK, Connection, Conns, LinksAlive
<1>5. ToTarget'
  BY DEF TunnelInv, TypeOK, Connection, Conns, ToTarget, Taken, Written, AskedEnd, Passed, Asked, Payload
<1>6. ToApp(m)'
  BY <1>1 DEF TunnelInv, TypeOK, Connection, Conns, ToApp, Read, ToldEnd, Told, ToldHead, Answer, Reply, Refused
<1> QED BY <1>2, <1>3, <1>4, <1>5, <1>6 DEF TunnelInv

LEMMA TargetClosesInv == TunnelInv /\ TargetCloses => TunnelInv'
<1> SUFFICES ASSUME TunnelInv, TargetCloses PROVE TunnelInv'
  OBVIOUS
<1>1. PICK m \in 0..Len(request) : ToApp(m)
  BY DEF TunnelInv
<1> USE DEF TargetCloses
<1>2. TypeOK'
  BY DEF TunnelInv, TypeOK, Connection, Conns
<1>3. NotBegun'
  BY DEF TunnelInv, TypeOK, Connection, Conns, NotBegun, NewConn
<1>4. LinksAlive' /\ (con["p"].user => con["p"].connect)'
  BY DEF TunnelInv, TypeOK, Connection, Conns, LinksAlive
<1>5. ToTarget'
  BY DEF TunnelInv, TypeOK, Connection, Conns, ToTarget, Taken, Written, AskedEnd, Passed, Asked, Payload
<1>6. ToApp(m)'
  BY <1>1 DEF TunnelInv, TypeOK, Connection, Conns, ToApp, Read, ToldEnd, Told, ToldHead, Answer, Reply, Refused
<1> QED BY <1>2, <1>3, <1>4, <1>5, <1>6 DEF TunnelInv

LEMMA ClientConnectsInv == TunnelInv /\ ClientConnects => TunnelInv'
<1> SUFFICES ASSUME TunnelInv, ClientConnects PROVE TunnelInv'
  OBVIOUS
<1>1. PICK m \in 0..Len(request) : ToApp(m)
  BY DEF TunnelInv
<1>2. /\ greeting \in Greetings /\ request \in Requests /\ greeting \in Stream /\ Asked \in Stream
      /\ Len(greeting) \in Nat /\ 0 <= Len(Asked) /\ 0 \in Nat
      /\ Told(m) \in Stream /\ 0 <= Len(Told(m)) /\ Piece(greeting, Asked, 0)
  BY AskedIs, AskedPieces, ToldIs, SMTT(30) DEF TunnelInv, TypeOK
<1> DEFINE s == [con["s"] EXCEPT !.state = "open", !.out = greeting]
<1>3. /\ con' = [con EXCEPT !["s"] = s, !["p"] = NewConn("open")] /\ wild' = data.freed
      /\ UNCHANGED <<greeting, request, wire, app, data, target>>
      /\ con["s"].state = "connecting"
  BY DEF ClientConnects, TunnelInv, TypeOK, Conns
<1>4. <<>> \in Stream /\ Len(<<>>) = 0
  BY DEF Stream
<1>5. TypeOK'
  <2>1. s \in Connection /\ NewConn("open") \in Connection
    BY <1>2, <1>4 DEF TunnelInv, TypeOK, Connection, Conns, NewConn
  <2> HIDE DEF s
  <2>2. con' \in [Conns -> Connection]
    BY <1>3, <2>1 DEF TunnelInv, TypeOK
  <2> QED BY <1>3, <2>2 DEF TunnelInv, TypeOK
<1>6. /\ con'["s"] = s /\ con'["p"] = NewConn("open") /\ con'["t"] = con["t"]
      /\ s.state = "open" /\ s.recv = <<>> /\ s.out = greeting /\ ~ s.handshake /\ ~ s.connect
      /\ ~ con["s"].connect
      /\ wire["s"] = <<>> /\ wire["p"] = <<>> /\ con["p"] = NewConn("none") /\ con["t"] = NewConn("none")
  BY <1>3 DEF TunnelInv, TypeOK, Connection, Conns, NotBegun, NewConn
<1>11. con'["p"].recv = <<>> /\ con'["p"].out = <<>> /\ ~ con'["p"].handshake /\ ~ con'["p"].connect
  BY <1>6 DEF NewConn
<1> HIDE DEF s
<1>7. NotBegun'
  BY <1>3, <1>6, <1>11 DEF TunnelInv, NotBegun, NewConn
<1>8. LinksAlive' /\ (con["p"].user => con["p"].connect)'
  BY <1>6 DEF LinksAlive, NewConn
<1>9. ToTarget'
  <2>1. InRow(<<>>, <<>>, <<>>, Asked, 0) /\ RowEnd(<<>>, <<>>, <<>>, 0) = 0
    BY <1>2, RowNone
  <2>2. <<>> \o greeting = greeting
    BY <1>2 DEF Stream
  <2>3. InRow(<<>>, <<>>, greeting, Asked, 0) /\ RowEnd(<<>>, <<>>, greeting, 0) = Len(greeting)
    <3>1. /\ InRow(<<>>, <<>>, <<>> \o greeting, Asked, 0)
          /\ RowEnd(<<>>, <<>>, <<>> \o greeting, 0) = 0 + Len(greeting)
      <4>1. Piece(greeting, Asked, RowEnd(<<>>, <<>>, <<>>, 0))
        BY <1>2, <2>1
      <4> DEFINE e == <<>>
      <4>2. e \in Stream /\ InRow(e, e, e, Asked, 0) /\ Piece(greeting, Asked, RowEnd(e, e, e, 0))
            /\ RowEnd(e, e, e, 0) = 0
        BY <1>4, <2>1, <4>1
      <4> HIDE DEF e
      <4>3. InRow(e, e, e \o greeting, Asked, 0) /\ RowEnd(e, e, e \o greeting, 0) = 0 + Len(greeting)
        BY <1>2, <4>2, RowWrite
      <4> QED BY <4>3 DEF e
    <3> QED BY <1>2, <2>2, <3>1
  <2>4. Taken' = 0 /\ Written' = Len(greeting) /\ Asked' = Asked /\ Payload' = Payload /\ Passed' = Passed
    BY <1>3, <1>6, <1>11 DEF Taken, Written, Asked, Payload, Passed
  <2>5. AskedEnd' = Len(greeting)
    BY <1>3, <1>6, <1>11, <2>3, <2>4 DEF AskedEnd
  <2>6. Len(greeting) <= Len(greeting)
    BY <1>2
  <2> QED BY <1>3, <1>6, <1>11, <2>3, <2>4, <2>5, <2>6 DEF ToTarget, TunnelInv
<1>10. ToApp(m)'
  <2>1. InRow(<<>>, <<>>, <<>>, Told(m), 0) /\ RowEnd(<<>>, <<>>, <<>>, 0) = 0
    BY <1>2, RowNone
  <2>2. Told(m)' = Told(m) /\ ToldHead' = ToldHead /\ Read' = 0
    BY <1>3, <1>6 DEF Told, ToldHead, Answer, Reply, Refused, Read
  <2>3. ToldEnd' = 0
    BY <1>3, <1>6, <1>11, <2>1, <2>2 DEF ToldEnd
  <2>4. ToldHead \in Nat /\ target.wrote \in Nat
    BY <1>2, ToldIs DEF TunnelInv, TypeOK
  <2> QED BY <1>1, <1>3, <1>6, <1>11, <2>1, <2>2, <2>3, <2>4 DEF ToApp, NewConn
<1> QED BY <1>3, <1>5, <1>7, <1>8, <1>9, <1>10 DEF TunnelInv

LEMMA AppSendsInv == TunnelInv /\ AppSends => TunnelInv'
<1> SUFFICES ASSUME TunnelInv, AppSends PROVE TunnelInv'
  OBVIOUS
<1>1. PICK m \in 0..Len(request) : ToApp(m)
  BY DEF TunnelInv
<1> DEFINE n == app.wrote + 1
           b == <<AppText[n]>>
<1>2. /\ n \in 1..Len(AppText) /\ app' = [app EXCEPT !.wrote = n] /\ n - 1 = app.wrote /\ app.wrote \in Nat
      /\ UNCHANGED <<greeting, request, wire, target, wild>>
      /\ app'.recv = app.recv /\ app'.wrote = n
  BY AskedIs, SMTT(30) DEF AppSends, TunnelInv, TypeOK
<1>3. /\ greeting \in Greetings /\ request \in Requests /\ Asked \in Stream /\ Payload \in Nat
      /\ b \in Stream /\ Len(b) = 1 /\ Piece(b, Asked, Payload + app.wrote)
      /\ SubSeq(AppText, 1, app.wrote) \o b = SubSeq(AppText, 1, n)
  BY <1>2, AskedIs, AskedPieces DEF TunnelInv, TypeOK
<1>4. ToApp(m)'
  <2>1. /\ con'["p"] = con["p"] /\ con'["t"] = con["t"] /\ con'["s"].recv = con["s"].recv
        /\ con'["s"].handshake = con["s"].handshake /\ con'["s"].connect = con["s"].connect
    BY SMTT(30) DEF AppSends, TunnelInv, TypeOK, Conns, Connection
  <2> HIDE DEF b, n
  <2> QED BY <1>1, <1>2, <2>1, ZenonT(40) DEF ToApp, Read, ToldEnd, Told, ToldHead, Answer, Reply, Refused
<1>8. /\ Passed \in Nat /\ Payload \in Nat /\ Taken \in Nat /\ AskedEnd \in Nat /\ Written \in Nat
      /\ con["p"].recv \in Stream /\ wire["s"] \in Stream /\ con["s"].out \in Stream
      /\ Len(greeting) \in Nat /\ Len(request) \in Nat /\ Payload = Len(greeting) + Len(request)
  BY AskedIs, Rows, Sizes DEF TunnelInv, TypeOK
<1>9. Passed <= Payload + app.wrote
  BY DEF TunnelInv, ToTarget
<1>10. Passed <= Payload + n /\ Payload + app.wrote + 1 = Payload + n /\ n \in Nat
  BY <1>2, <1>8, <1>9, SMTT(30)
<1>5. Asked' = Asked /\ Payload' = Payload
  BY <1>2 DEF Asked, Payload
<1>6. CASE data.s /\ con["s"].connect
  <2> DEFINE o == con["s"].out \o b
  <2>1. data.tmp = <<>> /\ con["s"].state = "open"
    BY <1>6 DEF TunnelInv, ToTarget, NotBegun
  <2>2. con["s"].out \in Stream /\ con["s"].out \o <<>> = con["s"].out
    BY DEF TunnelInv, TypeOK, Connection, Conns, Stream
  <2>3. o \in Stream
    BY <1>3, <2>2 DEF Stream
  <2> HIDE DEF b
  <2>4. con' = [con EXCEPT !["s"].out = o] /\ data' = [data EXCEPT !.tmp = <<>>]
    <3>1. con["s"].out \o data.tmp \o b = o
      BY <2>1, <2>2
    <3> QED BY <1>6, <3>1 DEF AppSends, b
  <2>5. data' = data
    BY <2>1, <2>4 DEF TunnelInv, TypeOK
  <2>6. /\ con'["p"] = con["p"] /\ con'["t"] = con["t"] /\ con'["s"].recv = con["s"].recv
        /\ con'["s"].handshake = con["s"].handshake /\ con'["s"].connect = con["s"].connect
        /\ con'["s"].state = "open" /\ con'["s"].out = o
    BY <2>1, <2>4 DEF TunnelInv, TypeOK, Conns, Connection
  <2>7. TypeOK'
    <3>1. con' \in [Conns -> Connection]
      BY <2>3, <2>4, ZenonT(40) DEF TunnelInv, TypeOK, Conns, Connection
    <3>2. app' \in [open : BOOLEAN, sac : BOOLEAN, wrote : 0..Len(AppText), recv : Stream]
      <4>1. n \in 0..Len(AppText)
        BY <1>2
      <4> HIDE DEF n
      <4> QED BY <1>2, <4>1 DEF TunnelInv, TypeOK
    <3> QED BY <1>2, <2>5, <3>1, <3>2 DEF TunnelInv, TypeOK
  <2> HIDE DEF o, n
  <2>8. NotBegun' /\ LinksAlive' /\ (con["p"].user => con["p"].connect)'
    BY <1>2, <2>1, <2>5, <2>6 DEF TunnelInv, NotBegun, LinksAlive
  <2>9. ToTarget'
    <3>1. Taken' = Taken /\ Written = Payload + app.wrote /\ Written' = Payload + n /\ Passed' = Passed
      BY <1>2, <1>5, <1>6, <2>1, <2>6 DEF Taken, Written, Passed, TunnelInv, NotBegun, ToTarget
    <3>2. ASSUME ~ con["p"].connect \/ con["p"].user
          PROVE  /\ InRow(con["p"].recv, wire["s"], o, Asked, Taken)
                 /\ RowEnd(con["p"].recv, wire["s"], o, Taken) = Payload + n
      <4>1. /\ InRow(con["p"].recv, wire["s"], con["s"].out, Asked, Taken)
            /\ RowEnd(con["p"].recv, wire["s"], con["s"].out, Taken) = Payload + app.wrote
        BY <1>6, <2>1, <3>1, <3>2 DEF TunnelInv, ToTarget, AskedEnd
      <4>2. /\ InRow(con["p"].recv, wire["s"], con["s"].out \o b, Asked, Taken)
            /\ RowEnd(con["p"].recv, wire["s"], con["s"].out \o b, Taken) = Payload + app.wrote + Len(b)
        <5>1. Piece(b, Asked, RowEnd(con["p"].recv, wire["s"], con["s"].out, Taken))
          BY <1>3, <4>1
        <5>2. Asked \in Stream /\ b \in Stream
          BY <1>3
        <5> QED BY <1>8, <4>1, <5>1, <5>2, RowWrite, SMTT(30)
      <4> QED BY <1>3, <1>10, <4>2 DEF o
    <3>3. AskedEnd' = RowEnd(con["p"].recv, wire["s"], o, Taken)
      BY <1>2, <2>6, <3>1 DEF AskedEnd
    <3>4. Payload + n <= Payload + n
      BY <1>8, <1>10
    <3> QED BY <1>2, <1>5, <1>6, <1>10, <2>5, <2>6, <3>1, <3>2, <3>3, <3>4 DEF ToTarget, TunnelInv
  <2> QED BY <1>2, <1>4, <2>7, <2>8, <2>9 DEF TunnelInv
<1>7. CASE ~ (data.s /\ con["s"].connect)
  <2> DEFINE o == data.tmp \o b
  <2>1. data' = [data EXCEPT !.tmp = o] /\ con' = con
    BY <1>7 DEF AppSends
  <2>2. data.tmp \in Stream /\ o \in Stream
    BY <1>3 DEF TunnelInv, TypeOK, Stream
  <2> HIDE DEF b, o
  <2>3. TypeOK'
    BY <1>2, <2>1, <2>2 DEF TunnelInv, TypeOK
  <2>4. data'.s = data.s /\ data'.c = data.c /\ data'.freed = data.freed /\ data'.tmp = o
    BY <2>1 DEF TunnelInv, TypeOK
  <2> HIDE DEF n
  <2>5. NotBegun' /\ LinksAlive' /\ (con["p"].user => con["p"].connect)'
    BY <1>2, <2>1, <2>4 DEF TunnelInv, NotBegun, LinksAlive
  <2>6. ToTarget'
    <3>1. Taken' = Taken /\ Passed' = Passed /\ AskedEnd' = AskedEnd
      BY <1>2, <1>5, <2>1 DEF Taken, Passed, AskedEnd
    <3>6. Written' >= Written /\ Written' \in Nat /\ Written \in Nat
      <4>1. Written' \in {0, Len(greeting), Payload, Payload + n} /\ Payload + n \in Nat
        BY <1>2, <1>5, <1>8, <1>10, <2>1, SMTT(30) DEF Written
      <4>2. Payload + n >= Payload + app.wrote
        BY <1>2, <1>8, SMTT(30) DEF n
      <4>3. Written' = Written \/ (Written' = Payload + n /\ Written = Payload + app.wrote)
        BY <1>2, <1>5, <2>1 DEF Written
      <4> QED BY <1>8, <4>1, <4>2, <4>3
    <3>7. con["s"].state = "open" /\ (con["s"].connect => data.s) => Written' = Written
      BY <1>5, <1>7, <2>1, <1>2 DEF Written
    <3>8. data.s => o = SubSeq(AppText, 1, n) /\ ~ con["s"].connect
      BY <1>3, <1>7 DEF TunnelInv, ToTarget, o
    <3>9. ~ con["p"].connect \/ con["p"].user => AskedEnd <= Written'
      BY <1>8, <3>6 DEF TunnelInv, ToTarget
    <3> QED BY <1>2, <1>5, <1>10, <2>1, <2>4, <3>1, <3>7, <3>8, <3>9 DEF ToTarget, TunnelInv
  <2> QED BY <1>2, <1>4, <2>3, <2>5, <2>6 DEF TunnelInv
<1> QED BY <1>6, <1>7

LEMMA AppClosesInv == TunnelInv /\ AppCloses => TunnelInv'
<1> SUFFICES ASSUME TunnelInv, AppCloses PROVE TunnelInv'
  OBVIOUS
<1>1. PICK m \in 0..Len(request) : ToApp(m)
  BY DEF TunnelInv
<1>2. /\ con' = IF data.s THEN [con EXCEPT !["s"].sac = TRUE] ELSE con
      /\ app' = [(IF data.c THEN [app EXCEPT !.sac = TRUE] ELSE app) EXCEPT !.open = FALSE]
      /\ data' = [[data EXCEPT !.c = FALSE, !.s = FALSE] EXCEPT !.freed = TRUE, !.tmp = <<>>]
      /\ UNCHANGED <<greeting, request, wire, target, wild>>
  BY DEF AppCloses, socks_if_disband, Client, Become
<1>3. con' \in [Conns -> Connection]
  <2>1. con' = con \/ con' = [con EXCEPT !["s"].sac = TRUE]
    BY <1>2
  <2>2. [con EXCEPT !["s"].sac = TRUE] \in [Conns -> Connection]
    BY ZenonT(40) DEF TunnelInv, TypeOK, Conns, Connection
  <2> QED BY <2>1, <2>2 DEF TunnelInv, TypeOK
<1>4. app' \in [open : BOOLEAN, sac : BOOLEAN, wrote : 0..Len(AppText), recv : Stream]
      /\ app'.wrote = app.wrote /\ app'.recv = app.recv
  BY <1>2 DEF TunnelInv, TypeOK
<1>5. data' \in [tmp : Stream, c : BOOLEAN, s : BOOLEAN, freed : BOOLEAN]
      /\ ~ data'.c /\ ~ data'.s /\ data'.freed /\ data'.tmp = <<>>
  <2>1. <<>> \in Stream
    BY DEF Stream
  <2> QED BY <1>2, <2>1 DEF TunnelInv, TypeOK
<1>6. /\ con'["p"] = con["p"] /\ con'["t"] = con["t"] /\ con'["s"].state = con["s"].state
      /\ con'["s"].recv = con["s"].recv /\ con'["s"].out = con["s"].out
      /\ con'["s"].handshake = con["s"].handshake /\ con'["s"].connect = con["s"].connect
  BY <1>2 DEF TunnelInv, TypeOK, Conns, Connection
<1>7. TypeOK'
  BY <1>2, <1>3, <1>4, <1>5 DEF TunnelInv, TypeOK
<1>8. NotBegun' /\ LinksAlive' /\ (con["p"].user => con["p"].connect)'
  BY <1>2, <1>4, <1>5, <1>6 DEF TunnelInv, NotBegun, LinksAlive
<1>9. ToTarget'
  <2>1. /\ Taken' = Taken /\ Written' = Written /\ Passed' = Passed /\ AskedEnd' = AskedEnd
        /\ Asked' = Asked /\ Payload' = Payload
    BY <1>2, <1>4, <1>6 DEF Taken, Written, Passed, AskedEnd, Asked, Payload
  <2> QED BY <1>2, <1>4, <1>5, <1>6, <2>1 DEF TunnelInv, ToTarget
<1>10. ToApp(m)'
  BY <1>1, <1>2, <1>4, <1>6 DEF ToApp, Read, ToldEnd, Told, ToldHead, Answer, Reply, Refused
<1> QED BY <1>2, <1>7, <1>8, <1>9, <1>10 DEF TunnelInv

LEMMA TargetSendsInv == TunnelInv /\ TargetSends => TunnelInv'
<1> SUFFICES ASSUME TunnelInv, TargetSends PROVE TunnelInv'
  OBVIOUS
<1>1. PICK m \in 0..Len(request) : ToApp(m)
  BY DEF TunnelInv
<1> DEFINE n == target.wrote + 1
           b == <<TargetText[n]>>
           w == wire["target"] \o b
<1>2. /\ greeting \in Greetings /\ request \in Requests /\ wire["target"] \in Stream
      /\ n \in 1..Len(TargetText) /\ n - 1 = target.wrote /\ target.wrote \in Nat /\ Len(TargetText) \in Nat
      /\ con["t"].state = "open"
  BY AskedIs, SMTT(30) DEF TunnelInv, TypeOK, TargetSends, Conns
<1>3. /\ Told(m) \in Stream /\ ToldHead \in Nat /\ b \in Stream /\ Len(b) = 1
      /\ Piece(b, Told(m), ToldHead + target.wrote)
  BY <1>2, ToldIs
<1>4. /\ wire' = [wire EXCEPT !["target"] = w] /\ target' = [target EXCEPT !.wrote = n]
      /\ UNCHANGED <<greeting, request, con, app, data, wild>>
  <2>1. Append(wire["target"], TargetText[n]) = w
    <3>1. wire["target"] \in Seq(Bytes) /\ TargetText[n] \in Bytes
      BY <1>2, TunnelAssumption DEF Stream
    <3> QED BY <3>1, AppendIsConcat
  <2> QED BY <2>1 DEF TargetSends
<1>5. w \in Stream
  BY <1>2, <1>3 DEF Stream
<1> HIDE DEF b, w
<1>6. /\ wire'["target"] = w /\ wire'["s"] = wire["s"] /\ wire'["p"] = wire["p"] /\ wire'["t"] = wire["t"]
      /\ target'.recv = target.recv /\ target'.open = target.open /\ target'.wrote = n
  BY <1>4 DEF TunnelInv, TypeOK, Conns
<1>7. TypeOK'
  <2>1. wire' \in [Conns \cup {"target"} -> Stream]
    BY <1>4, <1>5 DEF TunnelInv, TypeOK
  <2>2. target' \in [open : BOOLEAN, wrote : 0..Len(TargetText), recv : Stream]
    <3>1. n \in 0..Len(TargetText)
      BY <1>2
    <3> HIDE DEF n
    <3> QED BY <1>4, <3>1 DEF TunnelInv, TypeOK
  <2> QED BY <1>4, <2>1, <2>2 DEF TunnelInv, TypeOK
<1>8. con["p"].connect
  BY <1>2 DEF TunnelInv, NotBegun, NewConn
<1>9. NotBegun' /\ LinksAlive' /\ (con["p"].user => con["p"].connect)'
  BY <1>4, <1>6, <1>8 DEF TunnelInv, NotBegun, LinksAlive
<1>10. ToTarget'
  BY <1>4, <1>6 DEF TunnelInv, ToTarget, Taken, Written, Passed, AskedEnd, Asked, Payload
<1>11. ToApp(m)'
  <2>1. Told(m)' = Told(m) /\ ToldHead' = ToldHead /\ Read' = Read /\ ToldEnd' = ToldEnd
    BY <1>4, <1>6 DEF Told, ToldHead, Answer, Reply, Refused, Read, ToldEnd
  <2>2. ToldEnd \in Nat /\ con["t"].recv \in Stream /\ Len(app.recv) \in Nat
    BY Rows, Sizes, SMTT(30) DEF TunnelInv, Stream
  <2> DEFINE e == <<>>
  <2>3. e \in Stream
    BY DEF Stream
  <2>4. e \o b = b /\ b \o e = b
    BY <1>3 DEF Stream
  <2> HIDE DEF e
  <2>5. ASSUME ~ wild, con["p"].user
        PROVE  /\ InRow(con["t"].recv, w, e, Told(m), ToldEnd)
               /\ RowEnd(con["t"].recv, w, e, ToldEnd) = ToldHead + n
    <3>1. /\ InRow(con["t"].recv, wire["target"], e, Told(m), ToldEnd)
          /\ RowEnd(con["t"].recv, wire["target"], e, ToldEnd) = ToldHead + target.wrote
      BY <1>1, <2>5 DEF ToApp, e
    <3>2. Piece(b, Told(m), RowEnd(con["t"].recv, wire["target"], e, ToldEnd))
      BY <1>3, <3>1
    <3>5. /\ con["t"].recv \in Stream /\ wire["target"] \in Stream /\ e \in Stream /\ b \in Stream
          /\ Told(m) \in Stream /\ ToldEnd \in Nat
      BY <1>2, <1>3, <2>2, <2>3
    <3>3. /\ InRow(con["t"].recv, wire["target"], e \o b, Told(m), ToldEnd)
          /\ RowEnd(con["t"].recv, wire["target"], e \o b, ToldEnd) = ToldHead + target.wrote + Len(b)
      BY <3>1, <3>2, <3>5, RowWrite
    <3>4. /\ InRow(con["t"].recv, wire["target"], b, Told(m), ToldEnd)
          /\ RowEnd(con["t"].recv, wire["target"], b, ToldEnd) = ToldHead + n
      BY <1>2, <1>3, <2>4, <3>3
    <3>6. /\ InRow(con["t"].recv, wire["target"] \o b, <<>>, Told(m), ToldEnd)
          /\ RowEnd(con["t"].recv, wire["target"] \o b, <<>>, ToldEnd)
               = RowEnd(con["t"].recv, wire["target"], b, ToldEnd)
      BY <3>4, <3>5, RowFlush
    <3> QED BY <3>4, <3>6 DEF w, e
  <2>6. ToldEnd <= ToldHead + target.wrote => ToldEnd <= ToldHead + n
    BY <1>2, <1>3, <2>2
  <2>7. Len(app.recv) <= target.wrote => Len(app.recv) <= n
    BY <1>2, <2>2
  <2> HIDE DEF n
  <2> QED BY <1>1, <1>4, <1>6, <1>8, <2>1, <2>5, <2>6, <2>7 DEF ToApp, e
<1> QED BY <1>4, <1>7, <1>9, <1>10, <1>11 DEF TunnelInv

LEMMA TargetReceivesInv == TunnelInv /\ TargetReceives => TunnelInv'
<1> SUFFICES ASSUME TunnelInv, TargetReceives PROVE TunnelInv'
  OBVIOUS
<1>1. PICK m \in 0..Len(request) : ToApp(m)
  BY DEF TunnelInv
<1> DEFINE r == target.recv \o wire["t"]
           w == wire["t"]
<1>2. /\ wire' = [wire EXCEPT !["t"] = <<>>] /\ target' = [target EXCEPT !.recv = r]
      /\ UNCHANGED <<greeting, request, con, app, data, wild>> /\ w # <<>>
  BY DEF TargetReceives
<1>3. /\ w \in Stream /\ target.recv \in Stream /\ con["t"].out \in Stream /\ Asked \in Stream
      /\ Payload \in Nat /\ r \in Stream /\ <<>> \in Stream
  <2>1. /\ w \in Stream /\ target.recv \in Stream /\ con["t"].out \in Stream /\ Asked \in Stream
        /\ Payload \in Nat
    BY Rows, AskedIs DEF TunnelInv, TypeOK
  <2> HIDE DEF w
  <2>2. target.recv \o w \in Stream
    BY <2>1 DEF Stream
  <2> QED BY <2>1, <2>2 DEF Stream, w
<1>4. /\ wire'["t"] = <<>> /\ wire'["s"] = wire["s"] /\ wire'["p"] = wire["p"]
      /\ wire'["target"] = wire["target"]
      /\ target'.recv = r /\ target'.open = target.open /\ target'.wrote = target.wrote
  BY <1>2 DEF TunnelInv, TypeOK, Conns
<1>5. con["p"].connect
  BY <1>2 DEF TunnelInv, NotBegun
<1>6. TypeOK'
  <2>1. wire' \in [Conns \cup {"target"} -> Stream]
    BY <1>2, <1>3 DEF TunnelInv, TypeOK
  <2> HIDE DEF r
  <2>2. target' \in [open : BOOLEAN, wrote : 0..Len(TargetText), recv : Stream]
    BY <1>2, <1>3 DEF TunnelInv, TypeOK
  <2> QED BY <1>2, <2>1, <2>2 DEF TunnelInv, TypeOK
<1>7. NotBegun' /\ LinksAlive' /\ (con["p"].user => con["p"].connect)'
  BY <1>2, <1>4, <1>5 DEF TunnelInv, NotBegun, LinksAlive
<1>8. ToTarget'
  <2>1. Asked' = Asked /\ Payload' = Payload /\ Written' = Written
    BY <1>2 DEF Asked, Payload, Written
  <2>2. /\ InRow(r, <<>>, con["t"].out, Asked, Payload)
        /\ RowEnd(r, <<>>, con["t"].out, Payload) = Passed
    <3>1. InRow(target.recv, w, con["t"].out, Asked, Payload)
      BY DEF TunnelInv, ToTarget
    <3>2. Len(w) \in 1..Len(w) /\ SubSeq(w, 1, Len(w)) = w /\ SubSeq(w, Len(w) + 1, Len(w)) = <<>>
      BY <1>2, <1>3 DEF Stream
    <3> HIDE DEF w
    <3>3. /\ InRow(target.recv \o SubSeq(w, 1, Len(w)), SubSeq(w, Len(w) + 1, Len(w)), con["t"].out, Asked, Payload)
          /\ RowEnd(target.recv \o SubSeq(w, 1, Len(w)), SubSeq(w, Len(w) + 1, Len(w)), con["t"].out, Payload)
               = RowEnd(target.recv, w, con["t"].out, Payload)
      BY <1>3, <3>1, <3>2, RowTake, SMTT(30)
    <3> QED BY <3>2, <3>3 DEF w, Passed
  <2> HIDE DEF r
  <2>3. Passed' = Passed /\ Taken' = Taken
    BY <1>2, <1>4, <2>1, <2>2 DEF Passed, Taken
  <2>4. AskedEnd' = AskedEnd
    BY <1>2, <1>4, <2>3 DEF AskedEnd
  <2> QED BY <1>2, <1>4, <2>1, <2>2, <2>3, <2>4 DEF TunnelInv, ToTarget
<1>9. ToApp(m)'
  BY <1>1, <1>2, <1>4, ZenonT(40) DEF ToApp, Read, ToldEnd, Told, ToldHead, Answer, Reply, Refused
<1> QED BY <1>2, <1>6, <1>7, <1>8, <1>9 DEF TunnelInv

LEMMA FlushInv ==
  ASSUME TunnelInv, NEW k \in Conns, Flush(k)
  PROVE  TunnelInv'
<1>1. PICK m \in 0..Len(request) : ToApp(m)
  BY DEF TunnelInv
<1> DEFINE w == wire[k] \o con[k].out
<1>2. /\ wire' = [wire EXCEPT ![k] = w] /\ con' = [con EXCEPT ![k].out = <<>>]
      /\ UNCHANGED <<greeting, request, app, data, target, wild>>
      /\ con[k].state = "open" /\ con[k].out # <<>>
  BY DEF Flush, Live
<1>3. wire[k] \in Stream /\ con[k].out \in Stream /\ w \in Stream /\ <<>> \in Stream
  BY DEF TunnelInv, TypeOK, Connection, Stream
<1>4. Asked \in Stream /\ Told(m) \in Stream /\ Payload \in Nat /\ Taken \in Nat /\ Read \in Nat
  BY AskedIs, ToldIs, Sizes DEF TunnelInv, TypeOK
<1> HIDE DEF w
<1>5. /\ \A j \in Conns : /\ con'[j].state = con[j].state /\ con'[j].recv = con[j].recv
                          /\ con'[j].handshake = con[j].handshake /\ con'[j].connect = con[j].connect
                          /\ con'[j].user = con[j].user
      /\ \A j \in Conns \ {k} : con'[j] = con[j]
      /\ con'[k].out = <<>>
      /\ \A j \in (Conns \cup {"target"}) \ {k} : wire'[j] = wire[j]
      /\ wire'[k] = w
  BY <1>2 DEF TunnelInv, TypeOK, Connection
<1>6. TypeOK'
  <2>1. wire' \in [Conns \cup {"target"} -> Stream]
    BY <1>2, <1>3 DEF TunnelInv, TypeOK
  <2>2. con' \in [Conns -> Connection]
    BY <1>2, <1>3 DEF TunnelInv, TypeOK, Connection
  <2> QED BY <1>2, <2>1, <2>2 DEF TunnelInv, TypeOK
<1>7. NotBegun'
  <2>1. con["s"].state \notin {"open", "closed"} => k # "s" /\ k # "p"
    BY <1>2 DEF TunnelInv, NotBegun, NewConn
  <2>2. ~ con["p"].connect => k # "t"
    BY <1>2 DEF TunnelInv, NotBegun, NewConn
  <2> QED BY <1>2, <1>5, <2>1, <2>2 DEF TunnelInv, NotBegun, Conns
<1>8. LinksAlive' /\ (con["p"].user => con["p"].connect)'
  BY <1>5 DEF TunnelInv, LinksAlive, Conns
<1>13. /\ con'["s"].state = con["s"].state /\ con'["s"].handshake = con["s"].handshake
       /\ con'["s"].connect = con["s"].connect /\ con'["p"].handshake = con["p"].handshake
       /\ con'["p"].connect = con["p"].connect
       /\ con["s"].recv \in Stream /\ con["p"].recv \in Stream /\ target.recv \in Stream
  BY <1>5, Rows DEF Conns, TunnelInv
<1>9. /\ Asked' = Asked /\ Payload' = Payload /\ Written' = Written /\ Read' = Read
      /\ Told(m)' = Told(m) /\ ToldHead' = ToldHead
  BY <1>2, <1>13 DEF Asked, Payload, Written, Read, Told, ToldHead, Answer, Reply, Refused
<1>10. CASE k = "t"
  <2>1. /\ InRow(target.recv, w, <<>>, Asked, Payload)
        /\ RowEnd(target.recv, w, <<>>, Payload) = Passed
    <3>1. InRow(target.recv, wire["t"], con["t"].out, Asked, Payload)
      BY DEF TunnelInv, ToTarget
    <3>2. wire["t"] \in Stream /\ con["t"].out \in Stream /\ w = wire["t"] \o con["t"].out
      BY <1>3, <1>10 DEF w
    <3>3. Asked \in Stream /\ Payload \in Nat /\ target.recv \in Stream
      BY <1>4, <1>13
    <3> QED BY <3>1, <3>2, <3>3, RowFlush, SMTT(30) DEF Passed
  <2>2. /\ con'["s"] = con["s"] /\ con'["p"] = con["p"] /\ con'["t"].recv = con["t"].recv
        /\ con'["t"].out = <<>> /\ wire'["t"] = w /\ wire'["s"] = wire["s"] /\ wire'["p"] = wire["p"]
        /\ wire'["target"] = wire["target"]
    BY <1>5, <1>10 DEF Conns
  <2>3. Passed' = Passed /\ Taken' = Taken
    BY <1>2, <1>9, <2>1, <2>2 DEF Passed, Taken
  <2>4. AskedEnd' = AskedEnd /\ ToldEnd' = ToldEnd
    BY <1>9, <2>2, <2>3 DEF AskedEnd, ToldEnd
  <2>5. ToTarget'
    BY <1>2, <1>9, <2>1, <2>2, <2>3, <2>4 DEF TunnelInv, ToTarget
  <2>6. ToApp(m)'
    BY <1>1, <1>2, <1>9, <2>2, <2>4 DEF ToApp
  <2> QED BY <1>2, <1>6, <1>7, <1>8, <2>5, <2>6 DEF TunnelInv
<1>11. CASE k = "s"
  <2>1. /\ con'["t"] = con["t"] /\ con'["p"] = con["p"] /\ con'["s"].recv = con["s"].recv
        /\ con'["s"].state = con["s"].state /\ con'["s"].connect = con["s"].connect
        /\ con'["s"].out = <<>> /\ wire'["s"] = w /\ wire'["t"] = wire["t"] /\ wire'["p"] = wire["p"]
        /\ wire'["target"] = wire["target"]
    BY <1>5, <1>11 DEF Conns
  <2>2. Passed' = Passed /\ Taken' = Taken
    <3>1. Passed' = Passed
      BY <1>2, <1>9, <2>1 DEF Passed
    <3> QED BY <1>2, <1>13, <3>1 DEF Taken
  <2>3. ASSUME InRow(con["p"].recv, wire["s"], con["s"].out, Asked, Taken)
        PROVE  /\ InRow(con["p"].recv, w, <<>>, Asked, Taken)
               /\ RowEnd(con["p"].recv, w, <<>>, Taken) = AskedEnd
    <3>1. wire["s"] \in Stream /\ con["s"].out \in Stream /\ w = wire["s"] \o con["s"].out
      BY <1>3, <1>11 DEF w
    <3>2. Asked \in Stream /\ Taken \in Nat /\ con["p"].recv \in Stream
      BY <1>4, <1>13
    <3> QED BY <2>3, <3>1, <3>2, RowFlush DEF AskedEnd
  <2>4. AskedEnd' = RowEnd(con["p"].recv, w, <<>>, Taken)
    BY <2>1, <2>2 DEF AskedEnd
  <2>5. ToldEnd' = ToldEnd
    BY <1>9, <2>1 DEF ToldEnd
  <2>6. ToTarget'
    BY <1>2, <1>9, <2>1, <2>2, <2>3, <2>4 DEF TunnelInv, ToTarget
  <2>7. ToApp(m)'
    BY <1>1, <1>2, <1>9, <2>1, <2>5 DEF ToApp
  <2> QED BY <1>2, <1>6, <1>7, <1>8, <2>6, <2>7 DEF TunnelInv
<1>12. CASE k = "p"
  <2>1. /\ con'["t"] = con["t"] /\ con'["s"] = con["s"] /\ con'["p"].recv = con["p"].recv
        /\ con'["p"].connect = con["p"].connect /\ con'["p"].handshake = con["p"].handshake
        /\ con'["p"].user = con["p"].user /\ con'["p"].state = con["p"].state
        /\ con'["p"].out = <<>> /\ wire'["p"] = w /\ wire'["t"] = wire["t"] /\ wire'["s"] = wire["s"]
        /\ wire'["target"] = wire["target"]
    BY <1>5, <1>12 DEF Conns
  <2>2. Passed' = Passed /\ Taken' = Taken
    <3>1. Passed' = Passed
      BY <1>2, <1>9, <2>1 DEF Passed
    <3> QED BY <1>2, <1>13, <3>1 DEF Taken
  <2>3. AskedEnd' = AskedEnd
    BY <2>1, <2>2 DEF AskedEnd
  <2>4. ASSUME InRow(con["s"].recv, wire["p"], con["p"].out, Told(m), Read)
        PROVE  /\ InRow(con["s"].recv, w, <<>>, Told(m), Read)
               /\ RowEnd(con["s"].recv, w, <<>>, Read) = ToldEnd
    <3>1. wire["p"] \in Stream /\ con["p"].out \in Stream /\ w = wire["p"] \o con["p"].out
      BY <1>3, <1>12 DEF w
    <3>2. Told(m) \in Stream /\ Read \in Nat /\ con["s"].recv \in Stream
      BY <1>4, <1>13
    <3> QED BY <2>4, <3>1, <3>2, RowFlush DEF ToldEnd
  <2>5. ToldEnd' = RowEnd(con["s"].recv, w, <<>>, Read)
    BY <1>9, <2>1 DEF ToldEnd
  <2>6. ToTarget'
    BY <1>2, <1>9, <2>1, <2>2, <2>3 DEF TunnelInv, ToTarget
  <2>7. ToApp(m)'
    BY <1>1, <1>2, <1>9, <2>1, <2>4, <2>5 DEF ToApp
  <2> QED BY <1>2, <1>6, <1>7, <1>8, <2>6, <2>7 DEF TunnelInv
<1> QED BY <1>10, <1>11, <1>12 DEF Conns

(* What disband leaves alone.                                              *)
LEMMA DisbandIs ==
  ASSUME NEW f \in [Conns -> Connection], NEW k \in Conns, NEW o \in Conns, k # o
  PROVE  /\ disband(f, k, o) \in [Conns -> Connection]
         /\ \A j \in Conns :
              /\ disband(f, k, o)[j].state = f[j].state /\ disband(f, k, o)[j].recv = f[j].recv
              /\ disband(f, k, o)[j].out = f[j].out /\ disband(f, k, o)[j].handshake = f[j].handshake
              /\ disband(f, k, o)[j].connect = f[j].connect
              /\ j \notin {k, o} => disband(f, k, o)[j] = f[j]
         /\ ~ disband(f, k, o)[k].user /\ disband(f, k, o)[o].user = (f[o].user /\ ~ f[k].user)
         /\ ~ f[k].user => disband(f, k, o)[o] = f[o]
<1> DEFINE a == [f[k] EXCEPT !.sac = TRUE, !.user = FALSE]
           b == [f[o] EXCEPT !.sac = @ \/ f[k].user, !.user = @ /\ ~ f[k].user]
           g == [f EXCEPT ![k] = a, ![o] = b]
<1>1. disband(f, k, o) = g
  BY DEF disband
<1>2. f[k] \in Connection /\ f[o] \in Connection
  OBVIOUS
<1>3. /\ a \in Connection /\ a.state = f[k].state /\ a.recv = f[k].recv /\ a.out = f[k].out
      /\ a.handshake = f[k].handshake /\ a.connect = f[k].connect /\ ~ a.user
  BY <1>2 DEF Connection
<1>4. /\ b \in Connection /\ b.state = f[o].state /\ b.recv = f[o].recv /\ b.out = f[o].out
      /\ b.handshake = f[o].handshake /\ b.connect = f[o].connect
      /\ b.user = (f[o].user /\ ~ f[k].user)
  BY <1>2 DEF Connection
<1>5. ~ f[k].user => b = f[o]
  BY <1>2 DEF Connection
<1> HIDE DEF a, b
<1>6. g \in [Conns -> Connection] /\ g[k] = a /\ g[o] = b /\ \A j \in Conns \ {k, o} : g[j] = f[j]
  BY <1>3, <1>4
<1> HIDE DEF g
<1> QED BY <1>1, <1>3, <1>4, <1>5, <1>6

(* A connection that closes loses what it has not sent.                    *)
LEMMA CloseClientInv == TunnelInv /\ mg_close_conn("s") => TunnelInv'
<1> SUFFICES ASSUME TunnelInv, mg_close_conn("s") PROVE TunnelInv'
  OBVIOUS
<1>1. PICK m \in 0..Len(request) : ToApp(m)
  BY DEF TunnelInv
<1>2. UNCHANGED <<greeting, request, wire, target>>
  BY DEF mg_close_conn
<1>3. CASE data.freed
  <2>1. wild' = TRUE /\ UNCHANGED <<con, app, data>>
    BY <1>3 DEF mg_close_conn
  <2>2. TypeOK'
    BY <1>2, <2>1 DEF TunnelInv, TypeOK
  <2>3. NotBegun' /\ LinksAlive' /\ (con["p"].user => con["p"].connect)'
    BY <1>2, <2>1 DEF TunnelInv, NotBegun, LinksAlive
  <2>4. ToTarget'
    BY <1>2, <2>1 DEF TunnelInv, ToTarget, Taken, Written, AskedEnd, Passed, Asked, Payload
  <2>5. ToApp(m)'
    BY <1>1, <1>2, <2>1 DEF ToApp, Read, ToldEnd, Told, ToldHead, Answer, Reply, Refused
  <2> QED BY <1>2, <2>2, <2>3, <2>4, <2>5 DEF TunnelInv
<1>4. CASE ~ data.freed
  <2> DEFINE d == [con["s"] EXCEPT !.state = "closed", !.out = <<>>]
             cn == [con EXCEPT !["s"] = d]
  <2>1. /\ con' = IF data.s THEN [cn EXCEPT !["s"].sac = TRUE] ELSE cn
        /\ app' = IF data.c THEN [app EXCEPT !.sac = TRUE] ELSE app
        /\ data' = [data EXCEPT !.c = FALSE, !.s = FALSE]
        /\ wild' = wild
    <3>1. [con EXCEPT !["s"].state = "closed", !["s"].out = <<>>] = cn
      BY DEF TunnelInv, TypeOK, Conns
    <3> HIDE DEF cn
    <3> QED BY <1>4, <3>1 DEF mg_close_conn, socks_if_disband, Client, Become
  <2>2. <<>> \in Stream
    BY DEF Stream
  <2>3. cn \in [Conns -> Connection]
    <3>1. d \in Connection
      BY <2>2, ZenonT(40) DEF TunnelInv, TypeOK, Conns, Connection
    <3> HIDE DEF d
    <3> QED BY <3>1 DEF TunnelInv, TypeOK
  <2>4. /\ cn["p"] = con["p"] /\ cn["t"] = con["t"] /\ cn["s"].state = "closed"
        /\ cn["s"].recv = con["s"].recv /\ cn["s"].out = <<>>
        /\ cn["s"].handshake = con["s"].handshake /\ cn["s"].connect = con["s"].connect
    BY DEF TunnelInv, TypeOK, Conns, Connection
  <2> HIDE DEF cn
  <2>5. con' \in [Conns -> Connection]
    <3>1. con' = cn \/ con' = [cn EXCEPT !["s"].sac = TRUE]
      BY <2>1
    <3>2. [cn EXCEPT !["s"].sac = TRUE] \in [Conns -> Connection]
      BY <2>3 DEF Conns, Connection
    <3> QED BY <2>3, <3>1, <3>2
  <2>6. /\ con'["p"] = con["p"] /\ con'["t"] = con["t"] /\ con'["s"].state = "closed"
        /\ con'["s"].recv = con["s"].recv /\ con'["s"].out = <<>>
        /\ con'["s"].handshake = con["s"].handshake /\ con'["s"].connect = con["s"].connect
    BY <2>1, <2>3, <2>4 DEF Conns, Connection
  <2>7. app' \in [open : BOOLEAN, sac : BOOLEAN, wrote : 0..Len(AppText), recv : Stream]
        /\ app'.wrote = app.wrote /\ app'.recv = app.recv
    BY <2>1 DEF TunnelInv, TypeOK
  <2>8. data' \in [tmp : Stream, c : BOOLEAN, s : BOOLEAN, freed : BOOLEAN]
        /\ ~ data'.c /\ ~ data'.s /\ ~ data'.freed
    BY <1>4, <2>1 DEF TunnelInv, TypeOK
  <2>9. TypeOK'
    BY <1>2, <2>1, <2>5, <2>7, <2>8 DEF TunnelInv, TypeOK
  <2>10. con["s"].state # "none" /\ (con["s"].state # "closed")
    BY DEF mg_close_conn, MayClose, Live
  <2>11. NotBegun' /\ LinksAlive' /\ (con["p"].user => con["p"].connect)'
    BY <1>2, <2>6, <2>7, <2>8 DEF TunnelInv, NotBegun, LinksAlive
  <2>12. Asked' = Asked /\ Payload' = Payload /\ Passed' = Passed /\ Taken' = Taken
    BY <1>2, <2>6 DEF Asked, Payload, Passed, Taken
  <2>13. /\ Asked \in Stream /\ Taken \in Nat /\ con["p"].recv \in Stream /\ wire["s"] \in Stream
         /\ con["s"].out \in Stream /\ AskedEnd \in Nat /\ Payload \in Nat /\ app.wrote \in Nat
         /\ Len(greeting) \in Nat /\ Written \in Nat
    BY AskedIs, Rows, Sizes DEF TunnelInv, TypeOK
  <2>14. Written <= Written' /\ Written' \in Nat
    BY <1>2, <2>6, <2>7, <2>12, <2>13 DEF Written
  <2>15. ASSUME InRow(con["p"].recv, wire["s"], con["s"].out, Asked, Taken)
         PROVE  /\ InRow(con["p"].recv, wire["s"], <<>>, Asked, Taken)
                /\ RowEnd(con["p"].recv, wire["s"], <<>>, Taken) <= AskedEnd
    BY <2>13, <2>15, RowDrop DEF AskedEnd
  <2>16. AskedEnd' = RowEnd(con["p"].recv, wire["s"], <<>>, Taken) /\ AskedEnd' \in Nat
    <3>1. AskedEnd' = RowEnd(con["p"].recv, wire["s"], <<>>, Taken)
      BY <1>2, <2>6, <2>12 DEF AskedEnd
    <3> QED BY <2>2, <2>13, <3>1, RowEndIs
  <2>17. ToTarget'
    <3>1. ASSUME InRow(con["p"].recv, wire["s"], con["s"].out, Asked, Taken), AskedEnd <= Written
          PROVE  AskedEnd' <= Written'
      BY <2>13, <2>14, <2>15, <2>16, <3>1
    <3> QED BY <1>2, <2>6, <2>7, <2>8, <2>12, <2>15, <3>1 DEF TunnelInv, ToTarget
  <2>18. ToApp(m)'
    <3>1. wild' = wild
      BY <2>1
    <3> QED BY <1>1, <1>2, <2>6, <2>7, <3>1, ZenonT(40) DEF ToApp, Read, ToldEnd, Told, ToldHead, Answer, Reply, Refused
  <2> QED BY <1>2, <2>9, <2>11, <2>17, <2>18 DEF TunnelInv
<1> QED BY <1>3, <1>4

LEMMA CloseServerInv == TunnelInv /\ mg_close_conn("p") => TunnelInv'
<1> SUFFICES ASSUME TunnelInv, mg_close_conn("p") PROVE TunnelInv'
  OBVIOUS
<1>1. PICK m \in 0..Len(request) : ToApp(m)
  BY DEF TunnelInv
<1> DEFINE d == [con["p"] EXCEPT !.state = "closed", !.out = <<>>]
           cn == [con EXCEPT !["p"] = d]
<1>2. /\ con' = disband(cn, "p", "t")
      /\ UNCHANGED <<greeting, request, wire, app, data, target, wild>>
      /\ con["p"].state # "none"
  <2>1. [con EXCEPT !["p"].state = "closed", !["p"].out = <<>>] = cn
    BY DEF TunnelInv, TypeOK, Conns
  <2> HIDE DEF cn
  <2> QED BY <2>1 DEF mg_close_conn, MayClose, Live
<1>3. <<>> \in Stream
  BY DEF Stream
<1>4. cn \in [Conns -> Connection]
  <2>1. d \in Connection
    BY <1>3, ZenonT(40) DEF TunnelInv, TypeOK, Conns, Connection
  <2> HIDE DEF d
  <2> QED BY <2>1 DEF TunnelInv, TypeOK
<1>5. /\ cn["s"] = con["s"] /\ cn["t"] = con["t"] /\ cn["p"].state = "closed" /\ cn["p"].out = <<>>
      /\ cn["p"].recv = con["p"].recv /\ cn["p"].handshake = con["p"].handshake
      /\ cn["p"].connect = con["p"].connect /\ cn["p"].user = con["p"].user
      /\ con["p"].user = con["t"].user
  BY DEF TunnelInv, TypeOK, Conns, Connection, LinksAlive
<1> HIDE DEF cn
<1>6. /\ con' \in [Conns -> Connection] /\ con'["s"] = con["s"]
      /\ con'["p"].state = "closed" /\ con'["p"].recv = con["p"].recv /\ con'["p"].out = <<>>
      /\ con'["p"].handshake = con["p"].handshake /\ con'["p"].connect = con["p"].connect
      /\ con'["t"].recv = con["t"].recv /\ con'["t"].out = con["t"].out
      /\ ~ con'["p"].user /\ ~ con'["t"].user /\ (~ con["p"].user => con'["t"] = con["t"])
  <2>1. "p" \in Conns /\ "t" \in Conns /\ "s" \in Conns /\ "p" # "t" /\ "s" # "p" /\ "s" # "t"
    BY DEF Conns
  <2> QED BY <1>2, <1>4, <1>5, <2>1, DisbandIs
<1>7. TypeOK'
  BY <1>2, <1>6 DEF TunnelInv, TypeOK
<1>8. NotBegun'
  <2>1. con["s"].state \in {"open", "closed"}
    BY <1>2 DEF TunnelInv, NotBegun, NewConn
  <2> QED BY <1>2, <1>6, <2>1 DEF TunnelInv, NotBegun
<1>9. LinksAlive' /\ (con["p"].user => con["p"].connect)'
  <2>1. con'["p"].user \in BOOLEAN /\ con'["t"].user \in BOOLEAN
    BY <1>6 DEF Conns, Connection
  <2> QED BY <1>6, <2>1 DEF LinksAlive
<1>10. ToTarget'
  <2>1. /\ Asked' = Asked /\ Payload' = Payload /\ Passed' = Passed /\ Taken' = Taken /\ Written' = Written
    BY <1>2, <1>6 DEF Asked, Payload, Passed, Taken, Written
  <2>2. AskedEnd' = AskedEnd
    BY <1>2, <1>6, <2>1 DEF AskedEnd
  <2> QED BY <1>2, <1>6, <2>1, <2>2 DEF TunnelInv, ToTarget
<1>11. ToApp(m)'
  <2>1. Told(m)' = Told(m) /\ ToldHead' = ToldHead /\ Read' = Read
    BY <1>2, <1>6 DEF Told, ToldHead, Answer, Reply, Refused, Read
  <2>2. /\ Told(m) \in Stream /\ Read \in Nat /\ con["s"].recv \in Stream /\ wire["p"] \in Stream
        /\ con["p"].out \in Stream /\ ToldEnd \in Nat /\ ToldHead \in Nat /\ target.wrote \in Nat
    BY ToldIs, Rows, Sizes DEF TunnelInv, TypeOK
  <2>3. ASSUME InRow(con["s"].recv, wire["p"], con["p"].out, Told(m), Read)
        PROVE  /\ InRow(con["s"].recv, wire["p"], <<>>, Told(m), Read)
               /\ RowEnd(con["s"].recv, wire["p"], <<>>, Read) <= ToldEnd
    BY <2>2, <2>3, RowDrop DEF ToldEnd
  <2>4. ToldEnd' = RowEnd(con["s"].recv, wire["p"], <<>>, Read) /\ ToldEnd' \in Nat
    <3>1. ToldEnd' = RowEnd(con["s"].recv, wire["p"], <<>>, Read)
      BY <1>2, <1>6, <2>1 DEF ToldEnd
    <3> QED BY <1>3, <2>2, <3>1, RowEndIs
  <2>5. ASSUME ~ wild
        PROVE  /\ ToldEnd' <= ToldHead + target.wrote
               /\ ~ con["p"].handshake => ToldEnd' = 0
               /\ ~ con["p"].connect => ToldEnd' <= 2
    <3>1. ToldEnd' <= ToldEnd
      BY <1>1, <2>3, <2>4, <2>5 DEF ToApp
    <3>2. /\ ToldEnd <= ToldHead + target.wrote /\ (~ con["p"].handshake => ToldEnd = 0)
          /\ (~ con["p"].connect => ToldEnd <= 2)
      BY <1>1, <2>5 DEF ToApp
    <3> QED BY <2>2, <2>4, <3>1, <3>2
  <2> QED BY <1>1, <1>2, <1>6, <2>1, <2>3, <2>4, <2>5 DEF ToApp
<1> QED BY <1>2, <1>7, <1>8, <1>9, <1>10, <1>11 DEF TunnelInv

LEMMA CloseOnwardInv == TunnelInv /\ mg_close_conn("t") => TunnelInv'
<1> SUFFICES ASSUME TunnelInv, mg_close_conn("t") PROVE TunnelInv'
  OBVIOUS
<1>1. PICK m \in 0..Len(request) : ToApp(m)
  BY DEF TunnelInv
<1> DEFINE d == [con["t"] EXCEPT !.state = "closed", !.out = <<>>]
           cn == [con EXCEPT !["t"] = d]
<1>2. /\ con' = disband(cn, "t", "p")
      /\ UNCHANGED <<greeting, request, wire, app, data, target, wild>>
      /\ con["t"].state # "none"
  <2>1. [con EXCEPT !["t"].state = "closed", !["t"].out = <<>>] = cn
    BY DEF TunnelInv, TypeOK, Conns
  <2> HIDE DEF cn
  <2> QED BY <2>1 DEF mg_close_conn, MayClose, Live
<1>3. <<>> \in Stream
  BY DEF Stream
<1>4. cn \in [Conns -> Connection]
  <2>1. d \in Connection
    BY <1>3, ZenonT(40) DEF TunnelInv, TypeOK, Conns, Connection
  <2> HIDE DEF d
  <2> QED BY <2>1 DEF TunnelInv, TypeOK
<1>5. /\ cn["s"] = con["s"] /\ cn["p"] = con["p"] /\ cn["t"].state = "closed" /\ cn["t"].out = <<>>
      /\ cn["t"].recv = con["t"].recv /\ cn["t"].handshake = con["t"].handshake
      /\ cn["t"].connect = con["t"].connect /\ cn["t"].user = con["t"].user
      /\ con["p"].user = con["t"].user
  BY DEF TunnelInv, TypeOK, Conns, Connection, LinksAlive
<1> HIDE DEF cn
<1>12. con["p"].connect
  BY <1>2 DEF TunnelInv, NotBegun, NewConn
<1>6. /\ con' \in [Conns -> Connection] /\ con'["s"] = con["s"]
      /\ con'["p"].state = con["p"].state /\ con'["p"].recv = con["p"].recv /\ con'["p"].out = con["p"].out
      /\ con'["p"].handshake = con["p"].handshake /\ con'["p"].connect = con["p"].connect
      /\ con'["t"].recv = con["t"].recv /\ con'["t"].out = <<>>
      /\ ~ con'["p"].user /\ ~ con'["t"].user /\ (~ con["p"].user => con'["p"] = con["p"])
  <2>1. "p" \in Conns /\ "t" \in Conns /\ "s" \in Conns /\ "p" # "t" /\ "s" # "p" /\ "s" # "t"
    BY DEF Conns
  <2> DEFINE g == disband(cn, "t", "p")
  <2>2. /\ g \in [Conns -> Connection]
        /\ \A j \in Conns :
             /\ g[j].state = cn[j].state /\ g[j].recv = cn[j].recv /\ g[j].out = cn[j].out
             /\ g[j].handshake = cn[j].handshake /\ g[j].connect = cn[j].connect
             /\ j \notin {"t", "p"} => g[j] = cn[j]
        /\ ~ g["t"].user /\ g["p"].user = (cn["p"].user /\ ~ cn["t"].user)
        /\ ~ cn["t"].user => g["p"] = cn["p"]
    BY <1>4, <2>1, DisbandIs
  <2>3. con' = g
    BY <1>2
  <2> HIDE DEF g
  <2>4. cn["p"].user = cn["t"].user
    BY <1>5
  <2> QED BY <1>5, <2>1, <2>2, <2>3, <2>4
<1>7. TypeOK'
  BY <1>2, <1>6 DEF TunnelInv, TypeOK
<1>8. NotBegun'
  <2>1. con["s"].state \in {"open", "closed"}
    BY <1>12 DEF TunnelInv, NotBegun, NewConn
  <2> QED BY <1>2, <1>6, <1>12, <2>1 DEF TunnelInv, NotBegun
<1>9. LinksAlive' /\ (con["p"].user => con["p"].connect)'
  <2>1. con'["p"].user \in BOOLEAN /\ con'["t"].user \in BOOLEAN
    BY <1>6 DEF Conns, Connection
  <2> QED BY <1>6, <2>1 DEF LinksAlive
<1>10. ToTarget'
  <2>1. Asked' = Asked /\ Payload' = Payload
    BY <1>2 DEF Asked, Payload
  <2>2. /\ Asked \in Stream /\ Payload \in Nat /\ target.recv \in Stream /\ wire["t"] \in Stream
        /\ con["t"].out \in Stream /\ Passed \in Nat /\ app.wrote \in Nat
    BY AskedIs, Rows, Sizes DEF TunnelInv, TypeOK
  <2>3. /\ InRow(target.recv, wire["t"], con["t"].out, Asked, Payload) /\ Passed <= Payload + app.wrote
    BY DEF TunnelInv, ToTarget
  <2>4. /\ InRow(target.recv, wire["t"], <<>>, Asked, Payload)
        /\ RowEnd(target.recv, wire["t"], <<>>, Payload) <= Passed
    BY <2>2, <2>3, RowDrop DEF Passed
  <2>5. Passed' = RowEnd(target.recv, wire["t"], <<>>, Payload) /\ Passed' \in Nat
    <3>1. Passed' = RowEnd(target.recv, wire["t"], <<>>, Payload)
      BY <1>2, <1>6, <1>12, <2>1 DEF Passed
    <3> QED BY <1>3, <2>2, <3>1, RowEndIs
  <2>6. Passed' <= Payload + app.wrote
    BY <2>2, <2>3, <2>4, <2>5
  <2> QED BY <1>2, <1>6, <1>12, <2>1, <2>4, <2>6 DEF TunnelInv, ToTarget
<1>11. ToApp(m)'
  BY <1>1, <1>2, <1>6, <1>12, ZenonT(40) DEF ToApp, Read, ToldEnd, Told, ToldHead, Answer, Reply, Refused
<1> QED BY <1>2, <1>7, <1>8, <1>9, <1>10, <1>11 DEF TunnelInv

(* Bytes of the target arrive at the server, which relays them.            *)
LEMMA ReceiveOnwardInv ==
  ASSUME TunnelInv, NEW n \in 1..Len(wire["target"]), Receive("t", n)
  PROVE  TunnelInv'
<1>1. PICK m \in 0..Len(request) : ToApp(m)
  BY DEF TunnelInv
<1> DEFINE w == wire["target"]
           r == con["t"].recv \o SubSeq(w, 1, n)
           g == SubSeq(w, n + 1, Len(w))
           t == [con["t"] EXCEPT !.recv = r]
           cn == [con EXCEPT !["t"] = t]
<1>2. /\ con' = relay_data(cn, "t", "p") /\ wire' = [wire EXCEPT !["target"] = g]
      /\ UNCHANGED <<greeting, request, app, data, target, wild>>
      /\ con["t"].state = "open" /\ ~ wild
  <2>1. Peer("t") = "target"
    BY DEF Peer
  <2>2. [con EXCEPT !["t"].recv = @ \o SubSeq(wire[Peer("t")], 1, n)] = cn
    BY <2>1 DEF TunnelInv, TypeOK, Conns
  <2> HIDE DEF cn
  <2> QED BY <2>1, <2>2 DEF Receive, Live
<1>3. /\ Told(m) \in Stream /\ w \in Stream /\ con["t"].recv \in Stream /\ <<>> \in Stream
      /\ con["s"].recv \in Stream /\ wire["p"] \in Stream /\ con["p"].out \in Stream
      /\ ToldEnd \in Nat /\ ToldHead \in Nat /\ target.wrote \in Nat /\ Read \in Nat
  <2>1. <<>> \in Stream
    BY DEF Stream
  <2> QED BY <2>1, ToldIs, Rows, Sizes DEF TunnelInv, TypeOK
<1> HIDE DEF w
<1>4. r \in Stream /\ g \in Stream
  <2>1. Piece(w, w, 0)
    <3>1. Len(w) \in Nat
      BY <1>3 DEF Stream
    <3> QED BY <3>1 DEF Piece
  <2>2. n \in 0..Len(w)
    BY <1>3 DEF Stream, w
  <2>3. SubSeq(w, 1, n) \in Stream /\ g \in Stream
    BY <1>3, <2>1, <2>2, PieceCut
  <2> HIDE DEF g
  <2> QED BY <1>3, <2>3 DEF Stream
<1>5. /\ cn \in [Conns -> Connection] /\ cn["s"] = con["s"] /\ cn["p"] = con["p"] /\ cn["t"] = t
      /\ t.recv = r /\ t.out = con["t"].out /\ t.state = "open" /\ t.user = con["t"].user
      /\ t \in Connection
  <2> HIDE DEF r
  <2>1. t \in Connection
    BY <1>4 DEF TunnelInv, TypeOK, Conns, Connection
  <2>2. t.recv = r /\ t.out = con["t"].out /\ t.state = "open" /\ t.user = con["t"].user
    BY <1>2 DEF TunnelInv, TypeOK, Conns, Connection
  <2> HIDE DEF t
  <2> QED BY <2>1, <2>2 DEF TunnelInv, TypeOK, Conns
<1>6. con["p"].connect /\ con["p"].handshake /\ con["p"].user = con["t"].user
  BY <1>2 DEF TunnelInv, NotBegun, NewConn, LinksAlive
<1> HIDE DEF r, g, t, cn
<1>7. /\ wire'["target"] = g /\ wire'["s"] = wire["s"] /\ wire'["p"] = wire["p"] /\ wire'["t"] = wire["t"]
      /\ wire' \in [Conns \cup {"target"} -> Stream]
  BY <1>2, <1>4 DEF TunnelInv, TypeOK, Conns
<1>8. /\ con' \in [Conns -> Connection] /\ con'["s"] = con["s"]
      /\ con'["p"].state = con["p"].state /\ con'["p"].recv = con["p"].recv
      /\ con'["p"].handshake = con["p"].handshake /\ con'["p"].connect = con["p"].connect
      /\ con'["p"].user = con["p"].user
      /\ con'["t"].state = "open" /\ con'["t"].out = con["t"].out /\ con'["t"].user = con["t"].user
      /\ con["p"].user => con'["p"].out = con["p"].out \o r /\ con'["t"].recv = <<>>
      /\ ~ con["p"].user => con'["p"].out = con["p"].out
  <2>1. "p" \in Conns /\ "t" \in Conns /\ "s" \in Conns /\ con["p"] \in Connection
    BY DEF TunnelInv, TypeOK, Conns
  <2>2. CASE con["t"].user
    <3> DEFINE p1 == [con["p"] EXCEPT !.out = @ \o r]
               t1 == [t EXCEPT !.recv = <<>>]
    <3>1. con' = [cn EXCEPT !["p"] = p1, !["t"] = t1]
      BY <1>2, <1>5, <2>1, <2>2 DEF relay_data
    <3>2. con["p"].out \o r \in Stream
      BY <1>3, <1>4 DEF Stream
    <3>3. p1 \in Connection /\ p1.state = con["p"].state /\ p1.recv = con["p"].recv
          /\ p1.handshake = con["p"].handshake /\ p1.connect = con["p"].connect
          /\ p1.user = con["p"].user /\ p1.out = con["p"].out \o r
      BY <2>1, <3>2 DEF Connection
    <3>4. t1 \in Connection /\ t1.state = "open" /\ t1.out = con["t"].out /\ t1.user = con["t"].user
          /\ t1.recv = <<>>
      BY <1>3, <1>5 DEF Connection
    <3> HIDE DEF p1, t1
    <3> QED BY <1>5, <1>6, <2>1, <2>2, <3>1, <3>3, <3>4
  <2>3. CASE ~ con["t"].user
    <3> DEFINE t1 == [t EXCEPT !.sac = TRUE]
    <3>1. con' = [cn EXCEPT !["t"] = t1]
      BY <1>2, <1>5, <2>1, <2>3 DEF relay_data
    <3>2. t1 \in Connection /\ t1.state = "open" /\ t1.out = con["t"].out /\ t1.user = con["t"].user
      BY <1>5 DEF Connection
    <3> HIDE DEF t1
    <3> QED BY <1>5, <1>6, <2>1, <2>3, <3>1, <3>2
  <2> QED BY <2>2, <2>3
<1>9. TypeOK'
  BY <1>2, <1>7, <1>8 DEF TunnelInv, TypeOK
<1>10. NotBegun' /\ LinksAlive' /\ (con["p"].user => con["p"].connect)'
  <2>1. con["s"].state \in {"open", "closed"}
    BY <1>6 DEF TunnelInv, NotBegun, NewConn
  <2> QED BY <1>2, <1>6, <1>7, <1>8, <2>1, ZenonT(40) DEF TunnelInv, NotBegun, LinksAlive
<1>11. ToTarget'
  <2>1. /\ Asked' = Asked /\ Payload' = Payload /\ Passed' = Passed /\ Taken' = Taken /\ Written' = Written
    BY <1>2, <1>7, <1>8 DEF Asked, Payload, Passed, Taken, Written
  <2>2. AskedEnd' = AskedEnd
    BY <1>7, <1>8, <2>1 DEF AskedEnd
  <2> QED BY <1>2, <1>7, <1>8, <2>1, <2>2 DEF TunnelInv, ToTarget
<1>12. ToApp(m)'
  <2>1. Told(m)' = Told(m) /\ ToldHead' = ToldHead /\ Read' = Read
    BY <1>2, <1>8 DEF Told, ToldHead, Answer, Reply, Refused, Read
  <2>2. CASE con["p"].user
    <3>1. /\ InRow(con["s"].recv, wire["p"], con["p"].out, Told(m), Read)
          /\ InRow(con["t"].recv, w, <<>>, Told(m), ToldEnd)
          /\ RowEnd(con["t"].recv, w, <<>>, ToldEnd) = ToldHead + target.wrote
      BY <1>1, <1>2, <2>2 DEF ToApp, w
    <3>2. /\ InRow(r, g, <<>>, Told(m), ToldEnd)
          /\ RowEnd(r, g, <<>>, ToldEnd) = ToldHead + target.wrote
      <4> DEFINE x == wire["target"]
                 e == ToldHead + target.wrote
      <4>1. /\ Told(m) \in Stream /\ ToldEnd \in Nat /\ con["t"].recv \in Stream /\ x \in Stream
            /\ <<>> \in Stream /\ n \in 1..Len(x)
        BY <1>3 DEF w
      <4>2. InRow(con["t"].recv, x, <<>>, Told(m), ToldEnd) /\ RowEnd(con["t"].recv, x, <<>>, ToldEnd) = e
        BY <3>1 DEF w
      <4> HIDE DEF x, e
      <4>3. /\ InRow(con["t"].recv \o SubSeq(x, 1, n), SubSeq(x, n + 1, Len(x)), <<>>, Told(m), ToldEnd)
            /\ RowEnd(con["t"].recv \o SubSeq(x, 1, n), SubSeq(x, n + 1, Len(x)), <<>>, ToldEnd)
                 = RowEnd(con["t"].recv, x, <<>>, ToldEnd)
        BY <4>1, <4>2, RowTake
      <4>4. r = con["t"].recv \o SubSeq(x, 1, n) /\ g = SubSeq(x, n + 1, Len(x))
        BY DEF r, g, w, x
      <4> QED BY <4>2, <4>3, <4>4 DEF e
    <3>3. /\ Piece(r, Told(m), RowEnd(con["s"].recv, wire["p"], con["p"].out, Read))
          /\ ToldEnd = RowEnd(con["s"].recv, wire["p"], con["p"].out, Read)
      BY <3>2 DEF InRow, ToldEnd
    <3>4. /\ InRow(con["s"].recv, wire["p"], con["p"].out \o r, Told(m), Read)
          /\ RowEnd(con["s"].recv, wire["p"], con["p"].out \o r, Read) = ToldEnd + Len(r)
      <4>1. /\ con["s"].recv \in Stream /\ wire["p"] \in Stream /\ con["p"].out \in Stream
            /\ Told(m) \in Stream /\ Read \in Nat /\ r \in Stream
        BY <1>3, <1>4
      <4>2. /\ InRow(con["s"].recv, wire["p"], con["p"].out \o r, Told(m), Read)
            /\ RowEnd(con["s"].recv, wire["p"], con["p"].out \o r, Read)
                 = RowEnd(con["s"].recv, wire["p"], con["p"].out, Read) + Len(r)
        BY <3>1, <3>3, <4>1, RowWrite
      <4> QED BY <3>3, <4>2
    <3>5. ToldEnd' = ToldEnd + Len(r) /\ Len(r) \in Nat
      <4>1. ToldEnd' = ToldEnd + Len(r)
        BY <1>7, <1>8, <2>1, <2>2, <3>4 DEF ToldEnd
      <4> QED BY <1>4, <4>1 DEF Stream
    <3>6. /\ InRow(<<>>, g, <<>>, Told(m), ToldEnd + Len(r))
          /\ RowEnd(<<>>, g, <<>>, ToldEnd + Len(r)) = ToldHead + target.wrote
      BY <1>3, <1>4, <3>2, RowEmpty, SMTT(30)
    <3>7. ToldEnd + Len(r) <= ToldHead + target.wrote
      <4>1. Len(g) \in Nat /\ Len(<<>>) = 0
        BY <1>4 DEF Stream
      <4> QED BY <1>3, <3>5, <3>6, <4>1 DEF RowEnd
    <3>8. /\ InRow(con["s"].recv, wire["p"], con["p"].out, Told(m), Read)'
          /\ ToldEnd' <= (ToldHead + target.wrote)'
          /\ InRow(con["t"].recv, wire["target"], <<>>, Told(m), ToldEnd)'
          /\ RowEnd(con["t"].recv, wire["target"], <<>>, ToldEnd)' = (ToldHead + target.wrote)'
      BY <1>2, <1>7, <1>8, <2>1, <2>2, <3>4, <3>5, <3>6, <3>7
    <3>9. (Piece(app.recv, Told(m), ToldHead) /\ Len(app.recv) <= target.wrote)'
      BY <1>1, <1>2, <2>1 DEF ToApp
    <3> QED BY <1>6, <1>8, <3>8, <3>9 DEF ToApp
  <2>3. CASE ~ con["p"].user
    <3>1. ToldEnd' = ToldEnd
      BY <1>7, <1>8, <2>1, <2>3 DEF ToldEnd
    <3> QED BY <1>1, <1>2, <1>6, <1>7, <1>8, <2>1, <2>3, <3>1 DEF ToApp
  <2> QED BY <2>2, <2>3
<1> QED BY <1>2, <1>9, <1>10, <1>11, <1>12 DEF TunnelInv

(* The client's handler: what each part of it makes of the rows, u being   *)
(* what is still under way to the client.                                  *)
ClientState ==
  [con : [Conns -> Connection],
   app : [open : BOOLEAN, sac : BOOLEAN, wrote : 0..Len(AppText), recv : Stream],
   data : [tmp : Stream, c : BOOLEAN, s : BOOLEAN, freed : BOOLEAN]]
ClientShape(w) ==
  /\ w \in ClientState
  /\ w.con["p"] = con["p"] /\ w.con["t"] = con["t"] /\ w.con["s"].state = "open"
  /\ w.con["s"].connect => w.con["s"].handshake
  /\ w.app.wrote = app.wrote /\ ~ w.data.freed /\ w.data.s = w.data.c
  /\ ~ w.con["s"].connect => w.app.recv = <<>>
WrittenBy(w) ==
  IF ~ w.con["s"].handshake THEN Len(greeting)
  ELSE IF ~ w.con["s"].connect THEN Payload ELSE Payload + app.wrote
ClientAsks(w) ==
  /\ ~ con["p"].connect \/ con["p"].user =>
       /\ InRow(con["p"].recv, wire["s"], w.con["s"].out, Asked, Taken)
       /\ RowEnd(con["p"].recv, wire["s"], w.con["s"].out, Taken) <= WrittenBy(w)
       /\ (w.con["s"].connect => w.data.s) =>
            RowEnd(con["p"].recv, wire["s"], w.con["s"].out, Taken) = WrittenBy(w)
  /\ w.data.s => w.data.tmp = IF w.con["s"].connect THEN <<>> ELSE SubSeq(AppText, 1, app.wrote)
ReadBy(w) ==
  IF ~ w.con["s"].handshake THEN 0 ELSE IF ~ w.con["s"].connect THEN 2 ELSE ToldHead + Len(w.app.recv)
ClientHears(w, u, m) ==
  /\ Piece(w.app.recv, Told(m), ToldHead) /\ Len(w.app.recv) <= target.wrote
  /\ InRow(w.con["s"].recv, u, con["p"].out, Told(m), ReadBy(w))
  /\ RowEnd(w.con["s"].recv, u, con["p"].out, ReadBy(w)) = ToldEnd
ClientRows(w, u, m) == ClientShape(w) /\ ClientAsks(w) /\ ClientHears(w, u, m)

LEMMA ClientDisband ==
  ASSUME NEW w, NEW u, NEW m, ClientRows(w, u, m)
  PROVE  ClientRows(socks_if_disband(w), u, m) /\ ~ socks_if_disband(w).data.s
<1> DEFINE v == socks_if_disband(w)
<1>1. /\ w.con \in [Conns -> Connection]
      /\ w.app \in [open : BOOLEAN, sac : BOOLEAN, wrote : 0..Len(AppText), recv : Stream]
      /\ w.data \in [tmp : Stream, c : BOOLEAN, s : BOOLEAN, freed : BOOLEAN]
  BY DEF ClientRows, ClientShape, ClientState
<1> DEFINE a == IF w.data.c THEN [w.app EXCEPT !.sac = TRUE] ELSE w.app
           d == [w.data EXCEPT !.c = FALSE, !.s = FALSE]
           s == [w.con["s"] EXCEPT !.sac = TRUE]
           k == IF w.data.s THEN [w.con EXCEPT !["s"].sac = TRUE] ELSE w.con
<1>2. v = [con |-> k, app |-> a, data |-> d]
  BY DEF socks_if_disband, Client
<1>3. /\ a \in [open : BOOLEAN, sac : BOOLEAN, wrote : 0..Len(AppText), recv : Stream]
      /\ a.wrote = w.app.wrote /\ a.recv = w.app.recv
  BY <1>1
<1>4. /\ d \in [tmp : Stream, c : BOOLEAN, s : BOOLEAN, freed : BOOLEAN]
      /\ ~ d.c /\ ~ d.s /\ d.freed = w.data.freed
  BY <1>1
<1>5. /\ k \in [Conns -> Connection] /\ k["p"] = w.con["p"] /\ k["t"] = w.con["t"]
      /\ k["s"].state = w.con["s"].state /\ k["s"].recv = w.con["s"].recv /\ k["s"].out = w.con["s"].out
      /\ k["s"].handshake = w.con["s"].handshake /\ k["s"].connect = w.con["s"].connect
  <2>1. /\ s \in Connection
        /\ s.state = w.con["s"].state /\ s.recv = w.con["s"].recv /\ s.out = w.con["s"].out
        /\ s.handshake = w.con["s"].handshake /\ s.connect = w.con["s"].connect
    BY <1>1 DEF Conns, Connection
  <2>2. k = w.con \/ k = [w.con EXCEPT !["s"] = s]
    BY <1>1
  <2> HIDE DEF s, k
  <2>3. "s" \in Conns /\ "p" \in Conns /\ "t" \in Conns
    BY DEF Conns
  <2> QED BY <1>1, <2>1, <2>2, <2>3
<1> HIDE DEF a, d, s, k
<1>6. v.con = k /\ v.app = a /\ v.data = d /\ v \in ClientState
  BY <1>2, <1>3, <1>4, <1>5 DEF ClientState
<1> HIDE DEF v
<1>7. ClientShape(v)
  BY <1>3, <1>4, <1>5, <1>6 DEF ClientRows, ClientShape
<1>8. WrittenBy(v) = WrittenBy(w) /\ ReadBy(v) = ReadBy(w)
  BY <1>3, <1>5, <1>6 DEF WrittenBy, ReadBy
<1>9. ClientAsks(v)
  BY <1>3, <1>4, <1>5, <1>6, <1>8 DEF ClientRows, ClientAsks
<1>10. ClientHears(v, u, m)
  BY <1>3, <1>5, <1>6, <1>8 DEF ClientRows, ClientHears
<1> QED BY <1>4, <1>6, <1>7, <1>9, <1>10 DEF ClientRows, v

LEMMA ClientHandshake ==
  ASSUME TypeOK, NEW w, NEW u \in Stream, NEW m \in 0..Len(request), ClientRows(w, u, m)
  PROVE  ClientRows(HandshakeReply(w), u, m)
<1> DEFINE s == w.con["s"]
<1>1. CASE s.handshake \/ Len(s.recv) < 2
  BY <1>1 DEF HandshakeReply
<1>2. CASE ~ (s.handshake \/ Len(s.recv) < 2) /\ s.recv[2] = Failure
  BY <1>2, ClientDisband DEF HandshakeReply
<1>3. CASE ~ (s.handshake \/ Len(s.recv) < 2) /\ s.recv[2] # Failure
  <2> DEFINE o == s.out \o request
             r == mbuf_remove(s.recv, 2)
             s2 == [s EXCEPT !.recv = r, !.handshake = TRUE, !.out = o]
             k == [w.con EXCEPT !["s"] = s2]
             v == HandshakeReply(w)
  <2>1. /\ w.con \in [Conns -> Connection] /\ w \in ClientState /\ s \in Connection
        /\ s.recv \in Stream /\ s.out \in Stream /\ w.app.recv \in Stream
    BY DEF ClientRows, ClientShape, ClientState, Conns, Connection
  <2>2. /\ request \in Stream /\ Asked \in Stream /\ Told(m) \in Stream /\ Payload \in Nat /\ Taken \in Nat
        /\ Len(greeting) \in Nat /\ Len(request) \in Nat /\ Payload = Len(greeting) + Len(request)
        /\ Piece(request, Asked, Len(greeting))
        /\ con["p"].recv \in Stream /\ con["p"].out \in Stream /\ wire["s"] \in Stream
    BY AskedIs, AskedPieces, ToldIs, Rows, Sizes DEF TypeOK
  <2>3. ~ s.connect /\ ~ s.handshake
    BY <1>3 DEF ClientRows, ClientShape
  <2>4. 2 \in 0..Len(s.recv)
    BY <1>3, <2>1 DEF Stream
  <2>5. /\ InRow(s.recv, u, con["p"].out, Told(m), 0)
        /\ RowEnd(s.recv, u, con["p"].out, 0) = ToldEnd
    BY <2>3 DEF ClientRows, ClientHears, ReadBy
  <2>6. v = [w EXCEPT !.con = k]
    BY <1>3, <2>1 DEF HandshakeReply, ClientState
  <2> HIDE DEF s
  <2>7. /\ r \in Stream /\ InRow(r, u, con["p"].out, Told(m), 2)
        /\ RowEnd(r, u, con["p"].out, 2) = ToldEnd
    <3>1. 0 + 2 = 2 /\ 0 \in Nat
      OBVIOUS
    <3>2. /\ r \in Stream /\ InRow(r, u, con["p"].out, Told(m), 0 + 2)
          /\ RowEnd(r, u, con["p"].out, 0 + 2) = ToldEnd
      <4>1. s.recv \in Stream /\ con["p"].out \in Stream /\ Told(m) \in Stream
        BY <2>1, <2>2
      <4>2. /\ r \in Stream /\ InRow(r, u, con["p"].out, Told(m), 0 + 2)
            /\ RowEnd(r, u, con["p"].out, 0 + 2) = RowEnd(s.recv, u, con["p"].out, 0)
        BY <2>4, <2>5, <3>1, <4>1, RowCut
      <4> QED BY <2>5, <4>2
    <3> QED BY <3>1, <3>2
  <2> HIDE DEF r
  <2>8. o \in Stream
    BY <2>1, <2>2 DEF Stream
  <2>9. ASSUME ~ con["p"].connect \/ con["p"].user
        PROVE  /\ InRow(con["p"].recv, wire["s"], o, Asked, Taken)
               /\ RowEnd(con["p"].recv, wire["s"], o, Taken) = Payload
    <3>1. /\ InRow(con["p"].recv, wire["s"], s.out, Asked, Taken)
          /\ RowEnd(con["p"].recv, wire["s"], s.out, Taken) = Len(greeting)
      BY <2>3, <2>9 DEF ClientRows, ClientAsks, WrittenBy, s
    <3>2. Piece(request, Asked, RowEnd(con["p"].recv, wire["s"], s.out, Taken))
      BY <2>2, <3>1
    <3>3. /\ con["p"].recv \in Stream /\ wire["s"] \in Stream /\ s.out \in Stream /\ request \in Stream
          /\ Asked \in Stream /\ Taken \in Nat
      BY <2>1, <2>2
    <3>4. /\ InRow(con["p"].recv, wire["s"], s.out \o request, Asked, Taken)
          /\ RowEnd(con["p"].recv, wire["s"], s.out \o request, Taken)
               = RowEnd(con["p"].recv, wire["s"], s.out, Taken) + Len(request)
      BY <3>1, <3>2, <3>3, RowWrite, SMTT(30)
    <3> QED BY <2>2, <3>1, <3>4
  <2> HIDE DEF o
  <2>10. /\ s2 \in Connection /\ s2.state = s.state /\ s2.recv = r /\ s2.out = o /\ s2.handshake
         /\ s2.connect = s.connect
    BY <2>1, <2>7, <2>8 DEF Connection
  <2> HIDE DEF s2
  <2>11. k \in [Conns -> Connection] /\ k["s"] = s2 /\ k["p"] = w.con["p"] /\ k["t"] = w.con["t"]
    BY <2>1, <2>10 DEF Conns
  <2> HIDE DEF k, v
  <2>12. v \in ClientState /\ v.con = k /\ v.app = w.app /\ v.data = w.data
    BY <2>1, <2>6, <2>11 DEF ClientState
  <2>13. ClientShape(v)
    BY <2>10, <2>11, <2>12 DEF ClientRows, ClientShape, s
  <2>14. WrittenBy(v) = Payload /\ ReadBy(v) = 2
    BY <2>3, <2>10, <2>11, <2>12 DEF WrittenBy, ReadBy
  <2>15. ClientAsks(v)
    <3>1. Payload <= Payload
      BY <2>2
    <3>2. v.data.s => v.data.tmp = SubSeq(AppText, 1, app.wrote)
      BY <2>3, <2>12 DEF ClientRows, ClientAsks, s
    <3>3. v.con["s"].out = o /\ ~ v.con["s"].connect
      BY <2>3, <2>10, <2>11, <2>12
    <3> QED BY <2>9, <2>14, <3>1, <3>2, <3>3 DEF ClientAsks
  <2>16. ClientHears(v, u, m)
    BY <2>7, <2>10, <2>11, <2>12, <2>14 DEF ClientRows, ClientHears
  <2> QED BY <2>13, <2>15, <2>16 DEF ClientRows, v
<1> QED BY <1>1, <1>2, <1>3

LEMMA ClientConnect ==
  ASSUME TypeOK, NEW w, NEW u \in Stream, NEW m \in 0..Len(request), ClientRows(w, u, m)
  PROVE  ClientRows(ConnectReply(w), u, m)
<1> DEFINE s == w.con["s"]
           R == Len(request)
<1>1. CASE ~ s.handshake \/ s.connect \/ Len(s.recv) < R
  BY <1>1 DEF ConnectReply
<1>2. CASE ~ (~ s.handshake \/ s.connect \/ Len(s.recv) < R) /\ s.recv[2] # Success
  BY <1>2, ClientDisband DEF ConnectReply
<1>3. CASE ~ (~ s.handshake \/ s.connect \/ Len(s.recv) < R) /\ s.recv[2] = Success
  <2> DEFINE r == mbuf_remove(s.recv, R)
             o == IF w.data.s THEN s.out \o w.data.tmp ELSE s.out
             s2 == [s EXCEPT !.recv = r, !.connect = TRUE, !.out = o]
             d == IF w.data.s THEN [w.data EXCEPT !.tmp = <<>>] ELSE w.data
             k == [w.con EXCEPT !["s"] = s2]
             v == ConnectReply(w)
  <2>1. /\ w.con \in [Conns -> Connection] /\ w \in ClientState /\ s \in Connection
        /\ s.recv \in Stream /\ s.out \in Stream /\ w.app.recv \in Stream /\ w.data.tmp \in Stream
        /\ w.data \in [tmp : Stream, c : BOOLEAN, s : BOOLEAN, freed : BOOLEAN]
        /\ w.data.s = w.data.c
    BY DEF ClientRows, ClientShape, ClientState, Conns, Connection
  <2>2. /\ Asked \in Stream /\ Told(m) \in Stream /\ Payload \in Nat /\ Taken \in Nat
        /\ R \in Nat /\ ToldHead = 2 + R /\ app.wrote \in 0..Len(AppText) /\ app.wrote \in Nat
        /\ SubSeq(AppText, 1, app.wrote) \in Stream /\ Len(SubSeq(AppText, 1, app.wrote)) = app.wrote
        /\ Piece(SubSeq(AppText, 1, app.wrote), Asked, Payload)
        /\ con["p"].recv \in Stream /\ con["p"].out \in Stream /\ wire["s"] \in Stream
    BY AskedIs, AskedPieces, ToldIs, Rows, Sizes DEF TypeOK
  <2>3. ~ s.connect /\ s.handshake /\ w.app.recv = <<>> /\ Len(w.app.recv) = 0
    BY <1>3 DEF ClientRows, ClientShape
  <2>4. R \in 0..Len(s.recv)
    BY <1>3, <2>1, <2>2, SMTT(30) DEF Stream
  <2>5. /\ InRow(s.recv, u, con["p"].out, Told(m), 2)
        /\ RowEnd(s.recv, u, con["p"].out, 2) = ToldEnd
    BY <2>3 DEF ClientRows, ClientHears, ReadBy
  <2>6. v = [con |-> k, app |-> w.app, data |-> d]
    <3> DEFINE s1 == [s EXCEPT !.recv = r, !.connect = TRUE]
               k1 == [w.con EXCEPT !["s"] = s1]
               v1 == [w EXCEPT !.con = k1]
    <3>1. [w EXCEPT !.con["s"] = [s EXCEPT !.recv = mbuf_remove(@, Len(request)), !.connect = TRUE]] = v1
      BY <2>1 DEF ClientState
    <3> HIDE DEF r
    <3>2. v1.con["s"] = s1 /\ v1.con = k1 /\ v1.data = w.data /\ s1.out = s.out
      BY <2>1 DEF ClientState, Conns, Connection
    <3>3. v = Moved(v1)
      BY <1>3, <3>1 DEF ConnectReply, r
    <3>4. CASE w.data.s
      <4>1. v = [v1 EXCEPT !.con["s"].out = @ \o w.data.tmp, !.data.tmp = <<>>]
        BY <2>1, <3>2, <3>3, <3>4 DEF Moved
      <4>2. s2 = [s1 EXCEPT !.out = @ \o w.data.tmp]
        <5> HIDE DEF s
        <5> QED BY <2>1, <3>4 DEF Connection
      <4>3. k1["s"] = s1 /\ k = [k1 EXCEPT !["s"].out = @ \o w.data.tmp]
        <5> HIDE DEF s1, s2
        <5>1. "s" \in Conns
          BY DEF Conns
        <5> QED BY <2>1, <4>2, <5>1
      <4> HIDE DEF k1, k, s1, s2
      <4>4. v1 = [con |-> k1, app |-> w.app, data |-> w.data]
        BY <2>1 DEF ClientState
      <4> HIDE DEF v1
      <4>5. v = [con |-> k, app |-> w.app, data |-> [w.data EXCEPT !.tmp = <<>>]]
        BY <4>1, <4>3, <4>4
      <4>6. d = [w.data EXCEPT !.tmp = <<>>]
        BY <3>4
      <4> HIDE DEF d
      <4> QED BY <4>5, <4>6
    <3>5. CASE ~ w.data.s
      <4>1. v = v1
        BY <3>2, <3>3, <3>5 DEF Moved
      <4>2. s2 = s1
        BY <2>1, <3>5 DEF Connection
      <4>3. k1 = k /\ d = w.data
        BY <3>5, <4>2
      <4> HIDE DEF k1, k, s1, s2, d
      <4>4. v1 = [con |-> k1, app |-> w.app, data |-> w.data]
        BY <2>1 DEF ClientState
      <4> QED BY <4>1, <4>3, <4>4
    <3> QED BY <3>4, <3>5
  <2> HIDE DEF s
  <2>7. /\ r \in Stream /\ InRow(r, u, con["p"].out, Told(m), ToldHead)
        /\ RowEnd(r, u, con["p"].out, ToldHead) = ToldEnd
    <3>1. s.recv \in Stream /\ con["p"].out \in Stream /\ Told(m) \in Stream /\ 2 \in Nat
      BY <2>1, <2>2
    <3> HIDE DEF R
    <3>2. /\ r \in Stream /\ InRow(r, u, con["p"].out, Told(m), 2 + R)
          /\ RowEnd(r, u, con["p"].out, 2 + R) = RowEnd(s.recv, u, con["p"].out, 2)
      BY <2>4, <2>5, <3>1, RowCut
    <3> QED BY <2>2, <2>5, <3>2
  <2> HIDE DEF r, R
  <2>8. o \in Stream
    <3>1. s.out \o w.data.tmp \in Stream
      BY <2>1 DEF Stream
    <3> QED BY <2>1, <3>1
  <2>9. ASSUME ~ con["p"].connect \/ con["p"].user
        PROVE  /\ InRow(con["p"].recv, wire["s"], o, Asked, Taken)
               /\ RowEnd(con["p"].recv, wire["s"], o, Taken)
                    = IF w.data.s THEN Payload + app.wrote ELSE Payload
    <3>1. /\ InRow(con["p"].recv, wire["s"], s.out, Asked, Taken)
          /\ RowEnd(con["p"].recv, wire["s"], s.out, Taken) = Payload
      BY <2>3, <2>9 DEF ClientRows, ClientAsks, WrittenBy, s
    <3>2. CASE w.data.s
      <4> DEFINE b == SubSeq(AppText, 1, app.wrote)
      <4>1. w.data.tmp = b
        BY <2>3, <3>2 DEF ClientRows, ClientAsks, s
      <4>2. b \in Stream /\ Len(b) = app.wrote /\ Piece(b, Asked, RowEnd(con["p"].recv, wire["s"], s.out, Taken))
        BY <2>2, <3>1
      <4> HIDE DEF b
      <4>3. /\ con["p"].recv \in Stream /\ wire["s"] \in Stream /\ s.out \in Stream
            /\ Asked \in Stream /\ Taken \in Nat
        BY <2>1, <2>2
      <4>4. /\ InRow(con["p"].recv, wire["s"], s.out \o b, Asked, Taken)
            /\ RowEnd(con["p"].recv, wire["s"], s.out \o b, Taken)
                 = RowEnd(con["p"].recv, wire["s"], s.out, Taken) + Len(b)
        BY <3>1, <4>2, <4>3, RowWrite, SMTT(30)
      <4> QED BY <3>1, <3>2, <4>1, <4>2, <4>4
    <3>3. CASE ~ w.data.s
      BY <3>1, <3>3
    <3> QED BY <3>2, <3>3
  <2> HIDE DEF o
  <2>10. /\ s2 \in Connection /\ s2.state = s.state /\ s2.recv = r /\ s2.out = o
         /\ s2.handshake = s.handshake /\ s2.connect
    BY <2>1, <2>7, <2>8 DEF Connection
  <2> HIDE DEF s2
  <2>11. k \in [Conns -> Connection] /\ k["s"] = s2 /\ k["p"] = w.con["p"] /\ k["t"] = w.con["t"]
    BY <2>1, <2>10 DEF Conns
  <2>12. /\ d \in [tmp : Stream, c : BOOLEAN, s : BOOLEAN, freed : BOOLEAN]
         /\ d.s = w.data.s /\ d.c = w.data.c /\ d.freed = w.data.freed
         /\ w.data.s => d.tmp = <<>>
    <3>1. <<>> \in Stream
      BY DEF Stream
    <3> QED BY <2>1, <3>1
  <2> HIDE DEF k, v, d
  <2>13. v \in ClientState /\ v.con = k /\ v.app = w.app /\ v.data = d
    BY <2>1, <2>6, <2>11, <2>12 DEF ClientState
  <2>14. ClientShape(v)
    BY <2>3, <2>10, <2>11, <2>12, <2>13 DEF ClientRows, ClientShape, s
  <2>15. WrittenBy(v) = Payload + app.wrote /\ ReadBy(v) = ToldHead
    <3>1. ToldHead + 0 = ToldHead
      BY <2>2
    <3> QED BY <2>3, <2>10, <2>11, <2>13, <3>1 DEF WrittenBy, ReadBy
  <2>16. ClientAsks(v)
    <3>1. Payload + app.wrote <= Payload + app.wrote /\ Payload <= Payload + app.wrote
      BY <2>2
    <3>2. v.con["s"].out = o /\ v.con["s"].connect /\ v.data.s = w.data.s
      BY <2>10, <2>11, <2>12, <2>13
    <3> QED BY <2>9, <2>12, <2>13, <2>15, <3>1, <3>2 DEF ClientAsks
  <2>17. ClientHears(v, u, m)
    BY <2>7, <2>10, <2>11, <2>13, <2>15 DEF ClientRows, ClientHears
  <2> QED BY <2>14, <2>16, <2>17 DEF ClientRows, v
<1> QED BY <1>1, <1>2, <1>3

LEMMA ClientRelay ==
  ASSUME TypeOK, NEW w, NEW u \in Stream, NEW m \in 0..Len(request), ClientRows(w, u, m),
         ToldEnd <= ToldHead + target.wrote
  PROVE  ClientRows(RelayToApp(w), u, m)
<1> DEFINE s == w.con["s"]
<1>1. CASE ~ (s.connect /\ w.data.c /\ w.data.s)
  BY <1>1 DEF RelayToApp
<1>2. CASE s.connect /\ w.data.c /\ w.data.s
  <2> DEFINE r == w.app.recv \o s.recv
             s2 == [s EXCEPT !.recv = <<>>]
             a == [w.app EXCEPT !.recv = r]
             k == [w.con EXCEPT !["s"] = s2]
             v == RelayToApp(w)
  <2>1. /\ w.con \in [Conns -> Connection] /\ w \in ClientState /\ s \in Connection
        /\ s.recv \in Stream /\ s.out \in Stream /\ w.app.recv \in Stream
        /\ w.app \in [open : BOOLEAN, sac : BOOLEAN, wrote : 0..Len(AppText), recv : Stream]
        /\ <<>> \in Stream /\ Len(<<>>) = 0
    BY DEF ClientRows, ClientShape, ClientState, Conns, Connection, Stream
  <2>2. /\ Told(m) \in Stream /\ ToldHead \in Nat /\ con["p"].out \in Stream /\ target.wrote \in Nat
        /\ ToldEnd \in Nat
    BY ToldIs, Rows, Sizes DEF TypeOK
  <2>3. v = [w EXCEPT !.con = k, !.app = a]
    BY <1>2, <2>1 DEF RelayToApp, ClientState
  <2>4. ReadBy(w) = ToldHead + Len(w.app.recv) /\ s.handshake
    BY <1>2 DEF ReadBy, ClientRows, ClientShape
  <2> HIDE DEF s
  <2>5. /\ Piece(w.app.recv, Told(m), ToldHead)
        /\ InRow(s.recv, u, con["p"].out, Told(m), ToldHead + Len(w.app.recv))
        /\ RowEnd(s.recv, u, con["p"].out, ToldHead + Len(w.app.recv)) = ToldEnd
    BY <2>4 DEF ClientRows, ClientHears, s
  <2>6. r \in Stream /\ Len(r) = Len(w.app.recv) + Len(s.recv) /\ Piece(r, Told(m), ToldHead)
    <3>1. Piece(s.recv, Told(m), ToldHead + Len(w.app.recv))
      BY <2>5 DEF InRow
    <3> QED BY <2>1, <2>2, <2>5, <3>1, PieceJoin
  <2>7. Len(w.app.recv) \in Nat /\ Len(s.recv) \in Nat /\ Len(u) \in Nat /\ Len(con["p"].out) \in Nat
        /\ Len(r) \in Nat
    <3> HIDE DEF r
    <3> QED BY <2>1, <2>2, <2>6, LenNat
  <2> HIDE DEF r
  <2>8. /\ InRow(<<>>, u, con["p"].out, Told(m), ToldHead + Len(r))
        /\ RowEnd(<<>>, u, con["p"].out, ToldHead + Len(r)) = ToldEnd
    <3> DEFINE i == ToldHead + Len(w.app.recv)
    <3>1. i \in Nat /\ i + Len(s.recv) = ToldHead + Len(r)
      <4> DEFINE x == Len(w.app.recv)
                 y == Len(s.recv)
                 z == Len(r)
      <4>1. x \in Nat /\ y \in Nat /\ z = x + y /\ ToldHead \in Nat
        BY <2>2, <2>6, <2>7
      <4> HIDE DEF x, y, z
      <4>2. ToldHead + x \in Nat /\ ToldHead + x + y = ToldHead + z
        BY <4>1
      <4> QED BY <4>2 DEF x, y, z
    <3>2. InRow(s.recv, u, con["p"].out, Told(m), i) /\ RowEnd(s.recv, u, con["p"].out, i) = ToldEnd
      BY <2>5
    <3> HIDE DEF i
    <3>3. /\ InRow(<<>>, u, con["p"].out, Told(m), i + Len(s.recv))
          /\ RowEnd(<<>>, u, con["p"].out, i + Len(s.recv)) = RowEnd(s.recv, u, con["p"].out, i)
      <4> DEFINE T == Told(m)
                 sr == s.recv
                 po == con["p"].out
      <4>1. T \in Stream /\ sr \in Stream /\ po \in Stream /\ u \in Stream /\ i \in Nat
        BY <2>1, <2>2, <3>1
      <4>2. InRow(sr, u, po, T, i)
        BY <3>2
      <4> HIDE DEF T, sr, po
      <4>3. /\ InRow(<<>>, u, po, T, i + Len(sr))
            /\ RowEnd(<<>>, u, po, i + Len(sr)) = RowEnd(sr, u, po, i)
        BY <4>1, <4>2, RowEmpty
      <4> QED BY <4>3 DEF T, sr, po
    <3> QED BY <3>1, <3>2, <3>3
  <2>9. Len(r) <= target.wrote
    <3>2. ToldHead + Len(r) + 0 + Len(u) + Len(con["p"].out) = ToldEnd
      BY <2>1, <2>8 DEF RowEnd
    <3> DEFINE x == Len(u)
               y == Len(con["p"].out)
               z == Len(r)
    <3>3. x \in Nat /\ y \in Nat /\ z \in Nat /\ ToldHead \in Nat /\ ToldHead + z + 0 + x + y = ToldEnd
          /\ target.wrote \in Nat /\ ToldEnd <= ToldHead + target.wrote
      BY <2>2, <2>7, <3>2
    <3> HIDE DEF x, y, z
    <3>4. z <= target.wrote
      BY <3>3
    <3> QED BY <3>4 DEF z
  <2>10. /\ s2 \in Connection /\ s2.state = s.state /\ s2.recv = <<>> /\ s2.out = s.out
         /\ s2.handshake = s.handshake /\ s2.connect = s.connect
    BY <2>1 DEF Connection
  <2> HIDE DEF s2
  <2>11. k \in [Conns -> Connection] /\ k["s"] = s2 /\ k["p"] = w.con["p"] /\ k["t"] = w.con["t"]
    BY <2>1, <2>10 DEF Conns
  <2>12. /\ a \in [open : BOOLEAN, sac : BOOLEAN, wrote : 0..Len(AppText), recv : Stream]
         /\ a.wrote = w.app.wrote /\ a.recv = r
    BY <2>1, <2>6
  <2> HIDE DEF k, v, a
  <2>13. v \in ClientState /\ v.con = k /\ v.app = a /\ v.data = w.data
    BY <2>1, <2>3, <2>11, <2>12 DEF ClientState
  <2>14. s.connect
    BY <1>2 DEF s
  <2>15. ClientShape(v)
    BY <2>10, <2>11, <2>12, <2>13, <2>14 DEF ClientRows, ClientShape, s
  <2>16. WrittenBy(v) = WrittenBy(w) /\ ReadBy(v) = ToldHead + Len(r)
    BY <2>4, <2>10, <2>11, <2>12, <2>13, <2>14 DEF WrittenBy, ReadBy, s
  <2>17. ClientAsks(v)
    BY <2>10, <2>11, <2>13, <2>16 DEF ClientRows, ClientAsks, s
  <2>18. ClientHears(v, u, m)
    BY <2>6, <2>8, <2>9, <2>10, <2>11, <2>12, <2>13, <2>16 DEF ClientHears
  <2> QED BY <2>15, <2>17, <2>18 DEF ClientRows, v
<1> QED BY <1>1, <1>2

LEMMA ClientHandles ==
  ASSUME TypeOK, NEW w, NEW u \in Stream, NEW m \in 0..Len(request), ClientRows(w, u, m),
         ToldEnd <= ToldHead + target.wrote
  PROVE  ClientRows(socks_if_handler(w), u, m)
<1> DEFINE one == HandshakeReply(w)
           two == ConnectReply(one)
<1>1. ClientRows(one, u, m)
  BY ClientHandshake
<1>2. ClientRows(two, u, m)
  BY <1>1, ClientConnect
<1>3. ClientRows(RelayToApp(two), u, m)
  BY <1>2, ClientRelay
<1>4. socks_if_handler(w) \in {one, two, RelayToApp(two)}
  BY DEF socks_if_handler
<1> QED BY <1>1, <1>2, <1>3, <1>4

LEMMA ReceiveClientInv ==
  ASSUME TunnelInv, NEW n \in 1..Len(wire["p"]), Receive("s", n)
  PROVE  TunnelInv'
<1>1. PICK m \in 0..Len(request) : ToApp(m)
  BY DEF TunnelInv
<1> DEFINE x == wire["p"]
           r == con["s"].recv \o SubSeq(x, 1, n)
           u == SubSeq(x, n + 1, Len(x))
           s == [con["s"] EXCEPT !.recv = r]
           cn == [con EXCEPT !["s"] = s]
           w == Client(cn, app, data)
           v == socks_if_handler(w)
<1>2. /\ wire' = [wire EXCEPT !["p"] = u] /\ UNCHANGED <<greeting, request, target>>
      /\ con["s"].state = "open" /\ ~ wild
      /\ data.freed => wild' = TRUE /\ UNCHANGED <<con, app, data>>
      /\ ~ data.freed => con' = v.con /\ app' = v.app /\ data' = v.data /\ UNCHANGED wild
  <2>1. Peer("s") = "p"
    BY DEF Peer
  <2>2. [con EXCEPT !["s"].recv = @ \o SubSeq(wire[Peer("s")], 1, n)] = cn
    BY <2>1 DEF TunnelInv, TypeOK, Conns
  <2> HIDE DEF cn
  <2> QED BY <2>1, <2>2 DEF Receive, Live, Become
<1>3. /\ Told(m) \in Stream /\ x \in Stream /\ con["s"].recv \in Stream
      /\ con["s"].recv \in Stream /\ con["p"].out \in Stream
      /\ ToldEnd \in Nat /\ ToldHead \in Nat /\ target.wrote \in Nat /\ Read \in Nat
  BY ToldIs, Rows, Sizes DEF TunnelInv, TypeOK
<1>4. /\ InRow(con["s"].recv, x, con["p"].out, Told(m), Read)
      /\ RowEnd(con["s"].recv, x, con["p"].out, Read) = ToldEnd
      /\ ToldEnd <= ToldHead + target.wrote
  BY <1>1, <1>2 DEF ToApp, ToldEnd
<1> HIDE DEF x
<1>5. /\ r \in Stream /\ u \in Stream /\ InRow(r, u, con["p"].out, Told(m), Read)
      /\ RowEnd(r, u, con["p"].out, Read) = ToldEnd
  <2>1. n \in 1..Len(x)
    BY DEF x
  <2>2. /\ r \in Stream /\ u \in Stream /\ InRow(r, u, con["p"].out, Told(m), Read)
        /\ RowEnd(r, u, con["p"].out, Read) = RowEnd(con["s"].recv, x, con["p"].out, Read)
    BY <1>3, <1>4, <2>1, RowTake, SMTT(30)
  <2> QED BY <1>4, <2>2
<1> HIDE DEF r, u
<1>6. /\ s \in Connection /\ s.state = "open" /\ s.recv = r /\ s.out = con["s"].out
      /\ s.handshake = con["s"].handshake /\ s.connect = con["s"].connect
  BY <1>2, <1>5 DEF TunnelInv, TypeOK, Conns, Connection
<1> HIDE DEF s
<1>7. cn \in [Conns -> Connection] /\ cn["s"] = s /\ cn["p"] = con["p"] /\ cn["t"] = con["t"]
  BY <1>6 DEF TunnelInv, TypeOK, Conns
<1>8. /\ wire'["p"] = u /\ wire'["s"] = wire["s"] /\ wire'["t"] = wire["t"] /\ wire'["target"] = wire["target"]
      /\ wire' \in [Conns \cup {"target"} -> Stream]
  BY <1>2, <1>5 DEF TunnelInv, TypeOK, Conns
<1> HIDE DEF cn
<1>9. CASE data.freed
  <2>1. /\ Asked' = Asked /\ Payload' = Payload /\ Passed' = Passed /\ Taken' = Taken /\ Written' = Written
        /\ Told(m)' = Told(m) /\ ToldHead' = ToldHead
    BY <1>2, <1>8, <1>9 DEF Asked, Payload, Passed, Taken, Written, Told, ToldHead, Answer, Reply, Refused
  <2>2. AskedEnd' = AskedEnd
    BY <1>2, <1>8, <1>9, <2>1 DEF AskedEnd
  <2>3. TypeOK'
    BY <1>2, <1>8, <1>9 DEF TunnelInv, TypeOK
  <2>4. NotBegun' /\ LinksAlive' /\ (con["p"].user => con["p"].connect)'
    BY <1>2, <1>8, <1>9 DEF TunnelInv, NotBegun, LinksAlive
  <2>5. ToTarget'
    BY <1>2, <1>8, <1>9, <2>1, <2>2 DEF TunnelInv, ToTarget
  <2>6. ToApp(m)'
    BY <1>1, <1>2, <1>9, <2>1 DEF ToApp
  <2> QED BY <1>2, <2>3, <2>4, <2>5, <2>6 DEF TunnelInv
<1>10. CASE ~ data.freed
  <2>1. w.con = cn /\ w.app = app /\ w.data = data /\ w \in ClientState
    BY <1>7 DEF Client, ClientState, TunnelInv, TypeOK
  <2> HIDE DEF w
  <2>2. ClientRows(w, u, m)
    <3>1. ClientShape(w)
      BY <1>6, <1>7, <1>10, <2>1 DEF ClientShape, TunnelInv, NotBegun
    <3>2. WrittenBy(w) = Written /\ ReadBy(w) = Read
      BY <1>2, <1>6, <1>7, <2>1 DEF WrittenBy, ReadBy, Written, Read
    <3>3. ClientAsks(w)
      BY <1>2, <1>6, <1>7, <2>1, <3>2 DEF ClientAsks, TunnelInv, ToTarget, AskedEnd
    <3>4. ClientHears(w, u, m)
      BY <1>1, <1>5, <1>6, <1>7, <2>1, <3>2 DEF ClientHears, ToApp
    <3> QED BY <3>1, <3>3, <3>4 DEF ClientRows
  <2>3. ClientRows(v, u, m)
    BY <1>4, <1>5, <2>2, ClientHandles DEF TunnelInv
  <2> HIDE DEF v
  <2>4. /\ con' = v.con /\ app' = v.app /\ data' = v.data /\ wild' = wild
    BY <1>2, <1>10
  <2>5. /\ con' \in [Conns -> Connection] /\ con'["p"] = con["p"] /\ con'["t"] = con["t"]
        /\ con'["s"].state = "open" /\ app'.wrote = app.wrote /\ ~ data'.freed /\ data'.s = data'.c
        /\ (con'["s"].connect => con'["s"].handshake)
        /\ (~ con'["s"].connect => app'.recv = <<>>)
        /\ app' \in [open : BOOLEAN, sac : BOOLEAN, wrote : 0..Len(AppText), recv : Stream]
        /\ data' \in [tmp : Stream, c : BOOLEAN, s : BOOLEAN, freed : BOOLEAN]
    BY <2>3, <2>4 DEF ClientRows, ClientShape, ClientState
  <2>6. TypeOK'
    BY <1>2, <1>8, <2>4, <2>5 DEF TunnelInv, TypeOK
  <2>7. NotBegun' /\ LinksAlive' /\ (con["p"].user => con["p"].connect)'
    BY <1>2, <1>8, <2>5 DEF TunnelInv, NotBegun, LinksAlive
  <2>8. /\ Asked' = Asked /\ Payload' = Payload /\ Passed' = Passed /\ Taken' = Taken
        /\ Told(m)' = Told(m) /\ ToldHead' = ToldHead
    BY <1>2, <1>8, <2>5 DEF Asked, Payload, Passed, Taken, Told, ToldHead, Answer, Reply, Refused
  <2>9. Written' = WrittenBy(v) /\ Read' = ReadBy(v)
    BY <1>2, <2>4, <2>5, <2>8 DEF Written, WrittenBy, Read, ReadBy
  <2>10. /\ AskedEnd' = RowEnd(con["p"].recv, wire["s"], v.con["s"].out, Taken)
         /\ ToldEnd' = RowEnd(v.con["s"].recv, u, con["p"].out, ReadBy(v))
    BY <1>8, <2>4, <2>5, <2>8, <2>9 DEF AskedEnd, ToldEnd
  <2>11. ToTarget'
    <3>1. ClientAsks(v)
      BY <2>3 DEF ClientRows
    <3> QED BY <1>2, <1>8, <2>4, <2>5, <2>8, <2>9, <2>10, <3>1 DEF TunnelInv, ToTarget, ClientAsks
  <2>12. ToApp(m)'
    <3>1. ClientHears(v, u, m)
      BY <2>3 DEF ClientRows
    <3>2. ToldEnd' = ToldEnd
      BY <2>10, <3>1 DEF ClientHears
    <3> QED BY <1>1, <1>2, <1>8, <2>4, <2>5, <2>8, <2>9, <3>1, <3>2 DEF ToApp, ClientHears
  <2> QED BY <1>2, <2>6, <2>7, <2>11, <2>12 DEF TunnelInv
<1> QED BY <1>9, <1>10

(* The server's handler, likewise: before the request is answered, and     *)
(* after it.                                                               *)
ServerShape(cn) == cn \in [Conns -> Connection] /\ cn["s"] = con["s"] /\ cn["p"].state = "open"
HandshakeEnd(cn, whole) == IF cn["p"].handshake THEN whole ELSE 0
Waiting(cn, u, m) ==
  /\ ServerShape(cn) /\ ~ cn["p"].connect /\ ~ cn["p"].user /\ cn["t"] = con["t"]
  /\ InRow(cn["p"].recv, u, con["s"].out, Asked, HandshakeEnd(cn, Len(greeting)))
  /\ RowEnd(cn["p"].recv, u, con["s"].out, HandshakeEnd(cn, Len(greeting))) = AskedEnd
  /\ InRow(con["s"].recv, wire["p"], cn["p"].out, Told(m), Read)
  /\ RowEnd(con["s"].recv, wire["p"], cn["p"].out, Read) = HandshakeEnd(cn, 2)
PassedBy(cn) == RowEnd(target.recv, wire["t"], cn["t"].out, Payload)
ToldBy(cn) == RowEnd(con["s"].recv, wire["p"], cn["p"].out, Read)
Linked(cn, u, m) ==
  /\ ServerShape(cn) /\ cn["p"].connect /\ cn["p"].handshake
  /\ cn["p"].user = cn["t"].user /\ (cn["p"].user => cn["t"].state # "closed")
  /\ InRow(target.recv, wire["t"], cn["t"].out, Asked, Payload) /\ PassedBy(cn) <= Payload + app.wrote
  /\ cn["p"].user =>
       /\ ~ con["p"].connect \/ con["p"].user
       /\ InRow(cn["p"].recv, u, con["s"].out, Asked, PassedBy(cn))
       /\ RowEnd(cn["p"].recv, u, con["s"].out, PassedBy(cn)) = AskedEnd
  /\ Piece(app.recv, Told(m), ToldHead) /\ Len(app.recv) <= target.wrote
  /\ InRow(con["s"].recv, wire["p"], cn["p"].out, Told(m), Read) /\ ToldBy(cn) <= ToldHead + target.wrote
  /\ cn["p"].user =>
       /\ InRow(cn["t"].recv, wire["target"], <<>>, Told(m), ToldBy(cn))
       /\ RowEnd(cn["t"].recv, wire["target"], <<>>, ToldBy(cn)) = ToldHead + target.wrote

LEMMA ServerRelay ==
  ASSUME TunnelInv, NEW cn, NEW u \in Stream, NEW m, Linked(cn, u, m)
  PROVE  Linked(relay_data(cn, "p", "t"), u, m)
<1> DEFINE d == relay_data(cn, "p", "t")
           r == cn["p"].recv
<1>1. /\ cn \in [Conns -> Connection] /\ cn["p"] \in Connection /\ cn["t"] \in Connection
      /\ r \in Stream /\ cn["t"].out \in Stream /\ <<>> \in Stream /\ Len(<<>>) = 0
      /\ "p" \in Conns /\ "t" \in Conns /\ "s" \in Conns
  BY DEF Linked, ServerShape, Conns, Connection, Stream
<1>2. CASE ~ cn["p"].user
  <2> DEFINE p == [cn["p"] EXCEPT !.sac = TRUE]
  <2>1. d = [cn EXCEPT !["p"] = p]
    BY <1>1, <1>2 DEF relay_data
  <2>2. /\ p \in Connection /\ p.state = cn["p"].state /\ p.recv = cn["p"].recv /\ p.out = cn["p"].out
        /\ p.handshake = cn["p"].handshake /\ p.connect = cn["p"].connect /\ p.user = cn["p"].user
    BY <1>1 DEF Connection
  <2> HIDE DEF p, d
  <2>3. d \in [Conns -> Connection] /\ d["p"] = p /\ d["t"] = cn["t"] /\ d["s"] = cn["s"]
    BY <1>1, <2>1, <2>2
  <2>4. PassedBy(d) = PassedBy(cn) /\ ToldBy(d) = ToldBy(cn)
    BY <2>2, <2>3 DEF PassedBy, ToldBy
  <2>5. Linked(d, u, m)
    BY <1>2, <2>2, <2>3, <2>4 DEF Linked, ServerShape
  <2> QED BY <2>5 DEF d
<1>3. CASE cn["p"].user
  <2> DEFINE o == cn["t"].out \o r
             p == [cn["p"] EXCEPT !.recv = <<>>]
             t == [cn["t"] EXCEPT !.out = o]
  <2>1. d = [cn EXCEPT !["p"] = p, !["t"] = t]
    BY <1>1, <1>3 DEF relay_data
  <2>2. o \in Stream
    BY <1>1 DEF Stream
  <2> HIDE DEF r, o
  <2>3. /\ p \in Connection /\ p.state = cn["p"].state /\ p.recv = <<>> /\ p.out = cn["p"].out
        /\ p.handshake = cn["p"].handshake /\ p.connect = cn["p"].connect /\ p.user = cn["p"].user
    BY <1>1 DEF Connection
  <2>4. /\ t \in Connection /\ t.state = cn["t"].state /\ t.recv = cn["t"].recv /\ t.out = o
        /\ t.user = cn["t"].user
    BY <1>1, <2>2 DEF Connection
  <2> HIDE DEF p, t, d
  <2>5. d \in [Conns -> Connection] /\ d["p"] = p /\ d["t"] = t /\ d["s"] = cn["s"]
    BY <1>1, <2>1, <2>3, <2>4
  <2>6. ToldBy(d) = ToldBy(cn)
    BY <2>3, <2>5 DEF ToldBy
  <2>7. /\ Asked \in Stream /\ Payload \in Nat /\ target.recv \in Stream /\ wire["t"] \in Stream
        /\ con["s"].out \in Stream /\ app.wrote \in Nat /\ AskedEnd \in Nat /\ Written \in Nat
        /\ Len(greeting) \in Nat /\ Len(request) \in Nat /\ Payload = Len(greeting) + Len(request)
    BY AskedIs, Rows, Sizes DEF TunnelInv, TypeOK
  <2> DEFINE P == PassedBy(cn)
  <2>8. P \in Nat
    BY <1>1, <2>7, RowEndIs DEF PassedBy
  <2>9. /\ InRow(r, u, con["s"].out, Asked, P) /\ RowEnd(r, u, con["s"].out, P) = AskedEnd
        /\ InRow(target.recv, wire["t"], cn["t"].out, Asked, Payload)
        /\ ~ con["p"].connect \/ con["p"].user
    BY <1>3 DEF Linked, r
  <2>10. /\ InRow(target.recv, wire["t"], o, Asked, Payload)
         /\ RowEnd(target.recv, wire["t"], o, Payload) = P + Len(r)
    <3>1. Piece(r, Asked, RowEnd(target.recv, wire["t"], cn["t"].out, Payload))
      BY <2>9 DEF InRow, PassedBy
    <3>2. /\ Asked \in Stream /\ Payload \in Nat /\ target.recv \in Stream /\ wire["t"] \in Stream
          /\ cn["t"].out \in Stream /\ r \in Stream
      BY <1>1, <2>7
    <3>3. /\ InRow(target.recv, wire["t"], cn["t"].out \o r, Asked, Payload)
          /\ RowEnd(target.recv, wire["t"], cn["t"].out \o r, Payload)
               = RowEnd(target.recv, wire["t"], cn["t"].out, Payload) + Len(r)
      BY <2>9, <3>1, <3>2, RowWrite
    <3> QED BY <3>3 DEF o, PassedBy
  <2>11. PassedBy(d) = P + Len(r)
    BY <2>4, <2>5, <2>10 DEF PassedBy
  <2> HIDE DEF P
  <2>12. /\ InRow(<<>>, u, con["s"].out, Asked, P + Len(r))
         /\ RowEnd(<<>>, u, con["s"].out, P + Len(r)) = AskedEnd
    <3>1. /\ InRow(<<>>, u, con["s"].out, Asked, P + Len(r))
          /\ RowEnd(<<>>, u, con["s"].out, P + Len(r)) = RowEnd(r, u, con["s"].out, P)
      BY <1>1, <2>7, <2>8, <2>9, RowEmpty, SMTT(30)
    <3> QED BY <2>9, <3>1
  <2>13. P + Len(r) <= Payload + app.wrote
    <3>1. AskedEnd <= Written
      BY <2>9 DEF TunnelInv, ToTarget
    <3>2. Written <= Payload + app.wrote
      BY <2>7 DEF Written
    <3> DEFINE x == Len(r)
               y == Len(u)
               z == Len(con["s"].out)
    <3>3. x \in Nat /\ y \in Nat /\ z \in Nat
      BY <1>1, <2>7, LenNat
    <3>4. P + x + 0 + y + z = AskedEnd
      BY <1>1, <2>12 DEF RowEnd
    <3> HIDE DEF x, y, z
    <3>5. P + x <= Payload + app.wrote
      BY <2>7, <2>8, <3>1, <3>2, <3>3, <3>4
    <3> QED BY <3>5 DEF x
  <2>14. Linked(d, u, m)
    BY <1>3, <2>3, <2>4, <2>5, <2>6, <2>9, <2>10, <2>11, <2>12, <2>13 DEF Linked, ServerShape
  <2> QED BY <2>14 DEF d
<1> QED BY <1>2, <1>3

LEMMA ServerHandshake ==
  ASSUME TunnelInv, NEW cn, NEW u \in Stream, NEW m \in 0..Len(request), Waiting(cn, u, m), ~ cn["p"].handshake
  PROVE  Waiting([cn EXCEPT !["p"] = mg_socks5_handshake(@)], u, m)
<1> DEFINE p == cn["p"]
           r == p.recv
           G == Len(greeting)
           p2 == mg_socks5_handshake(p)
           d == [cn EXCEPT !["p"] = p2]
<1>1. /\ cn \in [Conns -> Connection] /\ p \in Connection
      /\ r \in Stream /\ p.out \in Stream /\ <<>> \in Stream
      /\ "p" \in Conns /\ "t" \in Conns /\ "s" \in Conns
  BY DEF Waiting, ServerShape, Conns, Connection, Stream
<1>2. /\ Asked \in Stream /\ Told(m) \in Stream /\ G \in Nat /\ Read \in Nat
      /\ con["s"].recv \in Stream /\ wire["p"] \in Stream /\ con["s"].out \in Stream
      /\ <<"v5", Reply>> \in Stream /\ Len(<<"v5", Reply>>) = 2 /\ Piece(<<"v5", Reply>>, Told(m), 0)
      /\ \A j \in 1..G : Asked[j] = greeting[j]
  BY AskedIs, ToldIs, Rows, Sizes DEF TunnelInv, TypeOK
<1>3. /\ InRow(r, u, con["s"].out, Asked, 0) /\ RowEnd(r, u, con["s"].out, 0) = AskedEnd
      /\ InRow(con["s"].recv, wire["p"], p.out, Told(m), Read)
      /\ RowEnd(con["s"].recv, wire["p"], p.out, Read) = 0
  BY DEF Waiting, HandshakeEnd
<1>4. CASE r[1] # "v5"
  <2> DEFINE q == [p EXCEPT !.sac = TRUE, !.out = <<>>]
  <2>1. p2 = q
    BY <1>4 DEF mg_socks5_handshake
  <2>2. /\ q \in Connection /\ q.state = p.state /\ q.recv = r /\ q.out = <<>>
        /\ q.handshake = p.handshake /\ q.connect = p.connect /\ q.user = p.user
    BY <1>1 DEF Connection
  <2>3. /\ InRow(con["s"].recv, wire["p"], <<>>, Told(m), Read)
        /\ RowEnd(con["s"].recv, wire["p"], <<>>, Read) <= 0
    <3>1. /\ InRow(con["s"].recv, wire["p"], <<>>, Told(m), Read)
          /\ RowEnd(con["s"].recv, wire["p"], <<>>, Read) <= RowEnd(con["s"].recv, wire["p"], p.out, Read)
      BY <1>1, <1>2, <1>3, RowDrop
    <3> QED BY <1>3, <3>1
  <2>4. RowEnd(con["s"].recv, wire["p"], <<>>, Read) = 0
    <3>1. RowEnd(con["s"].recv, wire["p"], <<>>, Read) \in Nat
      BY <1>1, <1>2, RowEndIs
    <3> QED BY <2>3, <3>1
  <2> HIDE DEF p, q, p2
  <2>5. d \in [Conns -> Connection] /\ d["p"] = q /\ d["t"] = cn["t"] /\ d["s"] = cn["s"]
    BY <1>1, <2>1, <2>2
  <2> HIDE DEF d
  <2>6. Waiting(d, u, m)
    BY <1>3, <2>2, <2>3, <2>4, <2>5 DEF Waiting, ServerShape, HandshakeEnd, p
  <2> QED BY <2>6 DEF d, p2, p
<1>5. CASE r[1] = "v5" /\ Len(r) < G
  <2>1. p2 = p
    BY <1>5 DEF mg_socks5_handshake
  <2>2. d = cn
    BY <1>1, <2>1
  <2> QED BY <2>2
<1>6. CASE r[1] = "v5" /\ ~ (Len(r) < G)
  <2> DEFINE a == <<"v5", Reply>>
             o == p.out \o a
             r2 == mbuf_remove(r, G)
             q == [p EXCEPT !.recv = r2, !.handshake = TRUE, !.out = o]
  <2>1. {r[i] : i \in 3..G} = {greeting[i] : i \in 3..G}
    <3>1. \A i \in 3..G : r[i] = greeting[i]
      <4>1. \A i \in 1..Len(r) : r[i] = Asked[0 + i]
        BY <1>3 DEF InRow, Piece
      <4>2. Len(r) \in Nat
        BY <1>1, LenNat
      <4> HIDE DEF r, G
      <4>3. ASSUME NEW i \in 3..G PROVE r[i] = greeting[i]
        <5>1. i \in 1..Len(r) /\ i \in 1..G /\ 0 + i = i
          BY <1>2, <1>6, <4>2
        <5> QED BY <1>2, <4>1, <5>1
      <4> QED BY <4>3
    <3> QED BY <3>1
  <2>2. p2 = q
    <3>1. (IF NoAuth \in {p.recv[i] : i \in 3..Len(greeting)} THEN NoAuth ELSE Failure) = Reply
      BY <2>1 DEF Reply
    <3> HIDE DEF a
    <3>2. a = <<"v5", IF NoAuth \in {p.recv[i] : i \in 3..Len(greeting)} THEN NoAuth ELSE Failure>>
      BY <3>1 DEF a
    <3> QED BY <1>6, <3>2 DEF mg_socks5_handshake
  <2> HIDE DEF a
  <2>3. a \in Stream /\ Len(a) = 2 /\ Piece(a, Told(m), 0)
    BY <1>2 DEF a
  <2>4. o \in Stream
    BY <1>1, <2>3 DEF Stream
  <2>5. /\ r2 \in Stream /\ InRow(r2, u, con["s"].out, Asked, G)
        /\ RowEnd(r2, u, con["s"].out, G) = AskedEnd
    <3>1. G \in 0..Len(r) /\ 0 \in Nat /\ 0 + G = G
      <4>1. Len(r) \in Nat
        BY <1>1, LenNat
      <4> HIDE DEF r, G
      <4> QED BY <1>2, <1>6, <4>1
    <3> HIDE DEF G, r
    <3>2. /\ r2 \in Stream /\ InRow(r2, u, con["s"].out, Asked, 0 + G)
          /\ RowEnd(r2, u, con["s"].out, 0 + G) = RowEnd(r, u, con["s"].out, 0)
      <4>1. r \in Stream /\ con["s"].out \in Stream /\ Asked \in Stream
        BY <1>1, <1>2
      <4>2. InRow(r, u, con["s"].out, Asked, 0)
        BY <1>3
      <4> QED BY <3>1, <4>1, <4>2, RowCut
    <3> QED BY <1>3, <3>1, <3>2
  <2>6. /\ InRow(con["s"].recv, wire["p"], o, Told(m), Read)
        /\ RowEnd(con["s"].recv, wire["p"], o, Read) = 2
    <3>1. Piece(a, Told(m), RowEnd(con["s"].recv, wire["p"], p.out, Read))
      BY <1>3, <2>3
    <3>2. /\ con["s"].recv \in Stream /\ wire["p"] \in Stream /\ p.out \in Stream /\ a \in Stream
          /\ Told(m) \in Stream /\ Read \in Nat
      BY <1>1, <1>2, <2>3
    <3> HIDE DEF p
    <3>3. /\ InRow(con["s"].recv, wire["p"], p.out \o a, Told(m), Read)
          /\ RowEnd(con["s"].recv, wire["p"], p.out \o a, Read)
               = RowEnd(con["s"].recv, wire["p"], p.out, Read) + Len(a)
      BY <1>3, <3>1, <3>2, RowWrite, SMTT(30)
    <3> QED BY <1>3, <2>3, <3>3
  <2> HIDE DEF r2, o
  <2>7. /\ q \in Connection /\ q.state = p.state /\ q.recv = r2 /\ q.out = o
        /\ q.handshake /\ q.connect = p.connect /\ q.user = p.user
    BY <1>1, <2>4, <2>5 DEF Connection
  <2> HIDE DEF p, q, p2
  <2>8. d \in [Conns -> Connection] /\ d["p"] = q /\ d["t"] = cn["t"] /\ d["s"] = cn["s"]
    BY <1>1, <2>2, <2>7
  <2> HIDE DEF d
  <2>9. Waiting(d, u, m)
    BY <1>3, <2>5, <2>6, <2>7, <2>8 DEF Waiting, ServerShape, HandshakeEnd, p
  <2> QED BY <2>9 DEF d, p2, p
<1> QED BY <1>4, <1>5, <1>6

LEMMA RowSame ==
  ASSUME NEW x \in Stream, NEW y \in Stream, NEW i \in Nat, NEW e \in Nat,
         NEW r \in Stream, NEW w \in Stream, NEW o \in Stream,
         InRow(r, w, o, x, i), RowEnd(r, w, o, i) <= e, e <= Len(y), \A j \in 1..e : x[j] = y[j]
  PROVE  InRow(r, w, o, y, i)
<1> DEFINE R == Len(r)
           W == Len(w)
           O == Len(o)
<1>1. R \in Nat /\ W \in Nat /\ O \in Nat /\ Len(y) \in Nat
  BY LenNat
<1>2. i + R + W + O <= e
  BY DEF RowEnd
<1>3. /\ \A j \in 1..R : r[j] = x[i + j]
      /\ \A j \in 1..W : w[j] = x[i + R + j]
      /\ \A j \in 1..O : o[j] = x[i + R + W + j]
  BY DEF InRow, Piece
<1> HIDE DEF R, W, O
<1>4. ASSUME NEW j \in 1..R PROVE r[j] = y[i + j]
  <2>1. i + j \in 1..e
    BY <1>1, <1>2
  <2> QED BY <1>3, <2>1
<1>5. ASSUME NEW j \in 1..W PROVE w[j] = y[i + R + j]
  <2>1. i + R + j \in 1..e
    BY <1>1, <1>2
  <2> QED BY <1>3, <2>1
<1>6. ASSUME NEW j \in 1..O PROVE o[j] = y[i + R + W + j]
  <2>1. i + R + W + j \in 1..e
    BY <1>1, <1>2
  <2> QED BY <1>3, <2>1
<1>7. i + R <= Len(y) /\ i + R + W <= Len(y) /\ i + R + W + O <= Len(y)
  BY <1>1, <1>2
<1> QED BY <1>4, <1>5, <1>6, <1>7 DEF InRow, Piece, R, W, O

(* A request is answered as it was sent, whatever is told afterwards.      *)
LEMMA ServerRequest ==
  ASSUME TunnelInv, ~ wild, ~ con["p"].connect, NEW m0 \in 0..Len(request), ToApp(m0),
         NEW cn, NEW u \in Stream, Waiting(cn, u, m0), cn["p"].handshake
  PROVE  \/ mg_socks5_handle_request(cn) = cn
         \/ \E m \in 0..Len(request) : Linked(mg_socks5_handle_request(cn), u, m)
<1> DEFINE p == cn["p"]
           r == p.recv
           G == Len(greeting)
           R == Len(request)
           refused == r[1] # "v5" \/ r[2] # "connect" \/ r[4] \notin {"ipv4", "ipv6", "domain"}
           n == AddressOf(r)
           d == mg_socks5_handle_request(cn)
<1>1. /\ cn \in [Conns -> Connection] /\ p \in Connection /\ p.state = "open" /\ ~ p.connect /\ p.handshake
      /\ r \in Stream /\ p.out \in Stream /\ <<>> \in Stream /\ Len(<<>>) = 0
      /\ "p" \in Conns /\ "t" \in Conns /\ "s" \in Conns
      /\ cn["t"] = con["t"] /\ cn["s"] = con["s"]
  BY DEF Waiting, ServerShape, Conns, Connection, Stream
<1>2. /\ Asked \in Stream /\ G \in Nat /\ R \in Nat /\ R >= 8 /\ Payload = G + R /\ Payload \in Nat
      /\ R = AddressOf(request) + 6 /\ AskedEnd \in Nat /\ Written \in Nat /\ app.wrote \in Nat /\ Read \in Nat
      /\ con["s"].recv \in Stream /\ wire["p"] \in Stream /\ con["s"].out \in Stream
      /\ app.recv \in Stream /\ Len(Asked) = Payload + Len(AppText) /\ Len(AppText) \in Nat
      /\ request \in Stream /\ ToldHead = 2 + R /\ ToldHead \in Nat
  BY AskedIs, ToldIs, Rows, Sizes DEF TunnelInv, TypeOK
<1>3. \A j \in 1..R : Asked[G + j] = request[j]
  BY AskedIs DEF TunnelInv, TypeOK
<1>4. /\ InRow(r, u, con["s"].out, Asked, G) /\ RowEnd(r, u, con["s"].out, G) = AskedEnd
      /\ InRow(con["s"].recv, wire["p"], p.out, Told(m0), Read)
      /\ RowEnd(con["s"].recv, wire["p"], p.out, Read) = 2
  BY <1>1 DEF Waiting, HandshakeEnd
<1>5. /\ con["t"] = NewConn("none") /\ wire["t"] = <<>> /\ wire["target"] = <<>>
      /\ target.recv = <<>> /\ target.wrote = 0
  BY DEF TunnelInv, NotBegun
<1>6. CASE Len(r) < 8 \/ (~ refused /\ Len(r) < n + 6)
  BY <1>6 DEF mg_socks5_handle_request
<1>7. CASE ~ (Len(r) < 8 \/ (~ refused /\ Len(r) < n + 6))
  <2> DEFINE L == Len(r)
             m == IF L <= R THEN L ELSE R
             a == Answer(m)
             o == p.out \o a
             r2 == mbuf_remove(r, R)
             q == [p EXCEPT !.out = o, !.recv = r2, !.connect = TRUE, !.user = ~ refused]
             t == IF refused THEN cn["t"] ELSE [NewConn("connecting") EXCEPT !.user = TRUE]
  <2>1. L \in Nat /\ L >= 8
    <3>1. Len(r) \in Nat
      BY <1>1, LenNat
    <3> HIDE DEF r, refused, n
    <3> QED BY <1>7, <3>1
  <2>0. R \in Nat /\ R >= 8 /\ G \in Nat
    BY <1>2
  <2>2. \A j \in 1..L : j <= R => r[j] = request[j]
    <3>1. \A j \in 1..L : r[j] = Asked[G + j]
      BY <1>4 DEF InRow, Piece
    <3> HIDE DEF L, r, R, G
    <3>2. ASSUME NEW j \in 1..L, j <= R PROVE r[j] = request[j]
      <4>1. j \in 1..R
        BY <2>0, <2>1, <3>2
      <4> QED BY <1>3, <3>1, <4>1
    <3> QED BY <3>2
  <2>3. r[1] = request[1] /\ r[2] = request[2] /\ r[4] = request[4]
    <3> HIDE DEF L, r, R
    <3>1. 1 \in 1..L /\ 2 \in 1..L /\ 4 \in 1..L /\ 1 <= R /\ 2 <= R /\ 4 <= R
      BY <2>0, <2>1
    <3> QED BY <2>2, <3>1
  <2>4. n + 6 = R /\ n + 3 = R - 3 /\ refused = Refused
    <3>1. AddressOf(r) = AddressOf(request)
      BY <2>3 DEF AddressOf
    <3>2. refused = Refused
      BY <2>3 DEF Refused
    <3>3. AddressOf(request) \in Nat
      BY TunnelAssumption DEF AddressOf, AddrLen
    <3> HIDE DEF AddressOf
    <3> QED BY <1>2, <3>1, <3>2, <3>3, SMTT(30)
  <2>5. m \in 0..R
    <3> HIDE DEF L, R
    <3> QED BY <2>0, <2>1
  <2> HIDE DEF m
  <2>6. a = <<"v5", IF refused THEN NotSupported ELSE Success, "rsv">>
              \o [i \in 1..n + 3 |-> IF i + 3 <= Len(r) THEN r[i + 3] ELSE "stale"]
    <3> DEFINE f == [i \in 1..R - 3 |-> IF i + 3 <= m THEN request[i + 3] ELSE "stale"]
               g == [i \in 1..n + 3 |-> IF i + 3 <= Len(r) THEN r[i + 3] ELSE "stale"]
    <3>1. ASSUME NEW i \in 1..R - 3
          PROVE  (IF i + 3 <= m THEN request[i + 3] ELSE "stale") = IF i + 3 <= Len(r) THEN r[i + 3] ELSE "stale"
      <4>1. (i + 3 <= m) <=> (i + 3 <= L)
        <5> HIDE DEF L, R
        <5>1. i \in Nat /\ i + 3 <= R
          BY <2>0
        <5> QED BY <2>0, <2>1, <5>1 DEF m
      <4>2. i + 3 <= L => r[i + 3] = request[i + 3]
        <5> HIDE DEF L, R, r
        <5>1. i \in Nat /\ i + 3 <= R
          BY <2>0
        <5> QED BY <2>0, <2>1, <2>2, <5>1
      <4> HIDE DEF r
      <4> QED BY <4>1, <4>2
    <3> HIDE DEF n, R, r, refused
    <3>2. f = g
      BY <2>4, <3>1
    <3> HIDE DEF f, g
    <3> QED BY <2>4, <3>2 DEF Answer, f, g, R
  <2> HIDE DEF a
  <2>7. d = [cn EXCEPT !["p"] = q, !["t"] = t]
    <3>1. refused => t = cn["t"]
      OBVIOUS
    <3>2. p.out \o (<<"v5", IF refused THEN NotSupported ELSE Success, "rsv">>
              \o [i \in 1..n + 3 |-> IF i + 3 <= Len(r) THEN r[i + 3] ELSE "stale"]) = o
      BY <2>6
    <3> QED BY <1>1, <1>7, <2>4, <2>6 DEF mg_socks5_handle_request
  <2>8. /\ a \in Stream /\ Len(a) = R /\ Piece(a, Told(m), 2) /\ Told(m) \in Stream /\ Told(m0) \in Stream
        /\ Len(Told(m)) = ToldHead + Len(TargetText) /\ Len(TargetText) \in Nat
        /\ \A j \in 1..2 : Told(m0)[j] = Told(m)[j]
    <3>1. greeting \in Greetings /\ request \in Requests
      BY DEF TunnelInv, TypeOK
    <3>2. /\ a \in Stream /\ Len(a) = R /\ Piece(a, Told(m), 2) /\ Told(m) \in Stream
          /\ Len(Told(m)) = ToldHead + Len(TargetText) /\ Len(TargetText) \in Nat
      BY <2>5, <3>1, ToldIs, AskedIs DEF a
    <3>3. ASSUME NEW j \in 1..2, NEW i \in 0..Len(request)
          PROVE  Told(i)[j] = <<"v5", Reply>>[j]
      <4>1. Piece(<<"v5", Reply>>, Told(i), 0) /\ Len(<<"v5", Reply>>) = 2
        BY <3>1, ToldIs
      <4>2. <<"v5", Reply>>[j] = Told(i)[0 + j] /\ 0 + j = j
        BY <4>1 DEF Piece
      <4> QED BY <4>2
    <3>4. \A j \in 1..2 : Told(m0)[j] = Told(m)[j]
      BY <2>5, <3>3
    <3> QED BY <3>1, <3>2, <3>4, ToldIs
  <2>9. o \in Stream /\ InRow(con["s"].recv, wire["p"], o, Told(m), Read)
        /\ RowEnd(con["s"].recv, wire["p"], o, Read) = ToldHead
    <3>1. /\ con["s"].recv \in Stream /\ wire["p"] \in Stream /\ p.out \in Stream /\ a \in Stream
          /\ Told(m) \in Stream /\ Told(m0) \in Stream /\ Read \in Nat /\ 2 \in Nat /\ 2 <= Len(Told(m))
      BY <1>1, <1>2, <2>8, SMTT(30)
    <3> HIDE DEF p
    <3>2. InRow(con["s"].recv, wire["p"], p.out, Told(m), Read)
      <4>1. RowEnd(con["s"].recv, wire["p"], p.out, Read) <= 2
        BY <1>4
      <4> QED BY <1>4, <2>8, <3>1, <4>1, RowSame
    <3>3. Piece(a, Told(m), RowEnd(con["s"].recv, wire["p"], p.out, Read))
      BY <1>4, <2>8
    <3> DEFINE T == Told(m)
               po == p.out
    <3>4. /\ InRow(con["s"].recv, wire["p"], po \o a, T, Read)
          /\ RowEnd(con["s"].recv, wire["p"], po \o a, Read)
               = RowEnd(con["s"].recv, wire["p"], po, Read) + Len(a)
      <4>1. /\ con["s"].recv \in Stream /\ wire["p"] \in Stream /\ po \in Stream /\ a \in Stream
            /\ T \in Stream /\ Read \in Nat
        BY <3>1
      <4>2. InRow(con["s"].recv, wire["p"], po, T, Read)
        BY <3>2
      <4>3. Piece(a, T, RowEnd(con["s"].recv, wire["p"], po, Read))
        BY <3>3
      <4> HIDE DEF T, po
      <4> QED BY <4>1, <4>2, <4>3, RowWrite
    <3>5. p.out \o a \in Stream
      BY <3>1 DEF Stream
    <3> QED BY <1>2, <1>4, <2>8, <3>4, <3>5
  <2> HIDE DEF o
  <2>10. r2 \in Stream
    <3>1. CASE R <= L
      <4>1. R \in 0..Len(r)
        <5> HIDE DEF R, r
        <5> QED BY <2>0, <2>1, <3>1
      <4> HIDE DEF R, r
      <4>2. InRow(r, u, con["s"].out, Asked, G)
        BY <1>4
      <4>3. con["s"].out \in Stream /\ r \in Stream /\ Asked \in Stream /\ G \in Nat
        BY <1>1, <1>2
      <4> QED BY <4>1, <4>2, <4>3, RowCut
    <3>2. CASE ~ (R <= L)
      <4>1. r2 = r
        BY <3>2 DEF mbuf_remove
      <4> QED BY <1>1, <4>1
    <3> QED BY <3>1, <3>2
  <2>11. ASSUME ~ refused
         PROVE  /\ InRow(r2, u, con["s"].out, Asked, Payload)
                /\ RowEnd(r2, u, con["s"].out, Payload) = AskedEnd
    <3>1. R \in 0..Len(r)
      <4>1. ~ (Len(r) < n + 6)
        BY <1>7, <2>11
      <4> HIDE DEF R, r, n
      <4> QED BY <2>0, <2>1, <2>4, <4>1
    <3> HIDE DEF R, r, G
    <3>2. con["s"].out \in Stream /\ r \in Stream /\ Asked \in Stream /\ G \in Nat
      BY <1>1, <1>2
    <3>3. InRow(r, u, con["s"].out, Asked, G)
      BY <1>4
    <3>4. /\ InRow(r2, u, con["s"].out, Asked, G + R)
          /\ RowEnd(r2, u, con["s"].out, G + R) = RowEnd(r, u, con["s"].out, G)
      BY <3>1, <3>2, <3>3, RowCut
    <3> QED BY <1>2, <1>4, <3>4
  <2> HIDE DEF r2, refused, n, r
  <2>12. /\ q \in Connection /\ q.state = "open" /\ q.recv = r2 /\ q.out = o
         /\ q.handshake /\ q.connect /\ q.user = ~ refused
    <3>1. (~ refused) \in BOOLEAN
      OBVIOUS
    <3> QED BY <1>1, <2>9, <2>10, <3>1 DEF Connection
  <2>13. /\ t \in Connection /\ t.recv = <<>> /\ t.out = <<>> /\ t.user = ~ refused /\ t.state # "closed"
    <3>1. CASE refused
      <4>1. t = NewConn("none")
        BY <1>1, <1>5, <3>1
      <4> QED BY <1>1, <3>1, <4>1 DEF NewConn, Connection
    <3>2. CASE ~ refused
      BY <1>1, <3>2 DEF NewConn, Connection
    <3> QED BY <3>1, <3>2
  <2> HIDE DEF p, q, t, d
  <2>14. d \in [Conns -> Connection] /\ d["p"] = q /\ d["t"] = t /\ d["s"] = con["s"]
    BY <1>1, <2>7, <2>12, <2>13
  <2>15. /\ InRow(<<>>, <<>>, <<>>, Asked, Payload) /\ RowEnd(<<>>, <<>>, <<>>, Payload) = Payload
         /\ Payload <= Payload + app.wrote
    <3>1. Payload <= Len(Asked) /\ Payload <= Payload + app.wrote
      BY <1>2, SMTT(30)
    <3> QED BY <1>2, <3>1, RowNone
  <2>16. /\ InRow(<<>>, <<>>, <<>>, Told(m), ToldHead) /\ RowEnd(<<>>, <<>>, <<>>, ToldHead) = ToldHead
         /\ Piece(<<>>, Told(m), ToldHead) /\ ToldHead <= ToldHead + 0 /\ ToldHead + 0 = ToldHead
    <3> DEFINE T == Told(m)
    <3>1. T \in Stream /\ Len(T) = ToldHead + Len(TargetText) /\ Len(TargetText) \in Nat /\ ToldHead \in Nat
      BY <1>2, <2>8
    <3> HIDE DEF T
    <3>2. ToldHead <= Len(T) /\ ToldHead <= ToldHead + 0 /\ ToldHead + 0 = ToldHead
      BY <3>1
    <3>3. /\ InRow(<<>>, <<>>, <<>>, T, ToldHead) /\ RowEnd(<<>>, <<>>, <<>>, ToldHead) = ToldHead
          /\ Piece(<<>>, T, ToldHead)
      BY <3>1, <3>2, RowNone
    <3> QED BY <3>2, <3>3 DEF T
  <2>17. app.recv = <<>> /\ Len(app.recv) <= 0
    <3>1. Len(app.recv) <= 0
      BY <1>5 DEF ToApp
    <3> DEFINE x == app.recv
    <3>2. x \in Seq(Bytes) /\ Len(x) <= 0
      BY <1>2, <3>1 DEF Stream
    <3> HIDE DEF x
    <3>3. Len(x) = 0
      <4>1. Len(x) \in Nat
        BY <3>2
      <4> QED BY <3>2, <4>1
    <3>4. x = <<>>
      BY <3>2, <3>3
    <3> QED BY <3>2, <3>4 DEF x
  <2>18. PassedBy(d) = Payload /\ ToldBy(d) = ToldHead
    BY <1>5, <2>9, <2>12, <2>13, <2>14, <2>15 DEF PassedBy, ToldBy
  <2>19. Linked(d, u, m)
    BY <1>5, <2>9, <2>11, <2>12, <2>13, <2>14, <2>15, <2>16, <2>17, <2>18 DEF Linked, ServerShape
  <2> QED BY <2>5, <2>19 DEF d
<1> QED BY <1>6, <1>7

LEMMA ServerHandles ==
  ASSUME TunnelInv, ~ wild, NEW m \in 0..Len(request), ToApp(m), NEW cn, NEW u \in Stream,
         IF con["p"].connect THEN Linked(cn, u, m) ELSE Waiting(cn, u, m)
  PROVE  \/ ~ con["p"].connect /\ Waiting(socks_handler(cn), u, m)
         \/ \E k \in 0..Len(request) : Linked(socks_handler(cn), u, k)
<1> DEFINE one == IF cn["p"].handshake THEN cn ELSE [cn EXCEPT !["p"] = mg_socks5_handshake(@)]
           two == IF one["p"].handshake /\ ~ one["p"].connect THEN mg_socks5_handle_request(one) ELSE one
           d == socks_handler(cn)
<1>1. d = IF two["p"].connect THEN relay_data(two, "p", "t") ELSE two
  BY DEF socks_handler
<1>2. CASE con["p"].connect
  <2>1. Linked(cn, u, m) /\ cn["p"].handshake /\ cn["p"].connect
    BY <1>2 DEF Linked
  <2>2. one = cn /\ two = cn
    BY <2>1
  <2> HIDE DEF one, two
  <2>3. d = relay_data(cn, "p", "t")
    BY <1>1, <2>1, <2>2
  <2> QED BY <2>1, <2>3, ServerRelay
<1>3. CASE ~ con["p"].connect
  <2>1. Waiting(cn, u, m)
    BY <1>3
  <2>2. Waiting(one, u, m)
    <3>1. ASSUME ~ cn["p"].handshake PROVE Waiting([cn EXCEPT !["p"] = mg_socks5_handshake(@)], u, m)
      BY <2>1, <3>1, ServerHandshake
    <3> QED BY <2>1, <3>1
  <2>3. ~ one["p"].connect
    BY <2>2 DEF Waiting
  <2> HIDE DEF one
  <2>4. two = one \/ \E k \in 0..Len(request) : Linked(two, u, k)
    <3>1. CASE one["p"].handshake
      <4>1. two = mg_socks5_handle_request(one)
        BY <2>3, <3>1
      <4>2. \/ mg_socks5_handle_request(one) = one
            \/ \E k \in 0..Len(request) : Linked(mg_socks5_handle_request(one), u, k)
        BY <1>3, <2>2, <3>1, ServerRequest
      <4> QED BY <4>1, <4>2
    <3>2. CASE ~ one["p"].handshake
      BY <3>2
    <3> QED BY <3>1, <3>2
  <2> HIDE DEF two
  <2>5. CASE two = one
    <3>1. d = one
      BY <1>1, <2>3, <2>5
    <3> QED BY <1>3, <2>2, <3>1
  <2>6. ASSUME NEW k \in 0..Len(request), Linked(two, u, k) PROVE Linked(d, u, k)
    <3>1. d = relay_data(two, "p", "t")
      BY <1>1, <2>6 DEF Linked
    <3> QED BY <2>6, <3>1, ServerRelay
  <2> QED BY <2>4, <2>5, <2>6
<1> QED BY <1>2, <1>3

LEMMA ReceiveServerInv ==
  ASSUME TunnelInv, NEW n \in 1..Len(wire["s"]), Receive("p", n)
  PROVE  TunnelInv'
<1>1. PICK m \in 0..Len(request) : ToApp(m)
  BY DEF TunnelInv
<1> DEFINE x == wire["s"]
           r == con["p"].recv \o SubSeq(x, 1, n)
           u == SubSeq(x, n + 1, Len(x))
           p == [con["p"] EXCEPT !.recv = r]
           cn == [con EXCEPT !["p"] = p]
           d == socks_handler(cn)
           linked == ~ con["p"].connect \/ con["p"].user
<1>2. /\ wire' = [wire EXCEPT !["s"] = u] /\ UNCHANGED <<greeting, request, target, app, data, wild>>
      /\ con["p"].state = "open" /\ ~ wild /\ con' = d
  <2>1. Peer("p") = "s"
    BY DEF Peer
  <2>2. [con EXCEPT !["p"].recv = @ \o SubSeq(wire[Peer("p")], 1, n)] = cn
    BY <2>1 DEF TunnelInv, TypeOK, Conns
  <2> HIDE DEF cn
  <2> QED BY <2>1, <2>2 DEF Receive, Live
<1>3. /\ Asked \in Stream /\ x \in Stream /\ con["p"].recv \in Stream /\ con["p"].recv \in Stream
      /\ con["s"].out \in Stream /\ Taken \in Nat /\ Written \in Nat /\ AskedEnd \in Nat
      /\ ToldEnd \in Nat /\ ToldHead \in Nat /\ target.wrote \in Nat /\ Read \in Nat
  BY AskedIs, Rows, Sizes DEF TunnelInv, TypeOK
<1>4. linked => /\ InRow(con["p"].recv, x, con["s"].out, Asked, Taken)
                /\ RowEnd(con["p"].recv, x, con["s"].out, Taken) = AskedEnd
  BY DEF TunnelInv, ToTarget, AskedEnd
<1> HIDE DEF x
<1>5. /\ r \in Stream /\ u \in Stream
      /\ linked => /\ InRow(r, u, con["s"].out, Asked, Taken)
                   /\ RowEnd(r, u, con["s"].out, Taken) = AskedEnd
  <2>1. n \in 1..Len(x)
    BY DEF x
  <2> HIDE DEF linked
  <2>2. ASSUME linked
        PROVE  /\ InRow(r, u, con["s"].out, Asked, Taken)
               /\ RowEnd(r, u, con["s"].out, Taken) = RowEnd(con["p"].recv, x, con["s"].out, Taken)
    <3>1. InRow(con["p"].recv, x, con["s"].out, Asked, Taken)
      BY <1>4, <2>2
    <3> QED BY <1>3, <2>1, <3>1, RowTake
  <2>3. r \in Stream /\ u \in Stream
    <3>1. Len(x) \in Nat /\ n \in 1..Len(x)
      BY <1>3, <2>1, LenNat
    <3>2. SubSeq(x, 1, n) \in Seq(Bytes) /\ SubSeq(x, n + 1, Len(x)) \in Seq(Bytes)
      BY <1>3, <3>1 DEF Stream
    <3> QED BY <1>3, <3>2 DEF Stream
  <2> QED BY <1>4, <2>2, <2>3
<1> HIDE DEF r, u
<1>6. /\ p \in Connection /\ p.state = "open" /\ p.recv = r /\ p.out = con["p"].out
      /\ p.handshake = con["p"].handshake /\ p.connect = con["p"].connect /\ p.user = con["p"].user
  BY <1>2, <1>5 DEF TunnelInv, TypeOK, Conns, Connection
<1> HIDE DEF p
<1>7. cn \in [Conns -> Connection] /\ cn["p"] = p /\ cn["s"] = con["s"] /\ cn["t"] = con["t"]
  BY <1>6 DEF TunnelInv, TypeOK, Conns
<1>8. /\ wire'["s"] = u /\ wire'["p"] = wire["p"] /\ wire'["t"] = wire["t"] /\ wire'["target"] = wire["target"]
      /\ wire' \in [Conns \cup {"target"} -> Stream]
  BY <1>2, <1>5 DEF TunnelInv, TypeOK, Conns
<1> HIDE DEF cn
<1>9. ServerShape(cn)
  BY <1>6, <1>7 DEF ServerShape
<1>10. IF con["p"].connect THEN Linked(cn, u, m) ELSE Waiting(cn, u, m)
  <2>1. CASE con["p"].connect
    <3>1. PassedBy(cn) = Passed /\ ToldBy(cn) = ToldEnd
      BY <1>6, <1>7 DEF PassedBy, Passed, ToldBy, ToldEnd
    <3>2. con["p"].handshake /\ Taken = Passed
      BY <2>1 DEF TunnelInv, NotBegun, Taken
    <3>3. /\ con["p"].user = con["t"].user /\ (con["p"].user => con["t"].state # "closed")
          /\ InRow(target.recv, wire["t"], con["t"].out, Asked, Payload) /\ Passed <= Payload + app.wrote
      BY DEF TunnelInv, LinksAlive, ToTarget
    <3>4. /\ Piece(app.recv, Told(m), ToldHead) /\ Len(app.recv) <= target.wrote
          /\ InRow(con["s"].recv, wire["p"], con["p"].out, Told(m), Read) /\ ToldEnd <= ToldHead + target.wrote
          /\ con["p"].user =>
               /\ InRow(con["t"].recv, wire["target"], <<>>, Told(m), ToldEnd)
               /\ RowEnd(con["t"].recv, wire["target"], <<>>, ToldEnd) = ToldHead + target.wrote
      BY <1>1, <1>2 DEF ToApp
    <3>5. con["p"].user => /\ InRow(r, u, con["s"].out, Asked, Passed)
                           /\ RowEnd(r, u, con["s"].out, Passed) = AskedEnd
      BY <1>5, <3>2
    <3> HIDE DEF linked
    <3>6. cn["p"].connect /\ cn["p"].handshake /\ cn["p"].user = cn["t"].user
          /\ (cn["p"].user => cn["t"].state # "closed")
      BY <1>6, <1>7, <2>1, <3>2, <3>3
    <3>7. cn["p"].recv = r /\ cn["p"].out = con["p"].out /\ cn["p"].user = con["p"].user
          /\ cn["t"].out = con["t"].out /\ cn["t"].recv = con["t"].recv
      BY <1>6, <1>7
    <3>8. Linked(cn, u, m)
      BY <1>9, <3>1, <3>3, <3>4, <3>5, <3>6, <3>7 DEF Linked
    <3> QED BY <2>1, <3>8
  <2>2. CASE ~ con["p"].connect
    <3>1. Taken = HandshakeEnd(cn, Len(greeting))
      BY <1>6, <1>7, <2>2 DEF Taken, HandshakeEnd
    <3>2. ~ con["p"].user
      BY <2>2 DEF TunnelInv
    <3>3. InRow(con["s"].recv, wire["p"], con["p"].out, Told(m), Read) /\ ToldEnd = HandshakeEnd(cn, 2)
      BY <1>1, <1>2, <1>6, <1>7, <2>2 DEF ToApp, HandshakeEnd
    <3>4. Waiting(cn, u, m)
      BY <1>5, <1>6, <1>7, <1>9, <2>2, <3>1, <3>2, <3>3 DEF Waiting, ToldEnd
    <3> QED BY <2>2, <3>4
  <2> QED BY <2>1, <2>2
<1>11. \/ ~ con["p"].connect /\ Waiting(d, u, m)
       \/ \E k \in 0..Len(request) : Linked(d, u, k)
  BY <1>1, <1>2, <1>5, <1>10, ServerHandles
<1> HIDE DEF d
<1>12. /\ Asked' = Asked /\ Payload' = Payload /\ ToldHead' = ToldHead /\ \A k : Told(k)' = Told(k)
  BY <1>2 DEF Asked, Payload, Told, ToldHead, Answer, Reply, Refused
<1>13. con["s"].state \in {"open", "closed"}
  BY <1>2 DEF TunnelInv, NotBegun, NewConn
<1>14. ASSUME ServerShape(d) PROVE Written' = Written /\ Read' = Read /\ TypeOK'
  BY <1>2, <1>8, <1>12, <1>14 DEF Written, Read, ServerShape, TunnelInv, TypeOK
<1>15. CASE ~ con["p"].connect /\ Waiting(d, u, m)
  <2>1. /\ ServerShape(d) /\ ~ d["p"].connect /\ ~ d["p"].user /\ d["t"] = con["t"] /\ d["s"] = con["s"]
        /\ d["p"].state = "open"
    BY <1>15 DEF Waiting, ServerShape
  <2>2. Written' = Written /\ Read' = Read /\ TypeOK' /\ Passed' = Passed
    BY <1>2, <1>8, <1>12, <1>14, <2>1 DEF Passed
  <2>3. Taken' = HandshakeEnd(d, Len(greeting))
    BY <1>2, <2>1 DEF Taken, HandshakeEnd
  <2>4. AskedEnd' = AskedEnd /\ ToldEnd' = HandshakeEnd(d, 2)
    BY <1>2, <1>8, <1>15, <2>1, <2>2, <2>3 DEF AskedEnd, ToldEnd, Waiting
  <2>5. NotBegun'
    BY <1>2, <1>8, <1>13, <1>15, <2>1 DEF TunnelInv, NotBegun
  <2>6. LinksAlive' /\ (con["p"].user => con["p"].connect)'
    <3>1. con["t"].user = FALSE
      BY <1>15 DEF TunnelInv, NotBegun, NewConn
    <3>2. d["p"].user \in BOOLEAN
      BY <2>1 DEF ServerShape, Conns, Connection
    <3>3. d["p"].user = FALSE
      BY <2>1, <3>2
    <3>4. con'["p"].user = FALSE /\ con'["t"].user = FALSE
      BY <1>2, <2>1, <3>1, <3>3
    <3>5. LinksAlive'
      BY <3>4 DEF LinksAlive
    <3>6. (con["p"].user => con["p"].connect)'
      BY <3>4
    <3> QED BY <3>5, <3>6
  <2>7. ToTarget'
    BY <1>2, <1>8, <1>12, <1>15, <2>1, <2>2, <2>3, <2>4 DEF TunnelInv, ToTarget, Waiting
  <2>8. ToApp(m)'
    <3>1. HandshakeEnd(d, 2) <= ToldHead + target.wrote /\ HandshakeEnd(d, 2) <= 2
          /\ (~ d["p"].handshake => HandshakeEnd(d, 2) = 0) /\ (d["p"].handshake => HandshakeEnd(d, 2) = 2)
      <4>1. ToldHead >= 2
        BY AskedIs DEF ToldHead, TunnelInv, TypeOK
      <4> QED BY <1>3, <4>1 DEF HandshakeEnd
    <3> QED BY <1>1, <1>2, <1>8, <1>12, <1>15, <2>1, <2>2, <2>4, <3>1 DEF ToApp, Waiting
  <2> QED BY <1>2, <2>2, <2>5, <2>6, <2>7, <2>8 DEF TunnelInv
<1>16. ASSUME NEW k \in 0..Len(request), Linked(d, u, k) PROVE TunnelInv'
  <2>1. /\ ServerShape(d) /\ d["p"].connect /\ d["p"].handshake /\ d["s"] = con["s"] /\ d["p"].state = "open"
    BY <1>16 DEF Linked, ServerShape
  <2>2. Written' = Written /\ Read' = Read /\ TypeOK' /\ Passed' = PassedBy(d) /\ Taken' = PassedBy(d)
    BY <1>2, <1>8, <1>12, <1>14, <2>1 DEF Passed, PassedBy, Taken
  <2>3. ToldEnd' = ToldBy(d)
    BY <1>2, <1>8, <2>1, <2>2 DEF ToldEnd, ToldBy
  <2>4. NotBegun'
    BY <1>2, <1>8, <1>13, <2>1 DEF TunnelInv, NotBegun
  <2>5. LinksAlive' /\ (con["p"].user => con["p"].connect)'
    <3>1. d["p"].user = d["t"].user /\ (d["p"].user => d["t"].state # "closed")
      BY <1>16 DEF Linked
    <3>2. con'["p"] = d["p"] /\ con'["t"] = d["t"]
      BY <1>2
    <3>3. LinksAlive'
      BY <2>1, <3>1, <3>2 DEF LinksAlive
    <3>4. con'["p"].connect
      BY <2>1, <3>2
    <3>5. (con["p"].user => con["p"].connect)'
      BY <3>4
    <3> QED BY <3>3, <3>5
  <2>6. ToTarget'
    <3>1. InRow(target.recv, wire["t"], d["t"].out, Asked, Payload) /\ PassedBy(d) <= Payload + app.wrote
      BY <1>16 DEF Linked
    <3>2. d["p"].user => /\ linked /\ InRow(d["p"].recv, u, con["s"].out, Asked, PassedBy(d))
                         /\ RowEnd(d["p"].recv, u, con["s"].out, PassedBy(d)) = AskedEnd
      BY <1>16 DEF Linked
    <3>3. d["p"].user => AskedEnd' = AskedEnd
      BY <1>2, <1>8, <2>1, <2>2, <3>2 DEF AskedEnd
    <3>4. linked => /\ AskedEnd <= Written
                    /\ con["s"].state = "open" /\ (con["s"].connect => data.s) => AskedEnd = Written
      BY DEF TunnelInv, ToTarget
    <3>5. data.s => data.tmp = IF con["s"].connect THEN <<>> ELSE SubSeq(AppText, 1, app.wrote)
      BY DEF TunnelInv, ToTarget
    <3> HIDE DEF linked
    <3> QED BY <1>2, <1>8, <1>12, <2>1, <2>2, <3>1, <3>2, <3>3, <3>4, <3>5 DEF ToTarget
  <2>7. ToApp(k)'
    BY <1>2, <1>8, <1>12, <1>16, <2>1, <2>2, <2>3 DEF ToApp, Linked
  <2> QED BY <1>2, <2>2, <2>4, <2>5, <2>6, <2>7 DEF TunnelInv
<1> QED BY <1>11, <1>15, <1>16

-----------------------------------------------------------------------------
LEMMA NextInv == TunnelInv /\ [Next]_vars => TunnelInv'
<1> SUFFICES ASSUME TunnelInv, [Next]_vars PROVE TunnelInv'
  OBVIOUS
<1>1. CASE UNCHANGED vars
  <2>1. TypeOK' /\ NotBegun' /\ LinksAlive' /\ (con["p"].user => con["p"].connect)'
    BY <1>1 DEF TunnelInv, TypeOK, NotBegun, LinksAlive, vars
  <2>2. Passed' = Passed /\ Taken' = Taken /\ Written' = Written /\ Asked' = Asked /\ Payload' = Payload
        /\ Read' = Read /\ ToldHead' = ToldHead /\ \A m : Told(m)' = Told(m)
    BY <1>1 DEF Passed, Taken, Written, Asked, Payload, Read, ToldHead, Told, Answer, Reply, Refused, vars
  <2>3. AskedEnd' = AskedEnd /\ ToldEnd' = ToldEnd
    BY <1>1, <2>2 DEF AskedEnd, ToldEnd, vars
  <2>4. ToTarget'
    BY <1>1, <2>2, <2>3 DEF TunnelInv, ToTarget, vars
  <2>5. \A m \in 0..Len(request) : ToApp(m) => ToApp(m)'
    BY <1>1, <2>2, <2>3 DEF ToApp, vars
  <2>6. request' = request
    BY <1>1 DEF vars
  <2> QED BY <2>1, <2>4, <2>5, <2>6 DEF TunnelInv
<1>2. CASE ClientConnects \/ ClientConnectFails \/ AppSends \/ AppCloses
  BY <1>2, ClientConnectsInv, ClientConnectFailsInv, AppSendsInv, AppClosesInv
<1>3. CASE TargetConnects \/ TargetConnectFails \/ TargetSends \/ TargetReceives \/ TargetCloses
  BY <1>3, TargetConnectsInv, TargetConnectFailsInv, TargetSendsInv, TargetReceivesInv, TargetClosesInv
<1>4. ASSUME NEW k \in Conns, Flush(k) PROVE TunnelInv'
  BY <1>4, FlushInv
<1>5. ASSUME NEW k \in Conns, mg_close_conn(k) PROVE TunnelInv'
  BY <1>5, CloseClientInv, CloseServerInv, CloseOnwardInv DEF Conns
<1>6. ASSUME NEW k \in Conns, NEW n \in 1..Len(wire[Peer(k)]), Receive(k, n) PROVE TunnelInv'
  <2>1. CASE k = "s"
    <3>1. Peer(k) = "p"
      BY <2>1 DEF Peer
    <3> QED BY <1>6, <2>1, <3>1, ReceiveClientInv
  <2>2. CASE k = "p"
    <3>1. Peer(k) = "s"
      BY <2>2 DEF Peer
    <3> QED BY <1>6, <2>2, <3>1, ReceiveServerInv
  <2>3. CASE k = "t"
    <3>1. Peer(k) = "target"
      BY <2>3 DEF Peer
    <3> QED BY <1>6, <2>3, <3>1, ReceiveOnwardInv
  <2> QED BY <2>1, <2>2, <2>3 DEF Conns
<1> QED BY <1>1, <1>2, <1>3, <1>4, <1>5, <1>6 DEF Next, Arrive

(* TunnelInv is what each handler finds and leaves: the connections of the *)
(* client, the server and the target in the states their flags tell, and   *)
(* the bytes of both streams in their rows (socks_if_handler,              *)
(* socks_handler, relay_data, mg_socks_if_tcp_send, disband).              *)
THEOREM TunnelInvHolds == Spec => []TunnelInv
BY InitInv, NextInv, PTL DEF Spec

(* TunnelHolds: whatever the pieces the bytes arrive in, whenever a party  *)
(* closes, and whether or not the application wrote before the tunnel      *)
(* stood, the target and the application each read a prefix of what the    *)
(* other wrote, without a byte of the handshake, and the server's links    *)
(* are never to a closed connection (mg_socks_if_tcp_send,                 *)
(* socks_if_handler, relay_data, disband).                                 *)
THEOREM TunnelHoldsHolds == Spec => []TunnelHolds
<1>1. TunnelInv => TunnelHolds
  <2> SUFFICES ASSUME TunnelInv PROVE TunnelHolds
    OBVIOUS
  <2>1. PICK m \in 0..Len(request) : ToApp(m)
    BY DEF TunnelInv
  <2> DEFINE f == target.recv
             g == app.recv
             x == Asked
             y == Told(m)
             A == Len(AppText)
             B == Len(TargetText)
             a == app.wrote
             b == target.wrote
  <2>2. /\ f \in Seq(Bytes) /\ g \in Seq(Bytes) /\ Payload \in Nat /\ ToldHead \in Nat /\ A \in Nat /\ B \in Nat
        /\ a \in 0..A /\ b \in 0..B /\ AppText \in Seq(Bytes) /\ TargetText \in Seq(Bytes)
        /\ \A j \in 1..A : x[Payload + j] = AppText[j]
        /\ \A j \in 1..B : y[ToldHead + j] = TargetText[j]
    BY AskedIs, ToldIs, Rows, Sizes, TunnelAssumption DEF TunnelInv, TypeOK, Stream
  <2>3. (\A j \in 1..Len(f) : f[j] = x[Payload + j]) /\ Len(f) <= a
    <3>1. InRow(f, wire["t"], con["t"].out, x, Payload) /\ Passed <= Payload + a
      BY DEF TunnelInv, ToTarget
    <3>2. Len(wire["t"]) \in Nat /\ Len(con["t"].out) \in Nat /\ Len(f) \in Nat
      BY Rows, LenNat DEF TunnelInv
    <3>3. Payload + Len(f) + Len(wire["t"]) + Len(con["t"].out) <= Payload + a
      BY <3>1 DEF Passed, RowEnd
    <3>4. Len(f) <= a
      <4> DEFINE i == Len(f)
                 j == Len(wire["t"])
                 k == Len(con["t"].out)
      <4>1. i \in Nat /\ j \in Nat /\ k \in Nat
        BY <3>2
      <4>2. Payload + i + j + k <= Payload + a
        BY <3>3
      <4>3. Payload \in Nat /\ a \in Nat
        BY Sizes DEF TunnelInv, a
      <4> HIDE DEF i, j, k
      <4>4. i <= a
        BY <4>1, <4>2, <4>3
      <4> QED BY <4>4 DEF i
    <3> QED BY <3>1, <3>4 DEF InRow, Piece
  <2>4. (\A j \in 1..Len(g) : g[j] = y[ToldHead + j]) /\ Len(g) <= b
    BY <2>1 DEF ToApp, Piece
  <2> HIDE DEF f, g, x, y, A, B, a, b
  <2>5. IsPrefix(f, SubSeq(AppText, 1, a))
    <3>1. SubSeq(AppText, 1, a) \in Seq(Bytes) /\ Len(SubSeq(AppText, 1, a)) = a
          /\ \A j \in 1..a : SubSeq(AppText, 1, a)[j] = AppText[j]
      BY <2>2 DEF A
    <3>2. \A j \in 1..Len(f) : f[j] = SubSeq(AppText, 1, a)[j]
      BY <2>2, <2>3, <3>1
    <3> HIDE DEF IsPrefix
    <3> QED BY <2>2, <2>3, <3>1, <3>2, PrefixOf
  <2>6. IsPrefix(g, SubSeq(TargetText, 1, b))
    <3>1. SubSeq(TargetText, 1, b) \in Seq(Bytes) /\ Len(SubSeq(TargetText, 1, b)) = b
          /\ \A j \in 1..b : SubSeq(TargetText, 1, b)[j] = TargetText[j]
      BY <2>2 DEF B
    <3>2. \A j \in 1..Len(g) : g[j] = SubSeq(TargetText, 1, b)[j]
      BY <2>2, <2>4, <3>1
    <3> QED BY <2>2, <2>4, <3>1, <3>2, PrefixOf
  <2>7. LinksAlive
    BY DEF TunnelInv
  <2> QED BY <2>5, <2>6, <2>7 DEF TunnelHolds, TunnelInOrder, f, g, a, b
<1> QED BY <1>1, TunnelInvHolds, PTL
=============================================================================
