----------------------------- MODULE FilesProofs -----------------------------
(***************************************************************************)
(* What Files promises to a client that waits for each answer, proved for  *)
(* every site, every script of requests and every choice of the bounds.    *)
(***************************************************************************)
EXTENDS Files, SequenceTheorems, FiniteSetTheorems, WellFoundedInduction, TLAPS

-----------------------------------------------------------------------------
(* Sequences of anything.                                                  *)
LEMMA SeqIn ==
  ASSUME NEW S, NEW s \in Seq(S)
  PROVE  IsSeq(s) /\ Len(s) \in Nat /\ DOMAIN s = 1..Len(s)
<1>1. Len(s) \in Nat /\ DOMAIN s = 1..Len(s)  BY LenProperties
<1>2. s \in Seq({s[k] : k \in DOMAIN s})  BY <1>1
<1> QED  BY <1>1, <1>2 DEF IsSeq

LEMMA SeqLen ==
  ASSUME NEW s, IsSeq(s)
  PROVE  Len(s) \in Nat /\ DOMAIN s = 1..Len(s)
BY SeqIn DEF IsSeq

LEMMA NoSeq == IsSeq(<<>>) /\ Len(<<>>) = 0
<1>1. <<>> \in Seq({})  OBVIOUS
<1> QED  BY <1>1, SeqIn, Len(<<>>) = 0

LEMMA OneSeq ==
  ASSUME NEW x
  PROVE  IsSeq(<<x>>) /\ Len(<<x>>) = 1 /\ <<x>>[1] = x
<1>1. <<x>> \in Seq({x})  OBVIOUS
<1> QED  BY <1>1, SeqIn

LEMMA TwoSeq ==
  ASSUME NEW x, NEW y
  PROVE  IsSeq(<<x, y>>) /\ Len(<<x, y>>) = 2 /\ <<x, y>>[1] = x /\ <<x, y>>[2] = y
<1>1. <<x, y>> \in Seq({x, y})  OBVIOUS
<1> QED  BY <1>1, SeqIn

LEMMA Both ==
  ASSUME NEW s, IsSeq(s), NEW t, IsSeq(t)
  PROVE  \E S : s \in Seq(S) /\ t \in Seq(S)
<1> DEFINE S == {s[k] : k \in DOMAIN s} \cup {t[k] : k \in DOMAIN t}
<1>1. s \in Seq({s[k] : k \in DOMAIN s}) /\ t \in Seq({t[k] : k \in DOMAIN t})  BY DEF IsSeq
<1>2. s \in Seq(S) /\ t \in Seq(S)  BY <1>1, SeqMonotonic
<1> QED  BY <1>2

LEMMA Joined ==
  ASSUME NEW s, IsSeq(s), NEW t, IsSeq(t)
  PROVE  /\ IsSeq(s \o t) /\ Len(s \o t) = Len(s) + Len(t)
         /\ \A k \in 1..Len(s) + Len(t) :
              (s \o t)[k] = IF k <= Len(s) THEN s[k] ELSE t[k - Len(s)]
<1>1. PICK S : s \in Seq(S) /\ t \in Seq(S)  BY Both
<1>2. s \o t \in Seq(S)  BY <1>1
<1> QED  BY <1>1, <1>2, SeqIn, ConcatProperties

LEMMA JoinedTwice ==
  ASSUME NEW s, IsSeq(s), NEW t, IsSeq(t), NEW u, IsSeq(u)
  PROVE  (s \o t) \o u = s \o (t \o u)
<1>1. PICK S : s \in Seq(S) /\ t \in Seq(S)  BY Both
<1>2. PICK T : s \in Seq(S) /\ t \in Seq(S) /\ u \in Seq(T)  BY <1>1, Zenon DEF IsSeq
<1> DEFINE R == S \cup T
<1>3. s \in Seq(R) /\ t \in Seq(R) /\ u \in Seq(R)  BY <1>2, SeqMonotonic
<1> HIDE DEF R
<1> QED  BY <1>3, ConcatAssociative

LEMMA Nothing ==
  ASSUME NEW s, IsSeq(s)
  PROVE  s \o <<>> = s /\ <<>> \o s = s
BY ConcatEmptySeq DEF IsSeq

(* The first n of a sequence, and the others.                              *)
LEMMA Parted ==
  ASSUME NEW s, IsSeq(s), NEW n \in 0..Len(s)
  PROVE  /\ IsSeq(SubSeq(s, 1, n)) /\ IsSeq(SubSeq(s, n + 1, Len(s)))
         /\ Len(SubSeq(s, 1, n)) = n /\ Len(SubSeq(s, n + 1, Len(s))) = Len(s) - n
         /\ SubSeq(s, 1, n) \o SubSeq(s, n + 1, Len(s)) = s
         /\ \A k \in 1..n : SubSeq(s, 1, n)[k] = s[k]
         /\ \A k \in 1..Len(s) - n : SubSeq(s, n + 1, Len(s))[k] = s[n + k]
<1> DEFINE a == SubSeq(s, 1, n)
           b == SubSeq(s, n + 1, Len(s))
<1>0. PICK S : s \in Seq(S)  BY Zenon DEF IsSeq
<1>1. Len(s) \in Nat /\ DOMAIN s = 1..Len(s)  BY SeqLen
<1>n. n \in Nat /\ n <= Len(s)  BY <1>1
<1>a. \A k \in 1..Len(s) : s[k] \in S  BY <1>0, ElementOfSeq
<1>b. \A k \in 1..n : s[k] \in S  BY <1>a, <1>1
<1>c. \A k \in n + 1..Len(s) : s[k] \in S  BY <1>a, <1>1
<1>2. a \in Seq(S) /\ Len(a) = n /\ \A k \in 1..n : a[k] = s[k]
  <2>1. \A k \in 1..n - 1 + 1 : a[k] = s[1 + k - 1]  BY <1>1, <1>b, SubSeqProperties
  <2>2. a \in Seq(S) /\ Len(a) = n  BY <1>1, <1>b, SubSeqProperties
  <2> HIDE DEF a
  <2> QED  BY <2>1, <2>2
<1>3. b \in Seq(S) /\ Len(b) = Len(s) - n /\ \A k \in 1..Len(s) - n : b[k] = s[n + k]
  <2>1. \A k \in 1..Len(s) - (n + 1) + 1 : b[k] = s[(n + 1) + k - 1]  BY <1>1, <1>c, SubSeqProperties
  <2>2. b \in Seq(S) /\ Len(b) = IF n + 1 <= Len(s) THEN Len(s) - (n + 1) + 1 ELSE 0
    BY <1>1, <1>c, SubSeqProperties
  <2> HIDE DEF b
  <2>3. ASSUME NEW k \in 1..Len(s) - n  PROVE b[k] = s[n + k]
    <3>1. (n + 1) + k - 1 = n + k /\ k \in 1..Len(s) - (n + 1) + 1  BY <1>1
    <3> QED  BY <2>1, <3>1
  <2>4. Len(b) = Len(s) - n
    <3>1. CASE n + 1 <= Len(s)  BY <3>1, <2>2, <1>1
    <3>2. CASE ~(n + 1 <= Len(s))
      <4>0. n \in Int /\ Len(s) \in Int  BY <1>1, <1>n
      <4>1. Len(s) = n  BY ONLY <4>0, <3>2, <1>n
      <4>2. Len(b) = 0  BY <3>2, <2>2
      <4> QED  BY <4>1, <4>2, <1>n
    <3> QED  BY <3>1, <3>2
  <2> QED  BY <2>2, <2>3, <2>4
<1> HIDE DEF a, b
<1>4. a \o b \in Seq(S) /\ Len(a \o b) = Len(s)
         /\ \A k \in 1..Len(s) : (a \o b)[k] = IF k <= n THEN a[k] ELSE b[k - n]
  <2>1. n + (Len(s) - n) = Len(s)  BY <1>1
  <2>2. Len(a) + Len(b) = Len(s)  BY <2>1, <1>2, <1>3
  <2>3. a \o b \in Seq(S) /\ Len(a \o b) = Len(a) + Len(b)
        /\ \A k \in 1..Len(a) + Len(b) : (a \o b)[k] = IF k <= Len(a) THEN a[k] ELSE b[k - Len(a)]
    BY <1>2, <1>3, ConcatProperties
  <2> QED  BY <2>2, <2>3, <1>2
<1>5. \A k \in 1..Len(s) : (a \o b)[k] = s[k]
  <2> TAKE k \in 1..Len(s)
  <2>1. CASE k <= n  BY <2>1, <1>1, <1>2, <1>4
  <2>2. CASE k > n
    <3>1. (a \o b)[k] = b[k - n]  BY <2>2, <1>1, <1>4
    <3>2. k - n \in 1..Len(s) - n /\ n + (k - n) = k  BY <2>2, <1>1
    <3>3. b[k - n] = s[n + (k - n)]  BY <3>2, <1>3
    <3> QED  BY <3>1, <3>2, <3>3
  <2>3. k \in Int /\ n \in Int  BY <1>1, <1>n
  <2>4. k <= n \/ k > n  BY ONLY <2>3
  <2> QED  BY <2>1, <2>2, <2>4
<1>6. a \o b = s  BY <1>0, <1>4, <1>5, SeqEqual
<1>7. IsSeq(a) /\ IsSeq(b)  BY <1>2, <1>3, SeqIn
<1> QED  BY <1>2, <1>3, <1>6, <1>7 DEF a, b

LEMMA Counting ==
  ASSUME NEW n \in Nat, NEW f, f = [k \in 1..n |-> f[k]]
  PROVE  IsSeq(f) /\ Len(f) = n
<1>1. f \in Seq({f[k] : k \in 1..n})  OBVIOUS
<1> QED  BY <1>1, SeqIn

-----------------------------------------------------------------------------
(* What an answer, or more of one, does to a stream.                       *)
IsAnswer(t) ==
  IsSeq(t) /\ Len(t) >= 1 /\ t[1][1] = "head" /\ \A k \in 2..Len(t) : t[k][1] # "head"
IsRest(t) == IsSeq(t) /\ \A k \in 1..Len(t) : t[k][1] # "head"

LEMMA HeadsFinite ==
  ASSUME NEW s, IsSeq(s)
  PROVE  IsFiniteSet(HeadsOf(s)) /\ Cardinality(HeadsOf(s)) \in Nat
<1>1. IsFiniteSet(1..Len(s))  BY SeqLen, FS_Interval
<1>2. HeadsOf(s) \in SUBSET (1..Len(s))  BY DEF HeadsOf
<1> QED  BY <1>1, <1>2, FS_Subset, FS_CardinalityType

LEMMA AnswerAppended ==
  ASSUME NEW s, IsSeq(s), NEW t, IsAnswer(t)
  PROVE  /\ IsSeq(s \o t) /\ Len(s \o t) = Len(s) + Len(t)
         /\ HeadsOf(s \o t) = HeadsOf(s) \cup {Len(s) + 1}
         /\ \A h \in HeadsOf(s \o t) : LastHeadIs(s \o t, h) <=> h = Len(s) + 1
         /\ (s \o t)[Len(s) + 1] = t[1]
         /\ Cardinality(HeadsOf(s \o t)) = Cardinality(HeadsOf(s)) + 1
<1> DEFINE u == s \o t
           m == Len(s)
<1>1. m \in Nat /\ Len(t) \in Nat /\ Len(t) >= 1  BY SeqLen DEF IsAnswer
<1>2. IsSeq(u) /\ Len(u) = m + Len(t)
      /\ \A k \in 1..m + Len(t) : u[k] = IF k <= m THEN s[k] ELSE t[k - m]
  BY Joined DEF IsAnswer
<1> HIDE DEF u, m
<1>3. m + 1 \in 1..m + Len(t) /\ ~(m + 1 <= m) /\ (m + 1) - m = 1  BY ONLY <1>1
<1>4. u[m + 1] = t[1]
  <2>1. u[m + 1] = t[(m + 1) - m]  BY <1>2, <1>3
  <2> QED  BY <2>1, <1>3
<1>5. \A k \in 1..m : u[k] = s[k]
  <2> TAKE k \in 1..m
  <2>1. k \in 1..m + Len(t) /\ k <= m  BY <1>1
  <2> QED  BY <2>1, <1>2
<1>6. \A k \in m + 2..m + Len(t) : u[k][1] # "head"
  <2> TAKE k \in m + 2..m + Len(t)
  <2>1. k \in 1..m + Len(t) /\ ~(k <= m) /\ k - m \in 2..Len(t)  BY <1>1
  <2>2. u[k] = t[k - m]  BY <2>1, <1>2
  <2> QED  BY <2>1, <2>2 DEF IsAnswer
<1>7. HeadsOf(u) = HeadsOf(s) \cup {m + 1}
  <2>1. ASSUME NEW k \in HeadsOf(u)  PROVE k \in HeadsOf(s) \cup {m + 1}
    <3>1. k \in 1..m + Len(t) /\ u[k][1] = "head"  BY <2>1, <1>2 DEF HeadsOf
    <3>2. ~(k \in m + 2..m + Len(t))  BY <3>1, <1>6
    <3>3. k \in 1..m \/ k = m + 1  BY <3>1, <3>2, <1>1
    <3>4. k \in 1..m => k \in HeadsOf(s)  BY <3>1, <1>5 DEF HeadsOf, m
    <3> QED  BY <3>3, <3>4
  <2>2. ASSUME NEW k \in HeadsOf(s)  PROVE k \in HeadsOf(u)
    <3>1. k \in 1..m /\ s[k][1] = "head"  BY <2>2 DEF HeadsOf, m
    <3>2. k \in 1..m + Len(t)  BY <3>1, <1>1
    <3> QED  BY <3>1, <3>2, <1>2, <1>5 DEF HeadsOf
  <2>3. m + 1 \in HeadsOf(u)
    <3>1. u[m + 1][1] = "head"  BY <1>4 DEF IsAnswer
    <3> QED  BY <3>1, <1>2, <1>3 DEF HeadsOf
  <2> QED  BY <2>1, <2>2, <2>3
<1>8. ASSUME NEW h \in HeadsOf(u)  PROVE LastHeadIs(u, h) <=> h = m + 1
  <2>1. CASE h = m + 1
    <3>1. h + 1 = m + 2  BY <2>1, <1>1
    <3> QED  BY <2>1, <3>1, <1>2, <1>6 DEF LastHeadIs
  <2>2. CASE h # m + 1
    <3>1. h \in 1..m  BY <2>2, <1>7 DEF HeadsOf, m
    <3>2. m + 1 \in h + 1..m + Len(t)  BY <3>1, <1>1
    <3>3. u[m + 1][1] = "head"  BY <1>4 DEF IsAnswer
    <3> QED  BY <2>2, <3>2, <3>3, <1>2 DEF LastHeadIs
  <2> QED  BY <2>1, <2>2
<1>9. Cardinality(HeadsOf(u)) = Cardinality(HeadsOf(s)) + 1
  <2>1. m + 1 \notin HeadsOf(s)
    <3>1. m + 1 \notin 1..m  BY <1>1
    <3> QED  BY <3>1 DEF HeadsOf, m
  <2> QED  BY <2>1, <1>7, HeadsFinite, FS_AddElement
<1> QED  BY <1>2, <1>4, <1>7, <1>8, <1>9 DEF u, m

LEMMA RestAppended ==
  ASSUME NEW s, IsSeq(s), NEW t, IsRest(t)
  PROVE  /\ IsSeq(s \o t) /\ Len(s \o t) = Len(s) + Len(t)
         /\ HeadsOf(s \o t) = HeadsOf(s)
         /\ \A h \in HeadsOf(s) : (LastHeadIs(s \o t, h) <=> LastHeadIs(s, h)) /\ (s \o t)[h] = s[h]
<1> DEFINE u == s \o t
           m == Len(s)
<1>1. m \in Nat /\ Len(t) \in Nat  BY SeqLen DEF IsRest
<1>2. IsSeq(u) /\ Len(u) = m + Len(t)
      /\ \A k \in 1..m + Len(t) : u[k] = IF k <= m THEN s[k] ELSE t[k - m]
  BY Joined DEF IsRest
<1> HIDE DEF u, m
<1>5. \A k \in 1..m : u[k] = s[k]
  <2> TAKE k \in 1..m
  <2>1. k \in 1..m + Len(t) /\ k <= m  BY <1>1
  <2> QED  BY <2>1, <1>2
<1>6. \A k \in m + 1..m + Len(t) : u[k][1] # "head"
  <2> TAKE k \in m + 1..m + Len(t)
  <2>1. k \in 1..m + Len(t) /\ ~(k <= m) /\ k - m \in 1..Len(t)  BY <1>1
  <2>2. u[k] = t[k - m]  BY <2>1, <1>2
  <2> QED  BY <2>1, <2>2 DEF IsRest
<1>7. HeadsOf(u) = HeadsOf(s)
  <2>1. ASSUME NEW k \in HeadsOf(u)  PROVE k \in HeadsOf(s)
    <3>1. k \in 1..m + Len(t) /\ u[k][1] = "head"  BY <2>1, <1>2 DEF HeadsOf
    <3>2. ~(k \in m + 1..m + Len(t))  BY <3>1, <1>6
    <3>3. k \in 1..m  BY <3>1, <3>2, <1>1
    <3> QED  BY <3>1, <3>3, <1>5 DEF HeadsOf, m
  <2>2. ASSUME NEW k \in HeadsOf(s)  PROVE k \in HeadsOf(u)
    <3>1. k \in 1..m /\ s[k][1] = "head"  BY <2>2 DEF HeadsOf, m
    <3>2. k \in 1..m + Len(t)  BY <3>1, <1>1
    <3> QED  BY <3>1, <3>2, <1>2, <1>5 DEF HeadsOf
  <2> QED  BY <2>1, <2>2
<1>8. ASSUME NEW h \in HeadsOf(s)  PROVE (LastHeadIs(u, h) <=> LastHeadIs(s, h)) /\ u[h] = s[h]
  <2>1. h \in 1..m  BY DEF HeadsOf, m
  <2>2. u[h] = s[h]  BY <2>1, <1>5
  <2>3. ASSUME LastHeadIs(u, h)  PROVE LastHeadIs(s, h)
    <3>1. ASSUME NEW j \in h + 1..m  PROVE s[j][1] # "head"
      <4>1. j \in h + 1..m + Len(t) /\ j \in 1..m  BY <2>1, <1>1
      <4> QED  BY <4>1, <2>3, <1>2, <1>5 DEF LastHeadIs
    <3> QED  BY <3>1 DEF LastHeadIs, m
  <2>4. ASSUME LastHeadIs(s, h)  PROVE LastHeadIs(u, h)
    <3>1. ASSUME NEW j \in h + 1..m + Len(t)  PROVE u[j][1] # "head"
      <4>1. j \in h + 1..m \/ j \in m + 1..m + Len(t)  BY <2>1, <1>1
      <4>2. j \in h + 1..m => j \in 1..m  BY <2>1, <1>1
      <4>3. CASE j \in h + 1..m  BY <4>2, <4>3, <2>4, <1>5 DEF LastHeadIs, m
      <4> QED  BY <4>1, <4>3, <1>6
    <3> QED  BY <3>1, <1>2, <1>7 DEF LastHeadIs
  <2> QED  BY <2>2, <2>3, <2>4
<1> QED  BY <1>2, <1>7, <1>8 DEF u, m

LEMMA RangesAfterAnswer ==
  ASSUME NEW s, IsSeq(s), RangesOK(s), Done(s), NEW t, IsAnswer(t),
         IsFileReply(t[1]) =>
           /\ t[1][3] \in Nat /\ Len(t) - 1 <= t[1][3]
           /\ \A k \in 2..Len(t) : t[k] = <<"unit", t[1][5], t[1][6] + (k - 1) - 1>>
  PROVE  RangesOK(s \o t)
<1> DEFINE u == s \o t
           m == Len(s)
<1>1. m \in Nat /\ Len(t) \in Nat /\ Len(t) >= 1  BY SeqLen DEF IsAnswer
<1>2. Len(u) = m + Len(t)
      /\ \A k \in 1..m + Len(t) : u[k] = IF k <= m THEN s[k] ELSE t[k - m]
  BY Joined DEF IsAnswer
<1>3. HeadsOf(u) = HeadsOf(s) \cup {m + 1} /\ u[m + 1] = t[1]  BY AnswerAppended
<1> HIDE DEF u, m
<1>5. \A k \in 1..m : u[k] = s[k]
  <2> TAKE k \in 1..m
  <2>1. k \in 1..m + Len(t) /\ k <= m  BY <1>1
  <2> QED  BY <2>1, <1>2
<1>6. \A k \in m + 2..m + Len(t) : k - m \in 2..Len(t) /\ u[k] = t[k - m]
  <2> TAKE k \in m + 2..m + Len(t)
  <2>1. k \in 1..m + Len(t) /\ ~(k <= m) /\ k - m \in 2..Len(t)  BY <1>1
  <2> QED  BY <2>1, <1>2
<1> SUFFICES ASSUME NEW h \in HeadsOf(u), IsFileReply(u[h])
             PROVE  /\ u[h][3] \in Nat
                    /\ \A j \in h + 1..Len(u) : (\A k \in h + 1..j - 1 : u[k][1] # "head") =>
                         IF u[j][1] = "head" THEN j - h - 1 = u[h][3]
                         ELSE j - h <= u[h][3] /\ u[j] = <<"unit", u[h][5], u[h][6] + (j - h) - 1>>
  BY DEF RangesOK, u
<1>7. CASE h = m + 1
  <2>1. u[h] = t[1]  BY <1>7, <1>3
  <2>2. ASSUME NEW j \in h + 1..Len(u)
        PROVE  /\ u[j][1] # "head"
               /\ j - h <= u[h][3] /\ u[j] = <<"unit", u[h][5], u[h][6] + (j - h) - 1>>
    <3>1. j \in m + 2..m + Len(t)  BY <1>7, <1>1, <1>2
    <3>2. j - m \in 2..Len(t) /\ u[j] = t[j - m]  BY <3>1, <1>6
    <3>3. t[j - m] = <<"unit", t[1][5], t[1][6] + ((j - m) - 1) - 1>> /\ t[1][3] \in Nat /\ Len(t) - 1 <= t[1][3]
      BY <2>1, <3>2
    <3>4. (j - m) - 1 = j - h  BY <3>1, <1>7, <1>1
    <3>5. j - h <= t[1][3]
      <4>1. j \in Int /\ m \in Nat /\ j <= m + Len(t)  BY <3>1, <1>1
      <4> QED  BY ONLY <4>1, <1>1, <3>3, <1>7
    <3>6. u[j][1] # "head"  BY <3>2, <1>1 DEF IsAnswer
    <3> QED  BY <2>1, <3>2, <3>3, <3>4, <3>5, <3>6
  <2>3. u[h][3] \in Nat  BY <2>1
  <2> QED  BY <2>2, <2>3
<1>8. CASE h # m + 1
  <2>1. h \in HeadsOf(s) /\ h \in 1..m  BY <1>8, <1>3 DEF HeadsOf, m
  <2>2. u[h] = s[h]  BY <2>1, <1>5
  <2>3. s[h][3] \in Nat  BY <2>1, <2>2 DEF RangesOK
  <2>4. ASSUME NEW j \in h + 1..Len(u), \A k \in h + 1..j - 1 : u[k][1] # "head"
        PROVE  IF u[j][1] = "head" THEN j - h - 1 = u[h][3]
               ELSE j - h <= u[h][3] /\ u[j] = <<"unit", u[h][5], u[h][6] + (j - h) - 1>>
    <3>1. CASE j \in 1..m
      <4>1. j \in h + 1..Len(s) /\ u[j] = s[j]  BY <3>1, <2>1, <1>1, <1>5 DEF m
      <4>2. \A k \in h + 1..j - 1 : k \in 1..m  BY <3>1, <2>1, <1>1
      <4>3. \A k \in h + 1..j - 1 : s[k][1] # "head"  BY <4>2, <2>4, <1>5
      <4> QED  BY <4>1, <4>3, <2>1, <2>2 DEF RangesOK
    <3>2. CASE j \notin 1..m
      <4>1. j \in m + 1..m + Len(t)  BY <3>2, <2>1, <1>1, <1>2
      <4>2. u[m + 1][1] = "head"  BY <1>3 DEF IsAnswer
      <4>3. m + 1 \notin h + 1..j - 1  BY <4>2, <2>4
      <4>4. j = m + 1  BY <4>1, <4>3, <2>1, <1>1
      <4>5. ASSUME NEW k \in h + 1..Len(s)  PROVE s[k][1] # "head"
        <5>1. k \in h + 1..j - 1 /\ k \in 1..m  BY <4>4, <2>1, <1>1 DEF m
        <5> QED  BY <5>1, <2>4, <1>5
      <4>6. Len(s) - h = s[h][3]  BY <4>5, <2>1, <2>2 DEF Done, LastHeadIs
      <4>7. j - h - 1 = m - h  BY <4>4, <2>1, <1>1
      <4> QED  BY <4>2, <4>4, <4>6, <4>7, <2>2 DEF m
    <3> QED  BY <3>1, <3>2
  <2> QED  BY <2>2, <2>3, <2>4
<1> QED  BY <1>7, <1>8

LEMMA RangesAfterRest ==
  ASSUME NEW s, IsSeq(s), RangesOK(s), NEW t, IsRest(t),
         \A h \in HeadsOf(s) : LastHeadIs(s, h) /\ IsFileReply(s[h]) =>
           /\ (Len(s) - h) + Len(t) <= s[h][3]
           /\ \A k \in 1..Len(t) : t[k] = <<"unit", s[h][5], s[h][6] + ((Len(s) - h) + k) - 1>>
  PROVE  RangesOK(s \o t)
<1> DEFINE u == s \o t
           m == Len(s)
<1>1. m \in Nat /\ Len(t) \in Nat  BY SeqLen DEF IsRest
<1>2. Len(u) = m + Len(t)
      /\ \A k \in 1..m + Len(t) : u[k] = IF k <= m THEN s[k] ELSE t[k - m]
  BY Joined DEF IsRest
<1>3. HeadsOf(u) = HeadsOf(s)  BY RestAppended
<1> HIDE DEF u, m
<1>5. \A k \in 1..m : u[k] = s[k]
  <2> TAKE k \in 1..m
  <2>1. k \in 1..m + Len(t) /\ k <= m  BY <1>1
  <2> QED  BY <2>1, <1>2
<1>6. \A k \in m + 1..m + Len(t) : k - m \in 1..Len(t) /\ u[k] = t[k - m]
  <2> TAKE k \in m + 1..m + Len(t)
  <2>1. k \in 1..m + Len(t) /\ ~(k <= m) /\ k - m \in 1..Len(t)  BY <1>1
  <2> QED  BY <2>1, <1>2
<1> SUFFICES ASSUME NEW h \in HeadsOf(u), IsFileReply(u[h])
             PROVE  /\ u[h][3] \in Nat
                    /\ \A j \in h + 1..Len(u) : (\A k \in h + 1..j - 1 : u[k][1] # "head") =>
                         IF u[j][1] = "head" THEN j - h - 1 = u[h][3]
                         ELSE j - h <= u[h][3] /\ u[j] = <<"unit", u[h][5], u[h][6] + (j - h) - 1>>
  BY DEF RangesOK, u
<1>8. h \in HeadsOf(s) /\ h \in 1..m  BY <1>3 DEF HeadsOf, m
<1>9. u[h] = s[h]  BY <1>8, <1>5
<1>10. s[h][3] \in Nat  BY <1>8, <1>9 DEF RangesOK
<1>11. ASSUME NEW j \in h + 1..Len(u), \A k \in h + 1..j - 1 : u[k][1] # "head"
       PROVE  IF u[j][1] = "head" THEN j - h - 1 = u[h][3]
              ELSE j - h <= u[h][3] /\ u[j] = <<"unit", u[h][5], u[h][6] + (j - h) - 1>>
  <2>1. CASE j \in 1..m
    <3>1. j \in h + 1..Len(s) /\ u[j] = s[j]  BY <2>1, <1>8, <1>1, <1>5 DEF m
    <3>2. \A k \in h + 1..j - 1 : k \in 1..m  BY <2>1, <1>8, <1>1
    <3>3. \A k \in h + 1..j - 1 : s[k][1] # "head"  BY <3>2, <1>11, <1>5
    <3> QED  BY <3>1, <3>3, <1>8, <1>9 DEF RangesOK
  <2>2. CASE j \notin 1..m
    <3>1. j \in m + 1..m + Len(t)  BY <2>2, <1>8, <1>1, <1>2
    <3>2. j - m \in 1..Len(t) /\ u[j] = t[j - m]  BY <3>1, <1>6
    <3>3. ASSUME NEW k \in h + 1..Len(s)  PROVE s[k][1] # "head"
      <4>1. k \in h + 1..j - 1 /\ k \in 1..m  BY <3>1, <1>8, <1>1 DEF m
      <4> QED  BY <4>1, <1>11, <1>5
    <3>4. LastHeadIs(s, h)  BY <3>3, <1>8 DEF LastHeadIs
    <3>5. (m - h) + Len(t) <= s[h][3] /\ t[j - m] = <<"unit", s[h][5], s[h][6] + ((m - h) + (j - m)) - 1>>
      BY <3>2, <3>4, <1>8, <1>9 DEF m
    <3>6. (m - h) + (j - m) = j - h  BY <3>1, <1>8, <1>1
    <3>7. j - h <= s[h][3]
      <4>1. j \in Int /\ h \in Int /\ j <= m + Len(t)  BY <3>1, <1>8, <1>1
      <4> QED  BY ONLY <4>1, <1>1, <1>10, <3>5
    <3>8. u[j][1] # "head"  BY <3>2 DEF IsRest
    <3> QED  BY <1>9, <3>2, <3>5, <3>6, <3>7, <3>8
  <2> QED  BY <2>1, <2>2
<1> QED  BY <1>9, <1>10, <1>11

LEMMA LastUnique ==
  ASSUME NEW s, IsSeq(s), NEW g, LastHeadIs(s, g), NEW h, LastHeadIs(s, h)
  PROVE  g = h
<1>1. g \in 1..Len(s) /\ h \in 1..Len(s) /\ s[g][1] = "head" /\ s[h][1] = "head"
  BY DEF LastHeadIs, HeadsOf
<1>2. Len(s) \in Nat  BY SeqLen
<1>3. ~(g \in h + 1..Len(s)) /\ ~(h \in g + 1..Len(s))  BY <1>1 DEF LastHeadIs
<1> QED  BY <1>1, <1>2, <1>3

(* An answer that is not a file.                                           *)
LEMMA PlainAnswer ==
  ASSUME NEW s, IsSeq(s), RangesOK(s), Done(s), NEW t, IsAnswer(t), t[1][5] \notin Inodes
  PROVE  /\ RangesOK(s \o t) /\ Done(s \o t)
         /\ t[1][3] = UntilClose => EndsOpen(s \o t)
<1>1. RangesOK(s \o t)  BY RangesAfterAnswer DEF IsFileReply
<1>2. /\ HeadsOf(s \o t) = HeadsOf(s) \cup {Len(s) + 1}
      /\ \A h \in HeadsOf(s \o t) : LastHeadIs(s \o t, h) <=> h = Len(s) + 1
      /\ (s \o t)[Len(s) + 1] = t[1]
  BY AnswerAppended
<1>3. Done(s \o t)  BY <1>2 DEF Done, IsFileReply
<1>4. t[1][3] = UntilClose => EndsOpen(s \o t)  BY <1>2 DEF EndsOpen
<1> QED  BY <1>1, <1>3, <1>4

(* More of an answer that lasts until the connection is closed.            *)
LEMMA OpenContinues ==
  ASSUME NEW s, IsSeq(s), RangesOK(s), EndsOpen(s), NEW t, IsRest(t)
  PROVE  RangesOK(s \o t) /\ Done(s \o t) /\ EndsOpen(s \o t) /\ HeadsOf(s \o t) = HeadsOf(s)
<1>1. PICK h \in HeadsOf(s) : LastHeadIs(s, h) /\ s[h][3] = UntilClose  BY DEF EndsOpen
<1>2. UntilClose \notin Nat  BY DEF UntilClose
<1>3. ~IsFileReply(s[h])  BY <1>1, <1>2 DEF RangesOK
<1>4. \A g \in HeadsOf(s) : LastHeadIs(s, g) => ~IsFileReply(s[g])  BY <1>1, <1>3, LastUnique
<1>5. /\ HeadsOf(s \o t) = HeadsOf(s)
      /\ \A g \in HeadsOf(s) : (LastHeadIs(s \o t, g) <=> LastHeadIs(s, g)) /\ (s \o t)[g] = s[g]
  BY RestAppended
<1>6. RangesOK(s \o t)  BY <1>4, RangesAfterRest
<1>7. Done(s \o t)  BY <1>4, <1>5 DEF Done
<1>8. EndsOpen(s \o t)  BY <1>1, <1>5 DEF EndsOpen
<1> QED  BY <1>5, <1>6, <1>7, <1>8

LEMMA EndsOpenDone ==
  ASSUME NEW s, IsSeq(s), RangesOK(s), EndsOpen(s)
  PROVE  Done(s)
<1>1. IsRest(<<>>)  BY NoSeq DEF IsRest
<1>2. s \o <<>> = s  BY Nothing
<1> QED  BY <1>1, <1>2, OpenContinues

(* n units of a file from position pos on.                                 *)
UnitsOf(i, pos, n) == [k \in 1..n |-> <<"unit", i, pos + k - 1>>]

LEMMA UnitsAre ==
  ASSUME NEW i, NEW pos, NEW n \in Nat
  PROVE  /\ IsRest(UnitsOf(i, pos, n)) /\ Len(UnitsOf(i, pos, n)) = n
         /\ \A k \in 1..n : UnitsOf(i, pos, n)[k] = <<"unit", i, pos + k - 1>>
<1>1. UnitsOf(i, pos, n) = [k \in 1..n |-> UnitsOf(i, pos, n)[k]]  BY DEF UnitsOf
<1>2. IsSeq(UnitsOf(i, pos, n)) /\ Len(UnitsOf(i, pos, n)) = n
  <2> DEFINE u == UnitsOf(i, pos, n)
  <2>1. u = [k \in 1..n |-> u[k]]  BY <1>1
  <2> HIDE DEF u
  <2> QED  BY <2>1, Counting DEF u
<1>3. \A k \in 1..n : UnitsOf(i, pos, n)[k] = <<"unit", i, pos + k - 1>>  BY DEF UnitsOf
<1> QED  BY <1>2, <1>3 DEF IsRest

(* u is s with n more units of what its last head announces.               *)
Continued(s, u, h, n) ==
  /\ IsSeq(u) /\ RangesOK(u) /\ HeadsOf(u) = HeadsOf(s) /\ LastHeadIs(u, h)
  /\ u[h] = s[h] /\ Len(u) - h = (Len(s) - h) + n

(* As long as the range is not exceeded, more of the file keeps it whole.  *)
LEMMA FileContinues ==
  ASSUME NEW s, IsSeq(s), RangesOK(s), NEW h \in HeadsOf(s), LastHeadIs(s, h), s[h][6] \in Int,
         NEW n \in Nat, (Len(s) - h) + n <= s[h][3],
         NEW i, i = s[h][5], NEW pos, pos = s[h][6] + (Len(s) - h)
  PROVE  Continued(s, s \o UnitsOf(i, pos, n), h, n)
<1> DEFINE t == UnitsOf(i, pos, n)
<1>1. IsRest(t) /\ Len(t) = n /\ \A k \in 1..n : t[k] = <<"unit", i, pos + k - 1>>  BY UnitsAre
<1> HIDE DEF t
<1>2. /\ IsSeq(s \o t) /\ Len(s \o t) = Len(s) + n /\ HeadsOf(s \o t) = HeadsOf(s)
      /\ LastHeadIs(s \o t, h) /\ (s \o t)[h] = s[h]
  BY <1>1, RestAppended
<1>3. Len(s) \in Nat /\ h \in 1..Len(s)  BY SeqLen DEF HeadsOf
<1>4. ASSUME NEW g \in HeadsOf(s), LastHeadIs(s, g)
      PROVE  /\ (Len(s) - g) + Len(t) <= s[g][3]
             /\ \A k \in 1..Len(t) : t[k] = <<"unit", s[g][5], s[g][6] + ((Len(s) - g) + k) - 1>>
  <2>1. g = h  BY <1>4, LastUnique
  <2>2. ASSUME NEW k \in 1..n  PROVE pos + k - 1 = s[h][6] + ((Len(s) - h) + k) - 1
    <3>1. k \in Int /\ Len(s) \in Int /\ h \in Int  BY <1>3
    <3> QED  BY ONLY <3>1, s[h][6] \in Int, pos = s[h][6] + (Len(s) - h)
  <2> QED  BY <2>1, <2>2, <1>1
<1>5. RangesOK(s \o t)  BY <1>1, <1>4, RangesAfterRest
<1>6. (Len(s) + n) - h = (Len(s) - h) + n  BY <1>3
<1> QED  BY <1>2, <1>5, <1>6 DEF t, Continued

(* What has arrived, of all that was sent.                                 *)
LEMMA Arrived ==
  ASSUME NEW g, IsSeq(g), NEW t, IsSeq(t)
  PROVE  /\ RangesOK(g \o t) => RangesOK(g)
         /\ HeadsOf(g) \subseteq HeadsOf(g \o t)
         /\ Cardinality(HeadsOf(g)) <= Cardinality(HeadsOf(g \o t))
         /\ (Cardinality(HeadsOf(g)) = Cardinality(HeadsOf(g \o t))) => HeadsOf(g) = HeadsOf(g \o t)
         /\ \A k \in 1..Len(g) : (g \o t)[k] = g[k]
<1> DEFINE u == g \o t
           m == Len(g)
<1>1. m \in Nat /\ Len(t) \in Nat  BY SeqLen
<1>2. IsSeq(u) /\ Len(u) = m + Len(t)
      /\ \A k \in 1..m + Len(t) : u[k] = IF k <= m THEN g[k] ELSE t[k - m]
  BY Joined
<1> HIDE DEF u, m
<1>3. \A k \in 1..m : u[k] = g[k]
  <2> TAKE k \in 1..m
  <2>1. k \in 1..m + Len(t) /\ k <= m  BY <1>1
  <2> QED  BY <2>1, <1>2
<1>4. \A k \in 1..m : k \in 1..Len(u)  BY <1>1, <1>2
<1>5. HeadsOf(g) \subseteq HeadsOf(u)  BY <1>3, <1>4 DEF HeadsOf, m
<1>6. /\ Cardinality(HeadsOf(g)) <= Cardinality(HeadsOf(u))
      /\ (Cardinality(HeadsOf(g)) = Cardinality(HeadsOf(u))) => HeadsOf(g) = HeadsOf(u)
  BY <1>2, <1>5, HeadsFinite, FS_Subset
<1>7. ASSUME RangesOK(u), NEW a \in HeadsOf(g), IsFileReply(g[a])
      PROVE  /\ g[a][3] \in Nat
             /\ \A j \in a + 1..Len(g) : (\A k \in a + 1..j - 1 : g[k][1] # "head") =>
                  IF g[j][1] = "head" THEN j - a - 1 = g[a][3]
                  ELSE j - a <= g[a][3] /\ g[j] = <<"unit", g[a][5], g[a][6] + (j - a) - 1>>
  <2>1. a \in 1..m /\ a \in HeadsOf(u)  BY <1>5 DEF HeadsOf, m
  <2>2. u[a] = g[a]  BY <2>1, <1>3
  <2>3. ASSUME NEW j \in a + 1..Len(g), \A k \in a + 1..j - 1 : g[k][1] # "head"
        PROVE  IF g[j][1] = "head" THEN j - a - 1 = g[a][3]
               ELSE j - a <= g[a][3] /\ g[j] = <<"unit", g[a][5], g[a][6] + (j - a) - 1>>
    <3>1. j \in 1..m /\ j \in a + 1..Len(u)  BY <2>1, <1>1, <1>2 DEF m
    <3>2. \A k \in a + 1..j - 1 : k \in 1..m  BY <3>1, <2>1, <1>1
    <3>3. \A k \in a + 1..j - 1 : u[k][1] # "head"  BY <3>2, <2>3, <1>3
    <3>4. u[j] = g[j]  BY <3>1, <1>3
    <3> QED  BY <3>1, <3>3, <3>4, <2>1, <2>2, <1>7 DEF RangesOK
  <2>4. g[a][3] \in Nat  BY <2>1, <2>2, <1>7 DEF RangesOK
  <2> QED  BY <2>3, <2>4
<1>8. RangesOK(u) => RangesOK(g)  BY <1>7 DEF RangesOK
<1> QED  BY <1>3, <1>5, <1>6, <1>8 DEF u, m

-----------------------------------------------------------------------------
(* The least and the greatest number of a set.                             *)
LEMMA LeastElement ==
  ASSUME NEW T, T \subseteq Nat, T # {}
  PROVE  \E n \in T : \A m \in T : n <= m
<1> DEFINE R == {ss \in Nat \X Nat : ss[1] < ss[2]}
<1>1. IsWellFoundedOn(R, Nat)  BY NatLessThanWellFounded DEF OpToRel
<1> HIDE DEF R
<1>2. PICK n \in T : \A m \in T : ~(<<m, n>> \in R)  BY <1>1, WFMin
<1>3. ASSUME NEW m \in T  PROVE n <= m
  <2>1. m \in Nat /\ n \in Nat  OBVIOUS
  <2>2. m < n => <<m, n>> \in R  BY <2>1 DEF R
  <2> QED  BY <1>2, <2>1, <2>2
<1> QED  BY <1>3

LEMMA MinIn ==
  ASSUME NEW T, T \subseteq Nat, T # {}
  PROVE  Min(T) \in T /\ \A m \in T : Min(T) <= m
<1>1. PICK n \in T : \A m \in T : n <= m  BY LeastElement
<1> QED  BY <1>1, Zenon DEF Min

LEMMA MaxIn ==
  ASSUME NEW b \in Nat, NEW T, T \subseteq 0..b, T # {}
  PROVE  Max(T) \in T /\ \A m \in T : Max(T) >= m
<1> DEFINE D == {b - m : m \in T}
<1>1. D \subseteq Nat /\ D # {}
  <2>1. \A m \in T : m \in 0..b  OBVIOUS
  <2>2. \A m \in 0..b : b - m \in Nat  OBVIOUS
  <2> QED  BY <2>1, <2>2
<1>2. PICK d \in D : \A e \in D : d <= e  BY <1>1, LeastElement
<1>3. PICK n \in T : d = b - n  OBVIOUS
<1>4. ASSUME NEW m \in T  PROVE n >= m
  <2>1. b - n <= b - m  BY <1>2, <1>3
  <2>2. n \in Int /\ m \in Int  OBVIOUS
  <2> QED  BY ONLY <2>1, <2>2, b \in Nat
<1> QED  BY <1>3, <1>4, Zenon DEF Max

LEMMA MinOfTwo ==
  ASSUME NEW a \in Int, NEW b \in Int
  PROVE  Min({a, b}) = IF a <= b THEN a ELSE b
<1> DEFINE m == IF a <= b THEN a ELSE b
<1>1. m \in {a, b} /\ \A y \in {a, b} : m <= y  OBVIOUS
<1>2. \A x \in {a, b} : (\A y \in {a, b} : x <= y) => x = m  OBVIOUS
<1> HIDE DEF m
<1>3. Min({a, b}) = m  BY <1>1, <1>2 DEF Min
<1> QED  BY <1>3 DEF m

LEMMA MaxOfTwo ==
  ASSUME NEW a \in Int, NEW b \in Int
  PROVE  Max({a, b}) = IF a >= b THEN a ELSE b
<1> DEFINE m == IF a >= b THEN a ELSE b
<1>1. m \in {a, b} /\ \A y \in {a, b} : m >= y  OBVIOUS
<1>2. \A x \in {a, b} : (\A y \in {a, b} : x >= y) => x = m  OBVIOUS
<1> HIDE DEF m
<1>3. Max({a, b}) = m  BY <1>1, <1>2 DEF Max
<1> QED  BY <1>3 DEF m

-----------------------------------------------------------------------------
(* What is done to the client's connection on the way to an answer.        *)
Kept(w, v) ==
  /\ Shape(v) /\ v.part = w.part /\ v.err = w.err
  /\ v.nc.open = w.nc.open /\ v.nc.recv = w.nc.recv
  /\ v.nc.file = w.nc.file /\ v.nc.cgi = w.nc.cgi /\ v.nc.linked = w.nc.linked
  /\ "parse_headers" \in v.nc.flags <=> "parse_headers" \in w.nc.flags

LEMMA SendKeeps ==
  ASSUME NEW w, Shape(w), NEW t, IsSeq(t)
  PROVE  /\ Kept(w, mg_send(w, t)) /\ mg_send(w, t).nc.send = w.nc.send \o t
         /\ mg_send(w, t).fs = w.fs
<1> DEFINE v == mg_send(w, t)
<1>1. IsSeq(w.nc.send \o t)  BY Joined DEF Shape
<1>2. /\ v.nc = [w.nc EXCEPT !.send = w.nc.send \o t] /\ DOMAIN v = DOMAIN w
      /\ v.part = w.part /\ v.fs = w.fs /\ v.err = w.err
  BY DEF mg_send, Shape
<1> HIDE DEF v
<1>3. /\ v.nc.send = w.nc.send \o t /\ DOMAIN v.nc = DOMAIN w.nc
      /\ \A f \in DOMAIN NewConn \ {"send"} : v.nc[f] = w.nc[f]
  BY <1>2 DEF Shape, NewConn
<1>4. /\ v.nc.open = w.nc.open /\ v.nc.recv = w.nc.recv /\ v.nc.rcvd = w.nc.rcvd
      /\ v.nc.file = w.nc.file /\ v.nc.cgi = w.nc.cgi /\ v.nc.linked = w.nc.linked
      /\ v.nc.flags = w.nc.flags
  BY <1>3 DEF NewConn
<1>5. Shape(v)  BY <1>1, <1>2, <1>3, <1>4 DEF Shape
<1> QED  BY <1>2, <1>3, <1>4, <1>5 DEF Kept, v

LEMMA FlagKeeps ==
  ASSUME NEW w, Shape(w), NEW f, f # "parse_headers"
  PROVE  Kept(w, Flag(w, f)) /\ Flag(w, f).nc.send = w.nc.send /\ Flag(w, f).fs = w.fs
<1> DEFINE v == Flag(w, f)
<1>2. /\ v.nc = [w.nc EXCEPT !.flags = w.nc.flags \cup {f}] /\ DOMAIN v = DOMAIN w
      /\ v.part = w.part /\ v.fs = w.fs /\ v.err = w.err
  BY DEF Flag, Shape
<1> HIDE DEF v
<1>3. /\ v.nc.flags = w.nc.flags \cup {f} /\ DOMAIN v.nc = DOMAIN w.nc
      /\ \A g \in DOMAIN NewConn \ {"flags"} : v.nc[g] = w.nc[g]
  BY <1>2 DEF Shape, NewConn
<1>4. /\ v.nc.open = w.nc.open /\ v.nc.recv = w.nc.recv /\ v.nc.rcvd = w.nc.rcvd
      /\ v.nc.file = w.nc.file /\ v.nc.cgi = w.nc.cgi /\ v.nc.linked = w.nc.linked
      /\ v.nc.send = w.nc.send
  BY <1>3 DEF NewConn
<1>5. Shape(v)  BY <1>2, <1>3, <1>4 DEF Shape
<1> QED  BY <1>2, <1>3, <1>4, <1>5 DEF Kept, v

LEMMA FsKeeps ==
  ASSUME NEW w, Shape(w), NEW fs \in FileSystems, NEW v, v = [w EXCEPT !.fs = fs]
  PROVE  Kept(w, v) /\ v.nc = w.nc /\ v.fs = fs
<1>1. v.nc = w.nc /\ v.part = w.part /\ v.err = w.err /\ v.fs = fs /\ DOMAIN v = DOMAIN w  BY DEF Shape
<1>2. Shape(v)  BY <1>1 DEF Shape
<1> QED  BY <1>1, <1>2 DEF Kept

LEMMA KeptTwice ==
  ASSUME NEW w, NEW v, NEW u, Kept(w, v), Kept(v, u)
  PROVE  Kept(w, u)
BY DEF Kept

-----------------------------------------------------------------------------
(* v is w after an answer, of the length cl, that is not a file and does   *)
(* not say that one was stored.                                            *)
Said(w, v, cl) ==
  /\ Kept(w, v)
  /\ \E t : /\ IsAnswer(t) /\ t[1][5] \notin Inodes /\ t[1][3] = cl /\ v.nc.send = w.nc.send \o t
            /\ ~IsPutReply(t[1])

LEMMA ConstantsOK ==
  /\ None \notin Inodes /\ Dir \notin Inodes /\ "endpoint" \notin Inodes
  /\ MaxSend \in Nat \ {0} /\ MaxPartners \in Nat /\ Cuttable \subseteq Inodes
BY FilesAssumption

LEMMA OneHead ==
  ASSUME NEW x, x[1] = "head"
  PROVE  IsAnswer(<<x>>) /\ <<x>>[1] = x /\ Len(<<x>>) = 1
<1>1. IsSeq(<<x>>) /\ Len(<<x>>) = 1 /\ <<x>>[1] = x  BY OneSeq
<1> QED  BY <1>1 DEF IsAnswer

LEMMA HeadSaid ==
  ASSUME NEW w, Shape(w), NEW x, x[1] = "head", x[5] \notin Inodes, ~IsPutReply(x), NEW cl, x[3] = cl
  PROVE  Said(w, mg_send(w, <<x>>), cl)
<1>1. IsAnswer(<<x>>) /\ <<x>>[1] = x  BY OneHead
<1>2. Kept(w, mg_send(w, <<x>>)) /\ mg_send(w, <<x>>).nc.send = w.nc.send \o <<x>>
  BY <1>1, SendKeeps DEF IsAnswer
<1> QED  BY <1>1, <1>2 DEF Said

LEMMA ReplySaid ==
  ASSUME NEW w, Shape(w), NEW r, NEW status, NEW cl, cl = UntilClose \/ status \notin {200, 201}
  PROVE  Said(w, Reply(w, r, status, cl), cl) /\ Reply(w, r, status, cl).fs = w.fs
<1> DEFINE x == <<"head", status, cl, r.name, None, 0>>
<1>1. x[1] = "head" /\ x[2] = status /\ x[5] = None /\ x[3] = cl  OBVIOUS
<1> HIDE DEF x
<1>p. ~IsPutReply(x)  BY <1>1 DEF IsPutReply, UntilClose
<1>2. Said(w, mg_send(w, <<x>>), cl)  BY <1>1, <1>p, HeadSaid, ConstantsOK
<1>3. mg_send(w, <<x>>).fs = w.fs  BY OneSeq, SendKeeps
<1> QED  BY <1>2, <1>3 DEF Reply, x

LEMMA FlagSaid ==
  ASSUME NEW w, NEW v, NEW cl, Said(w, v, cl), NEW f, f # "parse_headers"
  PROVE  Said(w, Flag(v, f), cl)
<1>1. Shape(v)  BY DEF Said, Kept
<1>2. Kept(v, Flag(v, f)) /\ Flag(v, f).nc.send = v.nc.send  BY <1>1, FlagKeeps
<1>3. Kept(w, Flag(v, f))  BY <1>2, KeptTwice DEF Said
<1> QED  BY <1>2, <1>3 DEF Said

LEMMA MoreSaid ==
  ASSUME NEW w, Shape(w), NEW v, NEW cl, Said(w, v, cl), NEW t, IsRest(t)
  PROVE  Said(w, mg_send(v, t), cl)
<1>1. PICK a : /\ IsAnswer(a) /\ a[1][5] \notin Inodes /\ a[1][3] = cl /\ v.nc.send = w.nc.send \o a
               /\ ~IsPutReply(a[1])
  BY DEF Said
<1>2. Shape(v)  BY DEF Said, Kept
<1>3. Kept(v, mg_send(v, t)) /\ mg_send(v, t).nc.send = v.nc.send \o t  BY <1>2, SendKeeps DEF IsRest
<1>4. Kept(w, mg_send(v, t))  BY <1>3, KeptTwice DEF Said
<1>5. mg_send(v, t).nc.send = w.nc.send \o (a \o t)
  <2>1. IsSeq(w.nc.send) /\ IsSeq(a) /\ IsSeq(t)  BY <1>1 DEF Shape, IsAnswer, IsRest
  <2>0. \A b : IsSeq(b) => (b \o a) \o t = b \o (a \o t)  BY <2>1, JoinedTwice
  <2>2. (w.nc.send \o a) \o t = w.nc.send \o (a \o t)  BY ONLY <2>0, <2>1
  <2> QED  BY <2>2, <1>1, <1>3
<1>6. IsAnswer(a \o t) /\ (a \o t)[1] = a[1]
  <2>1. Len(a) \in Nat /\ Len(t) \in Nat /\ Len(a) >= 1  BY <1>1, SeqLen DEF IsAnswer, IsRest
  <2>2. IsSeq(a \o t) /\ Len(a \o t) = Len(a) + Len(t)
        /\ \A k \in 1..Len(a) + Len(t) : (a \o t)[k] = IF k <= Len(a) THEN a[k] ELSE t[k - Len(a)]
    BY <1>1, Joined DEF IsAnswer, IsRest
  <2>3. (a \o t)[1] = a[1]  BY <2>1, <2>2
  <2>4. ASSUME NEW k \in 2..Len(a) + Len(t)  PROVE (a \o t)[k][1] # "head"
    <3>1. k \in 1..Len(a) + Len(t)  BY <2>1
    <3>2. CASE k <= Len(a)
      <4>1. k \in 2..Len(a)  BY <3>2, <2>1
      <4> QED  BY <4>1, <3>1, <3>2, <2>2, <1>1 DEF IsAnswer
    <3>3. CASE ~(k <= Len(a))
      <4>1. k - Len(a) \in 1..Len(t)  BY <3>3, <2>1
      <4> QED  BY <4>1, <3>1, <3>3, <2>2 DEF IsRest
    <3> QED  BY <3>2, <3>3
  <2>5. Len(a) + Len(t) >= 1  BY <2>1
  <2> QED  BY <1>1, <2>2, <2>3, <2>4, <2>5 DEF IsAnswer
<1> QED  BY <1>1, <1>4, <1>5, <1>6 DEF Said

LEMMA SaidAfter ==
  ASSUME NEW w, NEW x, Kept(w, x), x.nc.send = w.nc.send, NEW v, NEW cl, Said(x, v, cl)
  PROVE  Said(w, v, cl)
BY KeptTwice DEF Said

LEMMA ErrorSaid ==
  ASSUME NEW w, Shape(w), NEW r, NEW status
  PROVE  Said(w, mg_http_send_error(w, r, status), UntilClose)
BY ReplySaid, FlagSaid DEF mg_http_send_error

LEMMA OneText ==
  ASSUME NEW x, NEW i
  PROVE  IsRest(<<<<"text", x, i>>>>)
<1> DEFINE y == <<"text", x, i>>
<1>1. y[1] # "head"  OBVIOUS
<1> HIDE DEF y
<1>2. IsRest(<<y>>)  BY <1>1, OneSeq DEF IsRest
<1> QED  BY <1>2 DEF y

LEMMA NamesKept ==
  ASSUME NEW w, Shape(w), NEW names \in [Paths -> Inodes \cup {None, Dir}]
  PROVE  LET v == [w EXCEPT !.fs.names = names]
         IN  /\ Kept(w, v) /\ v.nc = w.nc /\ v.fs \in FileSystems
             /\ v.fs.names = names /\ v.fs.size = w.fs.size
<1> DEFINE v == [w EXCEPT !.fs.names = names]
<1> DEFINE fs == [w.fs EXCEPT !.names = names]
<1>1. fs \in FileSystems /\ fs.names = names /\ fs.size = w.fs.size  BY DEF Shape, FileSystems
<1>2. v = [w EXCEPT !.fs = fs]  OBVIOUS
<1> HIDE DEF fs
<1>3. Kept(w, v) /\ v.nc = w.nc /\ v.fs = fs
  <2>1. \A x : x = [w EXCEPT !.fs = fs] => Kept(w, x) /\ x.nc = w.nc /\ x.fs = fs  BY <1>1, FsKeeps
  <2> QED  BY <2>1, <1>2, Zenon
<1> HIDE DEF v
<1>4. Kept(w, v) /\ v.nc = w.nc /\ v.fs \in FileSystems /\ v.fs.names = names /\ v.fs.size = w.fs.size
  BY <1>1, <1>3
<1> QED  BY <1>4 DEF v

LEMMA NameSet ==
  ASSUME NEW w, Shape(w), NEW p, NEW x \in Inodes \cup {None, Dir}
  PROVE  Kept(w, SetName(w, p, x)) /\ SetName(w, p, x).nc = w.nc
<1> DEFINE names == [w.fs.names EXCEPT ![p] = x]
<1>1. names \in [Paths -> Inodes \cup {None, Dir}]  BY DEF Shape, FileSystems
<1>2. SetName(w, p, x) = [w EXCEPT !.fs.names = names]  BY DEF SetName
<1> HIDE DEF names
<1>3. Kept(w, [w EXCEPT !.fs.names = names]) /\ [w EXCEPT !.fs.names = names].nc = w.nc  BY <1>1, NamesKept
<1> QED  BY <1>2, <1>3

LEMMA MkcolSaid ==
  ASSUME NEW w, Shape(w), NEW r
  PROVE  Said(w, mg_handle_mkcol(w, r), UntilClose)
<1>1. Kept(w, SetName(w, r.target, Dir)) /\ SetName(w, r.target, Dir).nc = w.nc  BY NameSet
<1>2. Said(w, mg_http_send_error(SetName(w, r.target, Dir), r, 201), UntilClose)
  BY <1>1, ErrorSaid, SaidAfter DEF Kept
<1>3. \A status : Said(w, mg_http_send_error(w, r, status), UntilClose)  BY ErrorSaid
<1> QED  BY <1>2, <1>3 DEF mg_handle_mkcol

LEMMA DeleteSaid ==
  ASSUME NEW w, Shape(w), NEW r
  PROVE  Said(w, mg_handle_delete(w, r), UntilClose)
<1>1. Kept(w, SetName(w, r.target, None)) /\ SetName(w, r.target, None).nc = w.nc  BY NameSet
<1> DEFINE v == mg_remove_directory(w, r.target)
<1>2. Kept(w, v) /\ v.nc = w.nc
  <2>1. PICK S : mg_remove_directory(w, r.target) =
                   [w EXCEPT !.fs.names = [p \in Paths |-> IF p \in S THEN None ELSE w.fs.names[p]]]
    <3> DEFINE below == {p \in Paths : r.target \in Entry[p].over /\ Exists(w.fs, p)}
               kept == {p \in below : mg_is_file_hidden(p) \/ \E e \in Entry[p].over \cap below : mg_is_file_hidden(e)}
               S == {p \in Paths : p \in below \cup {r.target} /\ ~(p \in kept \/ \E q \in kept : p \in Entry[q].over)}
    <3>1. v = [w EXCEPT !.fs.names = [p \in Paths |->
                 IF p \in below \cup {r.target} /\ ~(p \in kept \/ \E q \in kept : p \in Entry[q].over)
                 THEN None ELSE @[p]]]
      BY DEF mg_remove_directory
    <3>2. \A p \in Paths : p \in S <=> p \in below \cup {r.target} /\ ~(p \in kept \/ \E q \in kept : p \in Entry[q].over)
      OBVIOUS
    <3> HIDE DEF below, kept, S
    <3>3. [p \in Paths |-> IF p \in below \cup {r.target} /\ ~(p \in kept \/ \E q \in kept : p \in Entry[q].over)
                           THEN None ELSE w.fs.names[p]]
          = [p \in Paths |-> IF p \in S THEN None ELSE w.fs.names[p]]
      BY <3>2
    <3> QED  BY <3>1, <3>3, Zenon
  <2> DEFINE names == [p \in Paths |-> IF p \in S THEN None ELSE w.fs.names[p]]
  <2>2. names \in [Paths -> Inodes \cup {None, Dir}]  BY DEF Shape, FileSystems
  <2>3. v = [w EXCEPT !.fs.names = names]  BY <2>1
  <2> HIDE DEF names, v
  <2> QED  BY <2>2, <2>3, NamesKept
<1> HIDE DEF v
<1>3. Said(w, mg_http_send_error(v, r, 204), UntilClose)  BY <1>2, ErrorSaid, SaidAfter DEF Kept
<1>4. Said(w, mg_http_send_error(SetName(w, r.target, None), r, 204), UntilClose)
  BY <1>1, ErrorSaid, SaidAfter DEF Kept
<1>5. Said(w, mg_http_send_error(w, r, 404), UntilClose)  BY ErrorSaid
<1> QED  BY <1>3, <1>4, <1>5 DEF mg_handle_delete, v

LEMMA MoveSaid ==
  ASSUME NEW w, Shape(w), NEW r
  PROVE  Said(w, mg_handle_move(w, r), UntilClose)
<1>1. \A status : Said(w, mg_http_send_error(w, r, status), UntilClose)  BY ErrorSaid
<1>2. ASSUME w.fs.names[r.target] \in Inodes
      PROVE  Said(w, mg_http_send_error(SetName(SetName(w, r.target, None), r.dest, w.fs.names[r.target]), r, 200),
                  UntilClose)
  <2> DEFINE x == SetName(w, r.target, None)
             y == SetName(x, r.dest, w.fs.names[r.target])
  <2>1. Kept(w, x) /\ x.nc = w.nc  BY NameSet
  <2> HIDE DEF x
  <2>2. Kept(x, y) /\ y.nc = x.nc  BY <2>1, <1>2, NameSet DEF Kept
  <2> HIDE DEF y
  <2>3. Kept(w, y) /\ y.nc = w.nc  BY <2>1, <2>2, KeptTwice
  <2>4. Said(y, mg_http_send_error(y, r, 200), UntilClose)  BY <2>3, ErrorSaid DEF Kept
  <2> QED  BY <2>3, <2>4, SaidAfter DEF x, y
<1> QED  BY <1>1, <1>2 DEF mg_handle_move

LEMMA PropfindSaid ==
  ASSUME NEW w, Shape(w), NEW r, NEW file
  PROVE  Said(w, mg_handle_propfind(w, r, file), UntilClose)
<1>1. \A status : Said(w, Reply(w, r, status, UntilClose), UntilClose)  BY ReplySaid
<1>2. \A x : Said(w, Flag(mg_send(Reply(w, r, 207, UntilClose), <<<<"text", x, 0>>>>), "send_and_close"), UntilClose)
  BY <1>1, OneText, MoreSaid, FlagSaid
<1> QED  BY <1>1, <1>2 DEF mg_handle_propfind

LEMMA PagesSaid ==
  ASSUME NEW w, Shape(w), NEW r, NEW path
  PROVE  /\ Said(w, mg_handle_ssi_request(w, r, path), UntilClose)
         /\ Said(w, mg_send_directory_listing(w, r, path), UntilClose)
         /\ Said(w, Flag(Reply(w, r, 200, UntilClose), "send_and_close"), UntilClose)
<1>1. Said(w, Reply(w, r, 200, UntilClose), UntilClose)  BY ReplySaid
<1>2. \A x : Said(w, Flag(mg_send(Reply(w, r, 200, UntilClose), <<<<"text", x, 0>>>>), "send_and_close"), UntilClose)
  BY <1>1, OneText, MoreSaid, FlagSaid
<1>3. Said(w, Flag(Reply(w, r, 200, UntilClose), "send_and_close"), UntilClose)  BY <1>1, FlagSaid
<1> QED  BY <1>2, <1>3 DEF mg_handle_ssi_request, mg_send_directory_listing

-----------------------------------------------------------------------------
(* The file that is open, and the buffer.                                  *)
Near(w, v) ==
  /\ Shape(v) /\ v.part = w.part /\ v.err = w.err
  /\ v.nc.open = w.nc.open
  /\ v.nc.cgi = w.nc.cgi /\ v.nc.linked = w.nc.linked
  /\ "parse_headers" \in v.nc.flags <=> "parse_headers" \in w.nc.flags

LEMMA FileSet ==
  ASSUME NEW w, Shape(w), NEW f, DOMAIN f = DOMAIN NoFile
  PROVE  LET v == [w EXCEPT !.nc.file = f]
         IN  Near(w, v) /\ v.nc.file = f /\ v.nc.send = w.nc.send /\ v.nc.recv = w.nc.recv /\ v.fs = w.fs
<1> DEFINE v == [w EXCEPT !.nc.file = f]
<1>1. /\ v.nc = [w.nc EXCEPT !.file = f] /\ DOMAIN v = DOMAIN w
      /\ v.part = w.part /\ v.fs = w.fs /\ v.err = w.err
  BY DEF Shape
<1> HIDE DEF v
<1>2. /\ v.nc.file = f /\ DOMAIN v.nc = DOMAIN w.nc
      /\ \A g \in DOMAIN NewConn \ {"file"} : v.nc[g] = w.nc[g]
  BY <1>1 DEF Shape, NewConn
<1>3. /\ v.nc.open = w.nc.open /\ v.nc.recv = w.nc.recv /\ v.nc.rcvd = w.nc.rcvd
      /\ v.nc.cgi = w.nc.cgi /\ v.nc.linked = w.nc.linked
      /\ v.nc.send = w.nc.send /\ v.nc.flags = w.nc.flags
  BY <1>2 DEF NewConn
<1>4. Shape(v)  BY <1>1, <1>2, <1>3 DEF Shape
<1> QED  BY <1>1, <1>2, <1>3, <1>4 DEF Near, v

LEMMA FileDoneIs ==
  ASSUME NEW w, Shape(w)
  PROVE  LET v == FileDone(w)
         IN  Near(w, v) /\ v.nc.file = NoFile /\ v.nc.send = w.nc.send /\ v.nc.recv = w.nc.recv /\ v.fs = w.fs
<1> DEFINE x == IF w.nc.file.keep THEN w ELSE Flag(w, "send_and_close")
           v == FileDone(w)
<1>1. Kept(w, Flag(w, "send_and_close")) /\ Flag(w, "send_and_close").nc.send = w.nc.send
      /\ Flag(w, "send_and_close").fs = w.fs
  BY FlagKeeps
<1>2. Near(w, x) /\ x.nc.send = w.nc.send /\ x.nc.recv = w.nc.recv /\ x.fs = w.fs
  <2>1. CASE w.nc.file.keep  BY <2>1 DEF Near
  <2>2. CASE ~w.nc.file.keep  BY <2>2, <1>1 DEF Near, Kept
  <2> QED  BY <2>1, <2>2
<1>3. v = [x EXCEPT !.nc.file = NoFile]  BY DEF FileDone, mg_http_free_proto_data_file
<1> HIDE DEF x, v
<1>4. Near(x, v) /\ v.nc.file = NoFile /\ v.nc.send = x.nc.send /\ v.nc.recv = x.nc.recv /\ v.fs = x.fs
  BY <1>2, <1>3, FileSet DEF Near
<1> QED  BY <1>2, <1>4 DEF Near, v

(* A piece of a file is sent: as much as is announced, and no more.        *)
Sending(f, i, cl, pos, sent) ==
  /\ DOMAIN f = DOMAIN NoFile /\ f.fp = i /\ f.type = "file" /\ f.cl = cl /\ f.pos = pos /\ f.sent = sent

LEMMA SendPieceIs ==
  ASSUME NEW w, Shape(w), NEW i \in Inodes, NEW cl \in Int, NEW pos \in Int, NEW sent \in Nat, sent <= cl,
         Sending(w.nc.file, i, cl, pos, sent)
  PROVE  LET v == SendPiece(w)
         IN  \E n \in Nat :
               /\ Near(w, v) /\ v.nc.recv = w.nc.recv /\ v.fs = w.fs
               /\ v.nc.send = w.nc.send \o UnitsOf(i, pos, n)
               /\ \/ sent + n = cl /\ v.nc.file = NoFile
                  \/ sent + n < cl /\ Sending(v.nc.file, i, cl, pos + n, sent + n)
<1> DEFINE f == w.nc.file
           there == Max({0, w.fs.size[f.fp] - f.pos})
           n == Min({ToRead(w), there})
           x == mg_send(w, UnitsOf(i, pos, n))
           g == [f EXCEPT !.sent = sent + n, !.pos = pos + n]
           next == [x EXCEPT !.nc.file = g]
           v == SendPiece(w)
<1>0. f.fp = i /\ f.cl = cl /\ f.pos = pos /\ f.sent = sent /\ DOMAIN f = DOMAIN NoFile  BY DEF Sending
<1>1. Room(w) \in Nat
  <2>1. Len(w.nc.send) \in Nat /\ MaxSend \in Nat  BY SeqLen, ConstantsOK DEF Shape
  <2> QED  BY <2>1 DEF Room
<1>2. ToRead(w) \in Nat /\ ToRead(w) <= cl - sent
  <2>1. ~(cl - sent < 0) /\ cl - sent \in Int  OBVIOUS
  <2>2. ToRead(w) = Min({Room(w), cl - sent})  BY <1>0, <2>1 DEF ToRead
  <2> QED  BY <1>1, <2>1, <2>2, MinOfTwo
<1>3. there \in Nat
  <2>1. w.fs.size[i] \in Nat  BY DEF Shape, FileSystems
  <2>2. w.fs.size[i] - pos \in Int  BY <2>1
  <2> DEFINE d == w.fs.size[i] - pos
  <2>3. there = Max({0, d})  BY <1>0
  <2>4. d \in Int  BY <2>2
  <2> HIDE DEF d, there
  <2>5. Max({0, d}) \in Nat  BY <2>4, MaxOfTwo
  <2> QED  BY <2>3, <2>5
<1>4. n \in Nat /\ sent + n <= cl
  <2> HIDE DEF there
  <2>1. n \in Nat /\ n <= cl - sent  BY <1>2, <1>3, MinOfTwo
  <2> QED  BY <2>1
<1>5. v = IF AllSent(next.nc.file) THEN FileDone(next) ELSE next
  <2>1. UnitsOf(i, pos, n) = [k \in 1..n |-> <<"unit", f.fp, f.pos + k - 1>>]  BY <1>0 DEF UnitsOf
  <2> DEFINE y == [mg_send(w, [k \in 1..n |-> <<"unit", f.fp, f.pos + k - 1>>])
                     EXCEPT !.nc.file.sent = @ + n, !.nc.file.pos = @ + n]
  <2>2. v = IF AllSent(y.nc.file) THEN FileDone(y) ELSE y  BY DEF SendPiece
  <2>3. y = [x EXCEPT !.nc.file.sent = @ + n, !.nc.file.pos = @ + n]  BY <2>1
  <2> HIDE DEF n, f, there, y, v
  <2>4. Kept(w, x)
    <3>1. IsSeq(UnitsOf(i, pos, n))  BY <1>4, UnitsAre DEF IsRest
    <3> QED  BY <3>1, SendKeeps
  <2>5. DOMAIN x = {"nc", "part", "fs", "err"} /\ DOMAIN x.nc = DOMAIN NewConn /\ x.nc.file = f
    BY <2>4 DEF Kept, Shape, f
  <2> HIDE DEF x
  <2>6. y = next
    <3>1. y = [x EXCEPT !.nc = [x.nc EXCEPT !.file = [x.nc.file EXCEPT !.sent = @ + n, !.pos = @ + n]]]
      BY <2>3, <2>5, <1>0 DEF NewConn, NoFile
    <3> QED  BY <3>1, <2>5, <1>0 DEF NoFile
  <2> QED  BY <2>2, <2>6
<1> HIDE DEF n, there, v
<1>6. Kept(w, x) /\ x.nc.send = w.nc.send \o UnitsOf(i, pos, n) /\ x.fs = w.fs
  <2>1. IsSeq(UnitsOf(i, pos, n))  BY <1>4, UnitsAre DEF IsRest
  <2> QED  BY <2>1, SendKeeps
<1>7. Sending(g, i, cl, pos + n, sent + n)  BY <1>0 DEF Sending, NoFile
<1> HIDE DEF x, g, f
<1>8. Near(x, next) /\ next.nc.file = g /\ next.nc.send = x.nc.send /\ next.nc.recv = x.nc.recv /\ next.fs = x.fs
  <2>1. Shape(x) /\ DOMAIN g = DOMAIN NoFile  BY <1>6, <1>7 DEF Kept, Sending
  <2> QED  BY <2>1, FileSet
<1> HIDE DEF next
<1>9. Near(w, next) /\ next.nc.recv = w.nc.recv /\ next.fs = w.fs
      /\ next.nc.send = w.nc.send \o UnitsOf(i, pos, n)
  BY <1>6, <1>8 DEF Near, Kept
<1>10. CASE sent + n = cl
  <2>1. AllSent(next.nc.file)  BY <1>10, <1>8, <1>7, <1>4 DEF AllSent, Sending
  <2>2. v = FileDone(next)  BY <2>1, <1>5
  <2>3. Near(next, v) /\ v.nc.file = NoFile /\ v.nc.send = next.nc.send /\ v.nc.recv = next.nc.recv /\ v.fs = next.fs
    BY <2>2, <1>9, FileDoneIs DEF Near
  <2>4. Near(w, v)  BY <2>3, <1>9 DEF Near
  <2> QED  BY <2>3, <2>4, <1>4, <1>9, <1>10 DEF v
<1>11. CASE sent + n < cl
  <2>1. ~AllSent(next.nc.file)
    <3>1. ~(sent + n >= cl)  BY <1>11, <1>4
    <3> QED  BY <3>1, <1>8, <1>7 DEF AllSent, Sending
  <2>2. v = next  BY <2>1, <1>5
  <2> QED  BY <2>2, <1>4, <1>7, <1>8, <1>9, <1>11 DEF v
<1>12. sent + n = cl \/ sent + n < cl  BY <1>4
<1> QED  BY <1>10, <1>11, <1>12

(* A file that came in: what there is of it is taken out of the buffer.    *)
Storing(f) ==
  /\ DOMAIN f = DOMAIN NoFile /\ f.fp \in Inodes /\ f.type = "put"
  /\ f.sent \in Nat /\ f.cl \in Int /\ f.pos \in Int

LEMMA BufferRest ==
  ASSUME NEW w, Shape(w), NEW n \in 0..Len(w.nc.recv)
  PROVE  /\ mbuf_remove(w.nc.recv, n) = SubSeq(w.nc.recv, n + 1, Len(w.nc.recv))
         /\ mbuf_remove(w.nc.recv, n) \in Seq({"request", "body"} \X DOMAIN Request)
         /\ Len(mbuf_remove(w.nc.recv, n)) = Len(w.nc.recv) - n
         /\ \A k \in 1..Len(w.nc.recv) - n : mbuf_remove(w.nc.recv, n)[k] = w.nc.recv[n + k]
<1> DEFINE s == w.nc.recv
           b == SubSeq(s, n + 1, Len(s))
<1>1. s \in Seq({"request", "body"} \X DOMAIN Request)  BY DEF Shape
<1>2. IsSeq(s) /\ Len(s) \in Nat  BY <1>1, SeqIn
<1> HIDE DEF s
<1>3. n \in 0..Len(s)  BY DEF s
<1>4. Len(b) = Len(s) - n /\ \A k \in 1..Len(s) - n : b[k] = s[n + k]  BY <1>2, <1>3, Parted
<1>5. b \in Seq({"request", "body"} \X DOMAIN Request)
  <2>1. \A k \in 1..Len(s) : s[k] \in {"request", "body"} \X DOMAIN Request  BY <1>1, ElementOfSeq
  <2>2. \A k \in n + 1..Len(s) : s[k] \in {"request", "body"} \X DOMAIN Request  BY <2>1, <1>2, <1>3
  <2>3. n + 1 \in Int /\ Len(s) \in Int  BY <1>2, <1>3
  <2> QED  BY <2>2, <2>3, SubSeqProperties
<1>6. n <= Len(s)  BY <1>2, <1>3
<1>7. mbuf_remove(s, n) = b  BY <1>6 DEF mbuf_remove
<1> HIDE DEF b
<1>8. mbuf_remove(w.nc.recv, n) = b  BY <1>7 DEF s
<1> QED  BY <1>4, <1>5, <1>8 DEF b, s

(* Nothing is stored yet, and all that is to be stored has come.           *)
AllThere(w) ==
  LET f == w.nc.file
  IN  /\ f.sent = 0 /\ f.pos = 0 /\ f.cl \in Nat /\ f.cl <= Len(w.nc.recv)
      /\ w.fs.size[f.fp] = 0

LEMMA StorePieceIs ==
  ASSUME NEW w, Shape(w), Storing(w.nc.file)
  PROVE  LET v == StorePiece(w)
         IN  /\ Near(w, v) /\ v.nc.send = w.nc.send /\ v.fs.names = w.fs.names
             /\ \E n \in 0..Len(w.nc.recv) :
                  /\ v.nc.recv = mbuf_remove(w.nc.recv, n)
                  /\ (w.nc.file.sent < w.nc.file.cl /\ w.nc.recv # <<>>) => n >= 1
             /\ \/ v.nc.file = NoFile
                \/ Storing(v.nc.file) /\ v.nc.file.sent < v.nc.file.cl /\ v.nc.recv = <<>>
             /\ AllThere(w) => v.nc.file = NoFile /\ v.fs.size[w.nc.file.fp] = w.nc.file.cl
<1> DEFINE f == w.nc.file
           d == f.cl - f.sent
           left == Max({0, d})
           n == Min({left, Len(w.nc.recv)})
           recv == mbuf_remove(w.nc.recv, n)
           g == [f EXCEPT !.sent = f.sent + n, !.pos = f.pos + n]
           size == [w.fs.size EXCEPT ![f.fp] = IF n = 0 THEN @ ELSE Max({@, f.pos + n})]
           fs == [w.fs EXCEPT !.size = size]
           next == [w EXCEPT !.nc.recv = mbuf_remove(@, n), !.nc.file.sent = @ + n, !.nc.file.pos = @ + n,
                             !.fs.size[f.fp] = IF n = 0 THEN @ ELSE Max({@, f.pos + n})]
           v == StorePiece(w)
<1>1. f.sent \in Nat /\ f.cl \in Int /\ f.pos \in Int /\ f.fp \in Inodes /\ DOMAIN f = DOMAIN NoFile /\ f.type = "put"
  BY DEF Storing
<1>2. Len(w.nc.recv) \in Nat  BY SeqIn DEF Shape
<1>3. d \in Int  BY <1>1
<1>4. v = IF n = 0 \/ AllSent(next.nc.file) THEN FileDone(next) ELSE next  BY DEF StorePiece
<1> HIDE DEF v, d
<1>d. /\ DOMAIN w = {"nc", "part", "fs", "err"} /\ DOMAIN w.nc = DOMAIN NewConn
      /\ DOMAIN w.nc.file = DOMAIN NoFile
  BY DEF Shape
<1>5. left \in Nat /\ left >= d /\ (d > 0 => left = d) /\ (d <= 0 => left = 0)  BY <1>3, MaxOfTwo
<1> HIDE DEF left
<1>6. n \in 0..Len(w.nc.recv) /\ n <= left /\ (n < left => n = Len(w.nc.recv))  BY <1>2, <1>5, MinOfTwo
<1> HIDE DEF n
<1>7. recv \in Seq({"request", "body"} \X DOMAIN Request)  BY <1>6, BufferRest
<1>8. fs \in FileSystems /\ fs.names = w.fs.names
  <2>1. w.fs.size \in [Inodes -> Nat] /\ w.fs \in FileSystems  BY DEF Shape, FileSystems
  <2>2. f.pos + n \in Int  BY <1>1, <1>6
  <2>3. \A a \in Nat, b \in Int : Max({a, b}) \in Nat  BY MaxOfTwo
  <2>4. size \in [Inodes -> Nat]  BY <2>1, <2>2, <2>3
  <2> HIDE DEF size
  <2> QED  BY <2>1, <2>4 DEF FileSystems
<1> HIDE DEF recv, fs
<1>9. DOMAIN g = DOMAIN NoFile /\ g.fp = f.fp /\ g.type = "put" /\ g.cl = f.cl /\ g.sent = f.sent + n /\ g.pos = f.pos + n
  BY <1>1 DEF NoFile
<1> HIDE DEF g
<1>10. Near(w, next) /\ next.nc.send = w.nc.send /\ next.nc.recv = recv /\ next.nc.file = g /\ next.fs = fs
  <2>1. DOMAIN next = DOMAIN w /\ next.part = w.part /\ next.err = w.err  BY <1>d
  <2>f. next.fs = fs  BY <1>d DEF fs
  <2>r. next.nc.recv = recv  BY <1>d DEF NewConn, recv
  <2>g. next.nc.file = g  BY <1>d DEF NewConn, NoFile, g
  <2>n. DOMAIN next.nc = DOMAIN w.nc /\ \A x \in DOMAIN NewConn \ {"recv", "file"} : next.nc[x] = w.nc[x]
    BY <1>d DEF NewConn
  <2> HIDE DEF next
  <2>2. /\ next.nc.recv = recv /\ next.nc.file = g /\ DOMAIN next.nc = DOMAIN w.nc
        /\ \A x \in DOMAIN NewConn \ {"recv", "file"} : next.nc[x] = w.nc[x]
    BY <2>r, <2>g, <2>n
  <2>3. /\ next.nc.open = w.nc.open /\ next.nc.rcvd = w.nc.rcvd
        /\ next.nc.cgi = w.nc.cgi /\ next.nc.linked = w.nc.linked
        /\ next.nc.send = w.nc.send /\ next.nc.flags = w.nc.flags
    BY <2>2 DEF NewConn
  <2>4. Shape(next)  BY <2>1, <2>f, <2>2, <2>3, <1>7, <1>8, <1>9 DEF Shape
  <2> QED  BY <2>1, <2>f, <2>2, <2>3, <2>4 DEF Near
<1> HIDE DEF next
<1>11. (w.nc.file.sent < w.nc.file.cl /\ w.nc.recv # <<>>) => n >= 1
  <2> SUFFICES ASSUME f.sent < f.cl, w.nc.recv # <<>>  PROVE n >= 1
    BY DEF f
  <2>1. d > 0  BY <1>1 DEF d
  <2>2. w.nc.recv \in Seq({"request", "body"} \X DOMAIN Request)  BY DEF Shape
  <2>3. Len(w.nc.recv) # 0  BY <2>2
  <2>4. n \in Nat /\ (n = 0 => n < left)  BY <2>1, <1>3, <1>5, <1>6, <1>2
  <2> QED  BY <2>3, <2>4, <1>6
<1>12. v.nc.recv = recv /\ Near(w, v) /\ v.nc.send = w.nc.send /\ v.fs.names = w.fs.names
       /\ \/ v.nc.file = NoFile
          \/ Storing(v.nc.file) /\ v.nc.file.sent < v.nc.file.cl /\ v.nc.recv = <<>>
  <2>1. CASE n = 0 \/ AllSent(next.nc.file)
    <3>1. v = FileDone(next)  BY <2>1, <1>4
    <3>2. Near(next, v) /\ v.nc.file = NoFile /\ v.nc.send = next.nc.send /\ v.nc.recv = next.nc.recv /\ v.fs = next.fs
      BY <3>1, <1>10, FileDoneIs DEF Near
    <3> QED  BY <3>2, <1>10, <1>8 DEF Near
  <2>2. CASE ~(n = 0 \/ AllSent(next.nc.file))
    <3>1. v = next  BY <2>2, <1>4
    <3>2. n \in Nat /\ ~(f.sent + n >= f.cl)  BY <2>2, <1>6, <1>9, <1>10 DEF AllSent
    <3>3. n < d  BY <3>2, <1>1 DEF d
    <3>4. n = Len(w.nc.recv)
      <4>1. n < left  BY <3>2, <3>3, <1>3, <1>5
      <4> QED  BY <4>1, <1>6
    <3>5. Len(recv) = 0
      <4>1. Len(recv) = Len(w.nc.recv) - n  BY <1>6, BufferRest DEF recv
      <4> QED  BY <4>1, <3>4, <1>2
    <3>6. recv = <<>>  BY <3>5, <1>7
    <3>7. Storing(g) /\ g.sent < g.cl  BY <3>2, <1>1, <1>9 DEF Storing
    <3> QED  BY <3>1, <3>6, <3>7, <1>8, <1>10
  <2> QED  BY <2>1, <2>2
<1>13. ASSUME AllThere(w)  PROVE v.nc.file = NoFile /\ v.fs.size[f.fp] = f.cl
  <2>1. f.sent = 0 /\ f.pos = 0 /\ f.cl \in Nat /\ f.cl <= Len(w.nc.recv) /\ w.fs.size[f.fp] = 0
    BY <1>13 DEF AllThere
  <2>2. left = f.cl
    <3>1. d = f.cl  BY <2>1 DEF d
    <3> QED  BY <3>1, <2>1, <1>5
  <2>3. n = f.cl
    <3>1. n \in Nat  BY <1>6, <1>2
    <3> QED  BY <3>1, <2>1, <2>2, <1>2, <1>6
  <2>4. n = 0 \/ AllSent(next.nc.file)
    <3>1. g.sent = g.cl /\ g.sent \in Nat  BY <2>1, <2>3, <1>9
    <3> QED  BY <3>1, <1>10 DEF AllSent
  <2>5. v = FileDone(next)  BY <2>4, <1>4
  <2>6. v.nc.file = NoFile /\ v.fs = next.fs  BY <2>5, <1>10, FileDoneIs DEF Near
  <2>7. fs.size = size
    <3>1. "size" \in DOMAIN w.fs  BY DEF Shape, FileSystems
    <3> QED  BY <3>1 DEF fs
  <2>8. size[f.fp] = f.cl
    <3>1. w.fs.size \in [Inodes -> Nat]  BY DEF Shape, FileSystems
    <3>2. size[f.fp] = IF n = 0 THEN w.fs.size[f.fp] ELSE Max({w.fs.size[f.fp], f.pos + n})  BY <3>1, <1>1
    <3> HIDE DEF size
    <3>3. f.pos + n = f.cl /\ (n = 0 <=> f.cl = 0)  BY <2>1, <2>3
    <3>4. Max({0, f.cl}) = f.cl  BY <2>1, MaxOfTwo
    <3> QED  BY <3>2, <3>3, <3>4, <2>1
  <2> QED  BY <2>6, <2>7, <2>8, <1>10
<1> QED  BY <1>6, <1>11, <1>12, <1>13 DEF v, recv

(* t is what s has behind its first m.                                     *)
Behind(t, s, m) == Len(t) = Len(s) - m /\ \A k \in 1..Len(s) - m : t[k] = s[m + k]

LEMMA RecvSet ==
  ASSUME NEW w, Shape(w), NEW s \in Seq({"request", "body"} \X DOMAIN Request)
  PROVE  LET v == [w EXCEPT !.nc.recv = s]
         IN  /\ Near(w, v) /\ v.nc.file = w.nc.file /\ v.nc.send = w.nc.send /\ v.nc.recv = s
             /\ v.fs = w.fs /\ v.nc.flags = w.nc.flags
<1> DEFINE v == [w EXCEPT !.nc.recv = s]
<1>1. /\ v.nc = [w.nc EXCEPT !.recv = s] /\ DOMAIN v = DOMAIN w
      /\ v.part = w.part /\ v.fs = w.fs /\ v.err = w.err
  BY DEF Shape
<1> HIDE DEF v
<1>2. /\ v.nc.recv = s /\ DOMAIN v.nc = DOMAIN w.nc
      /\ \A g \in DOMAIN NewConn \ {"recv"} : v.nc[g] = w.nc[g]
  BY <1>1 DEF Shape, NewConn
<1>3. /\ v.nc.open = w.nc.open /\ v.nc.file = w.nc.file /\ v.nc.rcvd = w.nc.rcvd
      /\ v.nc.cgi = w.nc.cgi /\ v.nc.linked = w.nc.linked
      /\ v.nc.send = w.nc.send /\ v.nc.flags = w.nc.flags
  BY <1>2 DEF NewConn
<1>4. Shape(v)  BY <1>1, <1>2, <1>3 DEF Shape
<1> QED  BY <1>1, <1>2, <1>3, <1>4 DEF Near, v

LEMMA RangeIs ==
  ASSUME NEW r, r.range \in Seq(Int), NEW size \in Nat
  PROVE  LET range == mg_http_parse_range_header(r, size)
         IN  range.cl \in Nat /\ range.r1 \in Int
<1> DEFINE n == Len(r.range)
           r1 == IF n > 0 THEN r.range[1] ELSE 0
           asked == IF n > 1 THEN r.range[2] ELSE 0
           r2 == IF n = 1 THEN size - 1 ELSE asked
<1>1. n \in Nat  BY SeqIn
<1>2. r1 \in Int  BY <1>1, ElementOfSeq
<1>3. asked \in Int  BY <1>1, ElementOfSeq
<1> HIDE DEF n
<1>4. r2 \in Int  BY <1>3
<1>5. mg_http_parse_range_header(r, size) =
        IF n = 0 \/ r1 < 0 \/ asked < 0 THEN [status |-> 200, r1 |-> 0, cl |-> size]
        ELSE IF r1 > r2 \/ r2 >= size THEN [status |-> 416, r1 |-> 0, cl |-> 0]
        ELSE [status |-> 206, r1 |-> r1, cl |-> r2 - r1 + 1]
  BY DEF mg_http_parse_range_header, n
<1> HIDE DEF r1, asked, r2
<1>6. ~(r1 > r2) => r2 - r1 + 1 \in Nat  BY <1>2, <1>4
<1>7. CASE n = 0 \/ r1 < 0 \/ asked < 0  BY <1>5, <1>7
<1>8. CASE ~(n = 0 \/ r1 < 0 \/ asked < 0) /\ (r1 > r2 \/ r2 >= size)  BY <1>5, <1>8
<1>9. CASE ~(n = 0 \/ r1 < 0 \/ asked < 0) /\ ~(r1 > r2 \/ r2 >= size)
  <2>1. mg_http_parse_range_header(r, size) = [status |-> 206, r1 |-> r1, cl |-> r2 - r1 + 1]  BY <1>5, <1>9
  <2>2. r2 - r1 + 1 \in Nat  BY <1>6, <1>9
  <2> QED  BY <2>1, <2>2, <1>2
<1> QED  BY <1>7, <1>8, <1>9

(* v is w after the head of a file and what could be sent of it.           *)
FileAnswer(w, v, t, n, i, cl, pos) ==
  /\ Near(w, v) /\ v.nc.recv = w.nc.recv
  /\ IsAnswer(t) /\ v.nc.send = w.nc.send \o t
  /\ i \in Inodes /\ t[1][5] = i /\ cl \in Nat /\ t[1][3] = cl /\ pos \in Int /\ t[1][6] = pos
  /\ n \in Nat /\ Len(t) = n + 1
  /\ \A k \in 2..n + 1 : t[k] = <<"unit", i, pos + (k - 1) - 1>>
  /\ \/ n = cl /\ v.nc.file = NoFile
     \/ n < cl /\ Sending(v.nc.file, i, cl, pos + n, n)
FileSaid(w, v) == \E t, n, i, cl, pos : FileAnswer(w, v, t, n, i, cl, pos)

LEMMA ServeFileSaid ==
  ASSUME NEW w, Shape(w), w.nc.file = NoFile, NEW r, r.range \in Seq(Int),
         NEW path, w.fs.names[path] \in Inodes
  PROVE  FileSaid(w, mg_http_serve_file(w, r, path))
<1> DEFINE i == w.fs.names[path]
           range == mg_http_parse_range_header(r, w.fs.size[i])
           cl == range.cl
           pos == range.r1
           f == [fp |-> i, pos |-> pos, cl |-> cl, sent |-> w.nc.file.sent, type |-> "file", keep |-> r.keep]
           x == <<"head", range.status, cl, r.name, i, pos>>
           a == [w EXCEPT !.nc.file = f]
           b == mg_send(a, <<x>>)
           v == mg_http_serve_file(w, r, path)
<1>1. cl \in Nat /\ pos \in Int
  <2>1. w.fs.size[i] \in Nat  BY DEF Shape, FileSystems
  <2> QED  BY <2>1, RangeIs
<1>2. v = mg_http_transfer_file_data(b)  BY DEF mg_http_serve_file
<1>3. w.nc.file.sent = 0  BY DEF NoFile
<1>x. x[1] = "head" /\ x[3] = cl /\ x[5] = i /\ x[6] = pos  OBVIOUS
<1>4. Sending(f, i, cl, pos, 0) /\ DOMAIN f = DOMAIN NoFile  BY <1>3 DEF Sending, NoFile
<1>i. i \in Inodes  OBVIOUS
<1> HIDE DEF range, cl, pos, f, x, i
<1>5. Near(w, a) /\ a.nc.file = f /\ a.nc.send = w.nc.send /\ a.nc.recv = w.nc.recv
  <2>1. \A g : DOMAIN g = DOMAIN NoFile =>
          LET x1 == [w EXCEPT !.nc.file = g]
          IN  Near(w, x1) /\ x1.nc.file = g /\ x1.nc.send = w.nc.send /\ x1.nc.recv = w.nc.recv /\ x1.fs = w.fs
    BY FileSet
  <2> QED  BY <2>1, <1>4
<1> HIDE DEF a
<1>6. IsAnswer(<<x>>) /\ IsSeq(<<x>>) /\ <<x>>[1] = x /\ Len(<<x>>) = 1  BY <1>x, OneHead, OneSeq
<1>7. Kept(a, b) /\ b.nc.send = w.nc.send \o <<x>>  BY <1>5, <1>6, SendKeeps DEF Near
<1> HIDE DEF b, v
<1>8. Near(w, b) /\ b.nc.file = f /\ b.nc.recv = w.nc.recv  BY <1>5, <1>7 DEF Near, Kept
<1>9. v = SendPiece(b)  BY <1>2, <1>8, <1>4 DEF mg_http_transfer_file_data, Sending
<1>10. PICK n \in Nat :
         /\ Near(b, v) /\ v.nc.recv = b.nc.recv
         /\ v.nc.send = b.nc.send \o UnitsOf(i, pos, n)
         /\ \/ 0 + n = cl /\ v.nc.file = NoFile
            \/ 0 + n < cl /\ Sending(v.nc.file, i, cl, pos + n, 0 + n)
  <2>1. Shape(b) /\ Sending(b.nc.file, i, cl, pos, 0) /\ 0 <= cl /\ 0 \in Nat /\ cl \in Int  BY <1>8, <1>4, <1>1 DEF Near
  <2>2. \A c \in Int, p \in Int, sent \in Nat :
          sent <= c /\ Sending(b.nc.file, i, c, p, sent) =>
          \E n \in Nat :
               /\ Near(b, SendPiece(b)) /\ SendPiece(b).nc.recv = b.nc.recv
               /\ SendPiece(b).nc.send = b.nc.send \o UnitsOf(i, p, n)
               /\ \/ sent + n = c /\ SendPiece(b).nc.file = NoFile
                  \/ sent + n < c /\ Sending(SendPiece(b).nc.file, i, c, p + n, sent + n)
    BY <2>1, <1>i, SendPieceIs
  <2> QED  BY <2>1, <2>2, <1>1, <1>9
<1> DEFINE u == UnitsOf(i, pos, n)
           t == <<x>> \o u
<1>11. IsRest(u) /\ IsSeq(u) /\ Len(u) = n /\ \A k \in 1..n : u[k] = <<"unit", i, pos + k - 1>>
  BY UnitsAre DEF IsRest
<1> HIDE DEF u
<1>12. IsSeq(t) /\ Len(t) = n + 1 /\ t[1] = x /\ \A k \in 2..n + 1 : t[k] = u[k - 1] /\ k - 1 \in 1..n
  <2>1. IsSeq(t) /\ Len(t) = 1 + n /\ \A k \in 1..1 + n : t[k] = IF k <= 1 THEN <<x>>[k] ELSE u[k - 1]
    BY <1>6, <1>11, Joined
  <2> HIDE DEF t
  <2>2. Len(t) = n + 1  BY <2>1
  <2>3. t[1] = x  BY <2>1, <1>6
  <2>4. ASSUME NEW k \in 2..n + 1  PROVE t[k] = u[k - 1] /\ k - 1 \in 1..n
    <3>1. k \in 1..1 + n /\ ~(k <= 1) /\ k - 1 \in 1..n  OBVIOUS
    <3> QED  BY <3>1, <2>1
  <2> QED  BY <2>1, <2>2, <2>3, <2>4
<1>13. v.nc.send = w.nc.send \o t
  <2>1. \A s : IsSeq(s) => (s \o <<x>>) \o u = s \o (<<x>> \o u)  BY <1>6, <1>11, JoinedTwice
  <2>2. IsSeq(w.nc.send)  BY DEF Shape
  <2>3. (w.nc.send \o <<x>>) \o u = w.nc.send \o (<<x>> \o u)  BY ONLY <2>1, <2>2
  <2> QED  BY <2>3, <1>7, <1>10 DEF u
<1> HIDE DEF t
<1>14. \A k \in 2..n + 1 : t[k] = <<"unit", i, pos + (k - 1) - 1>>  BY <1>11, <1>12
<1>15. IsAnswer(t)
  <2>1. n + 1 >= 1  OBVIOUS
  <2>2. \A k \in 2..n + 1 : t[k][1] # "head"  BY <1>14
  <2> QED  BY <2>1, <2>2, <1>12, <1>x DEF IsAnswer
<1>16. Near(w, v) /\ v.nc.recv = w.nc.recv  BY <1>8, <1>10 DEF Near
<1>17. \/ n = cl /\ v.nc.file = NoFile
       \/ n < cl /\ Sending(v.nc.file, i, cl, pos + n, n)
  <2>1. 0 + n = n  OBVIOUS
  <2> QED  BY <2>1, <1>10
<1>18. t[1][5] = i /\ t[1][3] = cl /\ t[1][6] = pos  BY <1>12, <1>x
<1>a. Len(t) = n + 1 /\ n \in Nat  BY <1>12
<1>19. FileSaid(w, v)
  <2>1. FileAnswer(w, v, t, n, i, cl, pos)
    BY <1>1, <1>i, <1>a, <1>13, <1>14, <1>15, <1>16, <1>17, <1>18 DEF FileAnswer
  <2> QED  BY <2>1, Zenon DEF FileSaid
<1> QED  BY <1>19 DEF v

(* v is w after the answer to a file that came in, and what could be       *)
(* stored of it; the head of the request is gone from the buffer.  All of  *)
(* the body is stored if it came with the head.                            *)
Whole(w, v, head, r) ==
  /\ r.body \in Nat
  /\ r.body <= Len(w.nc.recv) - head =>
       /\ v.nc.file = NoFile /\ v.fs.names[r.target] \in Inodes
       /\ v.fs.size[v.fs.names[r.target]] = r.body

PutSaid(w, v, head, r) ==
  /\ Near(w, v)
  /\ \E t : /\ IsAnswer(t) /\ t[1][5] \notin Inodes /\ v.nc.send = w.nc.send \o t
            /\ IsPutReply(t[1]) => t[1][4] = r.name /\ Whole(w, v, head, r)
  /\ \E m \in head..Len(w.nc.recv) : Behind(v.nc.recv, w.nc.recv, m)
  /\ \/ v.nc.file = NoFile
     \/ Storing(v.nc.file) /\ v.nc.file.sent < v.nc.file.cl /\ v.nc.recv = <<>>

LEMMA PutSaidIs ==
  ASSUME NEW w, Shape(w), w.nc.file = NoFile, NEW r, r.range \in Seq(Int), r.body \in Nat \cup {NoLength},
         r.target \in Paths, NEW head \in 1..Len(w.nc.recv)
  PROVE  Said(w, mg_handle_put(w, r, head), UntilClose) \/ PutSaid(w, mg_handle_put(w, r, head), head, r)
<1> DEFINE p == r.target
           old == w.fs.names[p]
           free == mg_http_free_proto_data_file(w)
           made == mg_create_itermediate_directories(free, p)
           fp == IF old \in Inodes THEN old ELSE CHOOSE i \in FreeInodes(made) : TRUE
           ranged == Len(r.range) = 2
           cl == IF ~ranged THEN r.body
                 ELSE IF r.range[2] > r.range[1] THEN r.range[2] - r.range[1] + 1
                 ELSE r.body - r.range[1]
           pos == IF ranged THEN r.range[1] ELSE 0
           f == [fp |-> fp, pos |-> pos, cl |-> cl, sent |-> 0, type |-> "put", keep |-> FALSE]
           status == IF ranged THEN 206 ELSE IF old = None THEN 201 ELSE 200
           opened == [made EXCEPT !.nc.file = f, !.fs.names[p] = fp, !.fs.size = Emptied(@, fp),
                                  !.fs.mtime[fp] = @ + 1]
           answered == Reply(opened, r, status, 0)
           ready == [answered EXCEPT !.nc.recv = mbuf_remove(@, head)]
           v == mg_handle_put(w, r, head)
<1>1. Kept(w, free) /\ free.nc.send = w.nc.send /\ free.fs = w.fs
  <2>1. free = [w EXCEPT !.nc.file = NoFile]  BY DEF mg_http_free_proto_data_file
  <2> HIDE DEF free, made, f, answered, ready, v
  <2>2. \A g : DOMAIN g = DOMAIN NoFile =>
          LET x == [w EXCEPT !.nc.file = g]
          IN  Near(w, x) /\ x.nc.file = g /\ x.nc.send = w.nc.send /\ x.nc.recv = w.nc.recv /\ x.fs = w.fs
    BY FileSet
  <2>3. Near(w, free) /\ free.nc.file = NoFile /\ free.nc.send = w.nc.send /\ free.nc.recv = w.nc.recv /\ free.fs = w.fs
    BY <2>1, <2>2
  <2> QED  BY <2>3 DEF Near, Kept
<1>2. Kept(w, made) /\ made.nc = free.nc /\ made.fs \in FileSystems
  <2> DEFINE names == [d \in Paths |-> IF d \in Entry[p].over /\ free.fs.names[d] = None THEN Dir ELSE free.fs.names[d]]
  <2>1. made = [free EXCEPT !.fs.names = names]  BY DEF mg_create_itermediate_directories
  <2>2. names \in [Paths -> Inodes \cup {None, Dir}]
    <3>1. free.fs.names \in [Paths -> Inodes \cup {None, Dir}]  BY <1>1 DEF Shape, FileSystems
    <3> HIDE DEF free
    <3> QED  BY <3>1
  <2> HIDE DEF names, made, free
  <2>3. Kept(free, made) /\ made.nc = free.nc /\ made.fs \in FileSystems
    <3>1. Shape(free)  BY <1>1 DEF Kept
    <3> QED  BY <3>1, <2>1, <2>2, NamesKept
  <2> QED  BY <2>3, <1>1, KeptTwice
<1>3. v = IF \E d \in Entry[p].over : w.fs.names[d] \in Inodes THEN mg_http_send_error(w, r, 500)
          ELSE IF r.body = NoLength THEN mg_http_send_error(made, r, 411)
          ELSE IF old = Dir \/ (old = None /\ FreeInodes(made) = {}) THEN mg_http_send_error(made, r, 500)
          ELSE mg_http_transfer_file_data(ready)
  BY DEF mg_handle_put
<1>4. \A s : Said(w, mg_http_send_error(w, r, s), UntilClose)  BY ErrorSaid
<1>5. \A s : Said(w, mg_http_send_error(made, r, s), UntilClose)
  <2> HIDE DEF made, free
  <2>1. \A s : Said(made, mg_http_send_error(made, r, s), UntilClose)  BY <1>2, ErrorSaid DEF Kept
  <2>2. made.nc.send = w.nc.send  BY <1>1, <1>2
  <2> QED  BY <2>1, <2>2, <1>2, SaidAfter
<1>6. ASSUME r.body # NoLength, ~(old = Dir \/ (old = None /\ FreeInodes(made) = {}))
      PROVE  PutSaid(w, mg_http_transfer_file_data(ready), head, r)
  <2>1. fp \in Inodes
    <3>1. old \in Inodes \cup {None, Dir}  BY DEF Shape, FileSystems
    <3> HIDE DEF old, made
    <3>2. FreeInodes(made) \subseteq Inodes  BY DEF FreeInodes
    <3>3. old \notin Inodes => FreeInodes(made) # {}  BY <3>1, <1>6
    <3>4. FreeInodes(made) # {} => (CHOOSE i \in FreeInodes(made) : TRUE) \in FreeInodes(made)  OBVIOUS
    <3> QED  BY <3>2, <3>3, <3>4
  <2>2. cl \in Int /\ pos \in Int
    <3>1. ranged => r.range[1] \in Int /\ r.range[2] \in Int
      <4>1. Len(r.range) = 2 => 1 \in 1..Len(r.range) /\ 2 \in 1..Len(r.range)  OBVIOUS
      <4> QED  BY <4>1, ElementOfSeq
    <3>2. r.body \in Int  BY <1>6
    <3> HIDE DEF ranged
    <3> QED  BY <3>1, <3>2
  <2>3. Storing(f)  BY <2>1, <2>2 DEF Storing, NoFile
  <2>f. f.fp = fp /\ f.sent = 0 /\ (~ranged => f.pos = 0 /\ f.cl = r.body)  OBVIOUS
  <2> HIDE DEF fp, cl, pos, made
  <2>4. /\ Near(w, opened) /\ opened.nc.file = f /\ opened.nc.send = w.nc.send /\ opened.nc.recv = w.nc.recv
        /\ opened.fs.names[p] = fp /\ opened.fs.size[fp] = 0
    <3>1. /\ DOMAIN made = {"nc", "part", "fs", "err"} /\ DOMAIN made.nc = DOMAIN NewConn
          /\ made.nc.send = w.nc.send
      BY <1>1, <1>2 DEF Kept, Shape
    <3>2. made.fs.names \in [Paths -> Inodes \cup {None, Dir}] /\ made.fs.size \in [Inodes -> Nat]
          /\ made.fs.mtime \in [Inodes -> Int] /\ DOMAIN made.fs = {"names", "size", "mtime"}
      BY <1>2 DEF FileSystems
    <3>3. DOMAIN opened = DOMAIN made /\ opened.part = made.part /\ opened.err = made.err  BY <3>1
    <3>4. opened.nc = [made.nc EXCEPT !.file = f]  BY <3>1
    <3>5. /\ opened.fs.names = [made.fs.names EXCEPT ![p] = fp]
          /\ opened.fs.size = [made.fs.size EXCEPT ![fp] = 0]
          /\ opened.fs.mtime = [made.fs.mtime EXCEPT ![fp] = @ + 1]
          /\ opened.fs = [names |-> opened.fs.names, size |-> opened.fs.size, mtime |-> opened.fs.mtime]
      BY <3>1, <3>2 DEF Emptied, FileSystems
    <3> HIDE DEF opened, f
    <3>6. opened.fs \in FileSystems
      <4>1. opened.fs.names \in [Paths -> Inodes \cup {None, Dir}]  BY <3>5, <3>2, <2>1
      <4>2. opened.fs.size \in [Inodes -> Nat]  BY <3>5, <3>2, <2>1
      <4>3. opened.fs.mtime \in [Inodes -> Int]  BY <3>5, <3>2, <2>1
      <4> QED  BY <4>1, <4>2, <4>3, <3>5 DEF FileSystems
    <3>7. /\ opened.nc.file = f /\ DOMAIN opened.nc = DOMAIN NewConn
          /\ \A g \in DOMAIN NewConn \ {"file"} : opened.nc[g] = made.nc[g]
      BY <3>4, <3>1 DEF NewConn
    <3>8. /\ opened.nc.open = made.nc.open /\ opened.nc.recv = made.nc.recv /\ opened.nc.rcvd = made.nc.rcvd
          /\ opened.nc.cgi = made.nc.cgi /\ opened.nc.linked = made.nc.linked
          /\ opened.nc.send = made.nc.send /\ opened.nc.flags = made.nc.flags
      BY <3>7 DEF NewConn
    <3>9. Shape(opened)
      <4>1. Shape(made) /\ DOMAIN f = DOMAIN NoFile  BY <1>2, <2>3 DEF Kept, Storing
      <4> QED  BY <4>1, <3>3, <3>6, <3>7, <3>8, <3>1 DEF Shape
    <3>10. opened.fs.names[p] = fp /\ opened.fs.size[fp] = 0  BY <3>2, <3>5, <2>1
    <3> QED  BY <3>1, <3>3, <3>7, <3>8, <3>9, <3>10, <1>2 DEF Near, Kept
  <2> HIDE DEF opened, f
  <2> DEFINE x == <<"head", status, 0, r.name, None, 0>>
  <2>5. x[1] = "head" /\ x[5] = None /\ x[4] = r.name /\ (x[2] \in {200, 201} => ~ranged)  OBVIOUS
  <2>6. answered = mg_send(opened, <<x>>)  BY DEF Reply
  <2> HIDE DEF x, answered, status, ranged
  <2>7. IsAnswer(<<x>>) /\ IsSeq(<<x>>) /\ <<x>>[1] = x  BY <2>5, OneHead, OneSeq
  <2>8. Kept(opened, answered) /\ answered.nc.send = w.nc.send \o <<x>> /\ answered.fs = opened.fs
    BY <2>4, <2>6, <2>7, SendKeeps DEF Near
  <2>9. Near(w, answered) /\ answered.nc.file = f /\ answered.nc.recv = w.nc.recv  BY <2>4, <2>8 DEF Near, Kept
  <2>10. Len(w.nc.recv) \in Nat  BY SeqIn DEF Shape
  <2>11. head \in 0..Len(w.nc.recv)  BY <2>10
  <2> DEFINE rest == mbuf_remove(w.nc.recv, head)
  <2>12. /\ rest \in Seq({"request", "body"} \X DOMAIN Request) /\ Behind(rest, w.nc.recv, head)
    BY <2>11, BufferRest DEF Behind
  <2> HIDE DEF rest
  <2>13. /\ Near(w, ready) /\ ready.nc.file = f /\ ready.nc.send = answered.nc.send /\ ready.nc.recv = rest
         /\ ready.fs = opened.fs
    <3>1. ready = [answered EXCEPT !.nc.recv = rest]  BY <2>9 DEF rest
    <3> HIDE DEF ready
    <3>2. /\ Near(answered, ready) /\ ready.nc.file = answered.nc.file /\ ready.nc.send = answered.nc.send
          /\ ready.nc.recv = rest /\ ready.fs = answered.fs
      <4>1. Shape(answered)  BY <2>9 DEF Near
      <4> QED  BY <4>1, <3>1, <2>12, RecvSet
    <3> QED  BY <3>2, <2>8, <2>9 DEF Near
  <2> HIDE DEF ready
  <2> DEFINE u == mg_http_transfer_file_data(ready)
  <2>14. u = StorePiece(ready)  BY <2>3, <2>13 DEF mg_http_transfer_file_data, Storing
  <2> HIDE DEF u
  <2>15. /\ Near(ready, u) /\ u.nc.send = ready.nc.send /\ u.fs.names = ready.fs.names
         /\ \E n \in 0..Len(rest) : u.nc.recv = mbuf_remove(rest, n)
         /\ \/ u.nc.file = NoFile
            \/ Storing(u.nc.file) /\ u.nc.file.sent < u.nc.file.cl /\ u.nc.recv = <<>>
         /\ AllThere(ready) => u.nc.file = NoFile /\ u.fs.size[ready.nc.file.fp] = ready.nc.file.cl
    BY <2>3, <2>13, <2>14, StorePieceIs DEF Near
  <2>16. PICK n \in 0..Len(rest) : u.nc.recv = mbuf_remove(rest, n)  BY <2>15
  <2>17. Behind(u.nc.recv, rest, n)
    <3>1. Shape(ready) /\ ready.nc.recv = rest  BY <2>13 DEF Near
    <3>2. \A m \in 0..Len(ready.nc.recv) : Behind(mbuf_remove(ready.nc.recv, m), ready.nc.recv, m)
      BY <3>1, BufferRest DEF Behind
    <3> QED  BY ONLY <3>1, <3>2, <2>16, n \in 0..Len(rest)
  <2>18. head + n \in head..Len(w.nc.recv) /\ Behind(u.nc.recv, w.nc.recv, head + n)
    <3>1. Len(rest) = Len(w.nc.recv) - head /\ \A k \in 1..Len(w.nc.recv) - head : rest[k] = w.nc.recv[head + k]
      BY <2>12 DEF Behind
    <3>2. Len(u.nc.recv) = Len(rest) - n /\ \A k \in 1..Len(rest) - n : u.nc.recv[k] = rest[n + k]
      BY <2>17 DEF Behind
    <3>3. n \in Int /\ head \in Int /\ n >= 0 /\ n <= Len(w.nc.recv) - head  BY <2>10, <3>1
    <3>4. head + n \in head..Len(w.nc.recv) /\ Len(u.nc.recv) = Len(w.nc.recv) - (head + n)
      BY <2>10, <3>1, <3>2, <3>3
    <3>5. ASSUME NEW k \in 1..Len(w.nc.recv) - (head + n)  PROVE u.nc.recv[k] = w.nc.recv[(head + n) + k]
      <4>1. k \in 1..Len(rest) - n /\ n + k \in 1..Len(w.nc.recv) - head /\ head + (n + k) = (head + n) + k
        BY <2>10, <3>1, <3>3
      <4> QED  BY <4>1, <3>1, <3>2
    <3> QED  BY <3>4, <3>5 DEF Behind
  <2>19. Near(w, u)  BY <2>13, <2>15 DEF Near
  <2>20. u.nc.send = w.nc.send \o <<x>>  BY <2>8, <2>13, <2>15
  <2>21. <<x>>[1][5] \notin Inodes  BY <2>5, <2>7, ConstantsOK
  <2>22. IsPutReply(<<x>>[1]) => <<x>>[1][4] = r.name /\ Whole(w, u, head, r)
    <3> SUFFICES ASSUME IsPutReply(x)  PROVE x[4] = r.name /\ Whole(w, u, head, r)
      BY <2>7
    <3>1. ~ranged /\ x[4] = r.name  BY <2>5 DEF IsPutReply
    <3>2. r.body \in Nat  BY <1>6
    <3>3. ASSUME r.body <= Len(w.nc.recv) - head
          PROVE  /\ u.nc.file = NoFile /\ u.fs.names[p] \in Inodes /\ u.fs.size[u.fs.names[p]] = r.body
      <4>1. Len(rest) = Len(w.nc.recv) - head  BY <2>12 DEF Behind
      <4>2. AllThere(ready)  BY <4>1, <3>1, <3>2, <3>3, <2>4, <2>f, <2>13 DEF AllThere
      <4>3. u.nc.file = NoFile /\ u.fs.size[fp] = r.body  BY <4>2, <3>1, <2>f, <2>13, <2>15
      <4>4. u.fs.names[p] = fp  BY <2>4, <2>13, <2>15
      <4> QED  BY <4>3, <4>4, <2>1
    <3> QED  BY <3>1, <3>2, <3>3 DEF Whole
  <2> QED  BY <2>7, <2>15, <2>18, <2>19, <2>20, <2>21, <2>22 DEF PutSaid, u
<1> HIDE DEF v, made, ready, old
<1>7. Said(w, v, UntilClose) \/ PutSaid(w, v, head, r)  BY <1>3, <1>4, <1>5, <1>6
<1> QED  BY <1>7 DEF v

-----------------------------------------------------------------------------
(* The ways a request can go.                                              *)
Ways == {"moved", "401", "400", "403", "404", "501", "304", "proxy", "cgi", "PROPFIND", "MKCOL",
         "DELETE", "MOVE", "PUT", "OPTIONS", "list", "ssi", "file"}

LEMMA IndexFile ==
  ASSUME NEW fs, NEW d \in Paths, mg_find_index_file(fs, d) # None
  PROVE  fs.names[mg_find_index_file(fs, d)] \in Inodes
<1> DEFINE hits == {i \in DOMAIN Entry[d].index : fs.names[Entry[d].index[i]] \in Inodes}
<1>1. hits \subseteq Nat  BY FilesAssumption
<1>2. mg_find_index_file(fs, d) = IF hits = {} THEN None ELSE Entry[d].index[Min(hits)]  BY DEF mg_find_index_file
<1>3. hits # {} => Min(hits) \in hits
  <2> HIDE DEF hits
  <2> QED  BY <1>1, MinIn
<1>4. hits # {}  BY <1>2
<1> QED  BY <1>2, <1>3, <1>4

LEMMA WayIs ==
  ASSUME NEW fs \in FileSystems, NEW r
  PROVE  LET to == mg_serve_http(fs, r)
         IN  /\ to.way \in Ways
             /\ to.way = "PUT" => r.target \in Paths /\ r.method = "PUT"
             /\ to.way = "file" => fs.names[to.file] \in Inodes
<1> DEFINE to == mg_serve_http(fs, r)
           p == r.target
           dir == IsDir(fs, p)
           index == IF dir THEN mg_find_index_file(fs, p) ELSE None
           file == IF index # None THEN index ELSE p
           dav == mg_is_dav_request(r)
<1>1. CASE ~(Opts.acl /\ ~mg_http_handle_forwarding(r) /\ ~mg_http_send_port_based_redirect
             /\ r.target # "above the root" /\ r.target \in Paths)
  BY <1>1 DEF mg_serve_http, Ways
<1>2. CASE Opts.acl /\ ~mg_http_handle_forwarding(r) /\ ~mg_http_send_port_based_redirect
           /\ r.target # "above the root" /\ r.target \in Paths
  <2>1. to = mg_send_http_file(fs, r)  BY <1>2 DEF mg_serve_http
  <2>2. to.file = file  BY <2>1 DEF mg_send_http_file
  <2>3. to.way = IF dir /\ ~r.slash /\ ~dav THEN "moved"
        ELSE IF r.info /\ ~Entry[file].cgi THEN "501"
        ELSE IF dav /\ ~Opts.dav_root THEN "501"
        ELSE IF ~Authorized(r, p) THEN "401"
        ELSE IF Entry[file].cgi THEN "cgi"
        ELSE IF (~Exists(fs, p) \/ mg_is_file_hidden(p)) /\ ~mg_is_creation_request(r) THEN "404"
        ELSE IF r.method = "PROPFIND" THEN "PROPFIND"
        ELSE IF dav /\ ~DavAuthorized(r) THEN "401"
        ELSE IF dav \/ r.method = "OPTIONS" THEN r.method
        ELSE IF dir /\ index = None THEN (IF Opts.listing THEN "list" ELSE "403")
        ELSE IF mg_is_not_modified(fs, r, fs.names[file]) THEN "304"
        ELSE IF Entry[file].ssi THEN "ssi"
        ELSE "file"
    BY <2>1 DEF mg_send_http_file
  <2>4. dav \/ r.method = "OPTIONS" => r.method \in Ways
    BY DEF mg_is_dav_request, DavMethods, Ways
  <2>5. mg_is_creation_request(r) => dav  BY DEF mg_is_creation_request, mg_is_dav_request, DavMethods
  <2>6. dir /\ index # None => fs.names[file] \in Inodes  BY <1>2, IndexFile
  <2>7. Exists(fs, p) /\ ~dir => fs.names[file] \in Inodes
    <3>1. fs.names[p] \in Inodes \cup {None, Dir}  BY <1>2 DEF FileSystems
    <3> QED  BY <3>1 DEF Exists, IsDir
  <2>8. dav \/ r.method = "OPTIONS" => r.method # "file"
    BY DEF mg_is_dav_request, DavMethods
  <2> HIDE DEF dir, dav, index, file, to
  <2>9. to.way \in Ways
    <3>1. CASE dav \/ r.method = "OPTIONS"  BY <3>1, <2>3, <2>4 DEF Ways
    <3>2. CASE ~(dav \/ r.method = "OPTIONS")  BY <3>2, <2>3 DEF Ways
    <3> QED  BY <3>1, <3>2
  <2>10. to.way = "file" => fs.names[file] \in Inodes
    <3>1. CASE dav \/ r.method = "OPTIONS"  BY <3>1, <2>3, <2>8
    <3>2. CASE ~(dav \/ r.method = "OPTIONS")
      <4>1. to.way = "file" => Exists(fs, p) /\ ~(dir /\ index = None)  BY <3>2, <2>3, <2>5
      <4> QED  BY <4>1, <2>6, <2>7
    <3> QED  BY <3>1, <3>2
  <2>11. to.way = "PUT" => r.method = "PUT"
    <3>1. CASE dav \/ r.method = "OPTIONS"  BY <3>1, <2>3
    <3>2. CASE ~(dav \/ r.method = "OPTIONS")  BY <3>2, <2>3
    <3> QED  BY <3>1, <3>2
  <2> QED  BY <2>2, <2>9, <2>10, <2>11, <1>2 DEF to
<1> QED  BY <1>1, <1>2

(* A request as it is parsed.                                              *)
ParsedOK(r) == r.range \in Seq(Int) /\ r.body \in Nat \cup {NoLength}

AnsweredAs(w, v, head, r) ==
  (\E cl : Said(w, v, cl)) \/ FileSaid(w, v) \/ (r.method = "PUT" /\ PutSaid(w, v, head, r))

LEMMA AnswerIs ==
  ASSUME NEW w, Shape(w), w.nc.file = NoFile, NEW r, ParsedOK(r), NEW head \in 1..Len(w.nc.recv), NEW i
  PROVE  IF NeedsPartner(w, r)
         THEN Answer(w, r, head, i) \in {mg_http_reverse_proxy(w, i), mg_handle_cgi(w, i)}
         ELSE AnsweredAs(w, Answer(w, r, head, i), head, r)
<1> DEFINE to == mg_serve_http(w.fs, r)
           v == Answer(w, r, head, i)
<1>1. to.way \in Ways /\ (to.way = "PUT" => r.target \in Paths /\ r.method = "PUT") /\ (to.way = "file" => w.fs.names[to.file] \in Inodes)
  BY WayIs DEF Shape
<1>2. NeedsPartner(w, r) <=> to.way \in {"proxy", "cgi"}  BY DEF NeedsPartner
<1>3. \A st : st \notin {200, 201} => Said(w, Reply(w, r, st, 0), 0)  BY ReplySaid
<1>4. \A st : Said(w, mg_http_send_error(w, r, st), UntilClose)  BY ErrorSaid
<1> DEFINE status == [x \in {"400", "403", "404", "501", "304"} |->
                   CASE x = "400" -> 400 [] x = "403" -> 403 [] x = "404" -> 404
                     [] x = "501" -> 501 [] x = "304" -> 304]
<1>5. v = CASE to.way = "moved" -> Reply(w, r, 301, 0)
        [] to.way = "401" -> Reply(w, r, 401, 0)
        [] to.way \in DOMAIN status -> mg_http_send_error(w, r, status[to.way])
        [] to.way = "proxy" -> mg_http_reverse_proxy(w, i)
        [] to.way = "cgi" -> mg_handle_cgi(w, i)
        [] to.way = "PROPFIND" -> mg_handle_propfind(w, r, to.file)
        [] to.way = "MKCOL" -> mg_handle_mkcol(w, r)
        [] to.way = "DELETE" -> mg_handle_delete(w, r)
        [] to.way = "MOVE" -> mg_handle_move(w, r)
        [] to.way = "PUT" -> mg_handle_put(w, r, head)
        [] to.way = "OPTIONS" -> Flag(Reply(w, r, 200, UntilClose), "send_and_close")
        [] to.way = "list" -> mg_send_directory_listing(w, r, r.target)
        [] to.way = "ssi" -> mg_handle_ssi_request(w, r, to.file)
        [] to.way = "file" -> mg_http_serve_file(w, r, to.file)
  BY DEF Answer
<1>6. DOMAIN status = {"400", "403", "404", "501", "304"}  OBVIOUS
<1> HIDE DEF to, v, status
<1>7. CASE to.way \in {"400", "403", "404", "501", "304"}
  <2>1. v = mg_http_send_error(w, r, status[to.way])  BY <1>5, <1>6, <1>7
  <2>2. to.way \notin {"proxy", "cgi"}  BY <1>7
  <2> QED  BY <2>1, <2>2, <1>2, <1>4 DEF AnsweredAs, v
<1>8. CASE to.way \in {"moved", "401"}
  <2>1. v = Reply(w, r, 301, 0) \/ v = Reply(w, r, 401, 0)
    <3>1. CASE to.way = "moved"  BY <1>5, <1>6, <3>1
    <3>2. CASE to.way = "401"  BY <1>5, <1>6, <3>2
    <3> QED  BY <3>1, <3>2, <1>8
  <2>2. to.way \notin {"proxy", "cgi"}  BY <1>8
  <2>3. Said(w, Reply(w, r, 301, 0), 0) /\ Said(w, Reply(w, r, 401, 0), 0)  BY <1>3
  <2> QED  BY <2>1, <2>2, <2>3, <1>2 DEF AnsweredAs, v
<1>9. CASE to.way \in {"proxy", "cgi"}
  <2>1. v \in {mg_http_reverse_proxy(w, i), mg_handle_cgi(w, i)}  BY <1>5, <1>6, <1>9
  <2> QED  BY <2>1, <1>2, <1>9 DEF v
<1>10. CASE to.way \in {"PROPFIND", "MKCOL", "DELETE", "MOVE", "OPTIONS", "list", "ssi"}
  <2>1. \/ v = mg_handle_propfind(w, r, to.file) \/ v = mg_handle_mkcol(w, r) \/ v = mg_handle_delete(w, r)
        \/ v = mg_handle_move(w, r) \/ v = Flag(Reply(w, r, 200, UntilClose), "send_and_close")
        \/ v = mg_send_directory_listing(w, r, r.target) \/ v = mg_handle_ssi_request(w, r, to.file)
    <3>1. CASE to.way \in {"PROPFIND", "MKCOL", "DELETE"}  BY <3>1, <1>5, <1>6
    <3>2. CASE to.way \in {"MOVE", "OPTIONS"}  BY <3>2, <1>5, <1>6
    <3>3. CASE to.way \in {"list", "ssi"}  BY <3>3, <1>5, <1>6
    <3> QED  BY <3>1, <3>2, <3>3, <1>10
  <2>2. to.way \notin {"proxy", "cgi"}  BY <1>10
  <2>3. Said(w, v, UntilClose)
    BY <2>1, PropfindSaid, MkcolSaid, DeleteSaid, MoveSaid, PagesSaid
  <2> QED  BY <2>2, <2>3, <1>2 DEF AnsweredAs, v
<1>11. CASE to.way = "PUT"
  <2>1. v = mg_handle_put(w, r, head)  BY <1>5, <1>6, <1>11
  <2>2. Said(w, v, UntilClose) \/ PutSaid(w, v, head, r)  BY <2>1, <1>1, <1>11, PutSaidIs DEF ParsedOK
  <2>3. to.way \notin {"proxy", "cgi"} /\ r.method = "PUT"  BY <1>1, <1>11
  <2> QED  BY <2>2, <2>3, <1>2 DEF AnsweredAs, v
<1>12. CASE to.way = "file"
  <2>1. v = mg_http_serve_file(w, r, to.file)  BY <1>5, <1>6, <1>12
  <2>2. FileSaid(w, v)  BY <2>1, <1>1, <1>12, ServeFileSaid DEF ParsedOK
  <2>3. to.way \notin {"proxy", "cgi"}  BY <1>12
  <2> QED  BY <2>2, <2>3, <1>2 DEF AnsweredAs, v
<1> QED  BY <1>1, <1>7, <1>8, <1>9, <1>10, <1>11, <1>12 DEF Ways

LEMMA HandlerIs ==
  ASSUME NEW w, Shape(w), w.nc.file = NoFile, NEW r, ParsedOK(r), NEW head \in 1..Len(w.nc.recv), NEW i
  PROVE  LET v == mg_http_call_endpoint_handler(w, r, head, i)
         IN  \/ AnsweredAs(w, v, head, r)
             \/ NeedsPartner(w, r) /\ v \in {mg_http_reverse_proxy(w, i), mg_handle_cgi(w, i)}
<1> DEFINE e == mg_http_get_endpoint_handler(r)
           now == IF e = 0 THEN w.nc.endpoint ELSE e
           a == [w EXCEPT !.nc.endpoint = now]
           x == <<"head", 200, 0, r.name, "endpoint", now>>
           v == mg_http_call_endpoint_handler(w, r, head, i)
<1>1. v = IF e # 0 /\ ~mg_http_is_authorized(r, Endpoints[e].auth, FALSE) THEN Reply(w, r, 401, 0)
          ELSE IF now = 0 THEN Answer(w, r, head, i) ELSE mg_send(a, <<x>>)
  BY DEF mg_http_call_endpoint_handler
<1>2. AnsweredAs(w, Reply(w, r, 401, 0), head, r)
  <2>1. Said(w, Reply(w, r, 401, 0), 0)  BY ReplySaid
  <2> QED  BY <2>1 DEF AnsweredAs
<1>3. x[1] = "head" /\ x[3] = 0 /\ x[5] = "endpoint"  OBVIOUS
<1> HIDE DEF v, e, now, x
<1>4. Kept(w, a) /\ a.nc.send = w.nc.send
  <2>1. /\ a.nc = [w.nc EXCEPT !.endpoint = now] /\ DOMAIN a = DOMAIN w
        /\ a.part = w.part /\ a.fs = w.fs /\ a.err = w.err
    BY DEF Shape
  <2> HIDE DEF a
  <2>2. DOMAIN a.nc = DOMAIN w.nc /\ \A g \in DOMAIN NewConn \ {"endpoint"} : a.nc[g] = w.nc[g]
    BY <2>1 DEF Shape, NewConn
  <2>3. /\ a.nc.open = w.nc.open /\ a.nc.recv = w.nc.recv /\ a.nc.rcvd = w.nc.rcvd
        /\ a.nc.file = w.nc.file /\ a.nc.cgi = w.nc.cgi /\ a.nc.linked = w.nc.linked
        /\ a.nc.send = w.nc.send /\ a.nc.flags = w.nc.flags
    BY <2>2 DEF NewConn
  <2>4. Shape(a)  BY <2>1, <2>2, <2>3 DEF Shape
  <2> QED  BY <2>1, <2>3, <2>4 DEF Kept
<1> HIDE DEF a
<1>5. AnsweredAs(w, mg_send(a, <<x>>), head, r)
  <2>0. ~IsPutReply(x)  BY <1>3 DEF IsPutReply
  <2>1. Said(a, mg_send(a, <<x>>), 0)  BY <2>0, <1>3, <1>4, HeadSaid, ConstantsOK DEF Kept
  <2>2. Said(w, mg_send(a, <<x>>), 0)  BY <2>1, <1>4, SaidAfter
  <2> QED  BY <2>2 DEF AnsweredAs
<1>6. \/ AnsweredAs(w, Answer(w, r, head, i), head, r)
      \/ NeedsPartner(w, r) /\ Answer(w, r, head, i) \in {mg_http_reverse_proxy(w, i), mg_handle_cgi(w, i)}
  BY AnswerIs
<1>7. \/ AnsweredAs(w, v, head, r)
      \/ NeedsPartner(w, r) /\ v \in {mg_http_reverse_proxy(w, i), mg_handle_cgi(w, i)}
  BY <1>1, <1>2, <1>5, <1>6
<1> QED  BY <1>7 DEF v

-----------------------------------------------------------------------------
(* The requests in the buffer.                                             *)
LEMMA HeadEndIs ==
  ASSUME NEW recv \in Seq({"request", "body"} \X DOMAIN Request)
  PROVE  /\ HeadEnd(recv) = 0 <=> Requests(recv) = {}
         /\ HeadEnd(recv) # 0 => HeadEnd(recv) \in Requests(recv) /\ HeadEnd(recv) \in 1..Len(recv)
         /\ HeadEnd(recv) \in Nat
<1>1. HeadEnd(recv) = IF Requests(recv) = {} THEN 0 ELSE Min(Requests(recv))  BY DEF HeadEnd, Requests
<1>2. Requests(recv) \subseteq 1..Len(recv) /\ Len(recv) \in Nat  BY SeqIn DEF Requests
<1>3. Requests(recv) \subseteq Nat /\ 0 \notin Requests(recv)  BY <1>2
<1>4. Requests(recv) # {} => Min(Requests(recv)) \in Requests(recv)  BY <1>3, MinIn
<1> QED  BY <1>1, <1>2, <1>3, <1>4

LEMMA ParsedIs ==
  ASSUME NEW recv \in Seq({"request", "body"} \X DOMAIN Request), HeadEnd(recv) # 0
  PROVE  /\ ParsedOK(Parsed(recv)) /\ Parsed(recv).body = Request[recv[HeadEnd(recv)][2]].body
         /\ Parsed(recv).method = "PUT" =>
              recv[HeadEnd(recv)][2] \in DOMAIN Request /\ Parsed(recv) = Request[recv[HeadEnd(recv)][2]]
         /\ MessageLength(recv) # NoLength =>
              IF Parsed(recv).body = NoLength THEN MessageLength(recv) = HeadEnd(recv)
              ELSE MessageLength(recv) = HeadEnd(recv) + Parsed(recv).body
<1> DEFINE q == recv[HeadEnd(recv)][2]
           r == Request[q]
<1>1. HeadEnd(recv) \in 1..Len(recv)  BY HeadEndIs
<1>2. q \in DOMAIN Request
  <2>1. recv[HeadEnd(recv)] \in {"request", "body"} \X DOMAIN Request  BY <1>1, ElementOfSeq
  <2> QED  BY <2>1
<1>3. ParsedOK(r) /\ {"method", "range", "body"} \subseteq DOMAIN r  BY <1>2, FilesAssumption DEF ParsedOK
<1>4. Parsed(recv) = IF HeadEnd(recv) = 1 THEN r ELSE [r EXCEPT !.method = "?"]  BY DEF Parsed
<1> HIDE DEF r
<1>5. Parsed(recv).range = r.range /\ Parsed(recv).body = r.body  BY <1>3, <1>4
<1>p. Parsed(recv).method = "PUT" => Parsed(recv) = r  BY <1>3, <1>4
<1>6. ParsedOK(Parsed(recv))  BY <1>3, <1>5 DEF ParsedOK
<1>7. MessageLength(recv) = IF Parsed(recv).body # NoLength THEN HeadEnd(recv) + Parsed(recv).body
        ELSE IF Parsed(recv).method \in {"PUT", "POST"} THEN NoLength ELSE HeadEnd(recv)
  BY DEF MessageLength
<1> QED  BY <1>2, <1>5, <1>p, <1>6, <1>7 DEF r

(* What is left behind the only request is no request.                     *)
LEMMA NoneBehind ==
  ASSUME NEW s, Len(s) \in Nat, NEW k, Requests(s) \subseteq {k}, k \in Nat,
         NEW m, m \in k..Len(s), NEW t, Behind(t, s, m)
  PROVE  Requests(t) = {}
<1>1. Len(t) = Len(s) - m /\ \A j \in 1..Len(s) - m : t[j] = s[m + j]  BY DEF Behind
<1>2. ASSUME NEW j \in Requests(t)  PROVE FALSE
  <2>1. j \in 1..Len(s) - m /\ t[j][1] = "request"  BY <1>1 DEF Requests
  <2>2. m + j \in 1..Len(s) /\ m + j # k  BY <2>1
  <2>3. s[m + j][1] = "request"  BY <2>1, <1>1
  <2> QED  BY <2>2, <2>3 DEF Requests
<1> QED  BY <1>2

-----------------------------------------------------------------------------
(* What follows for the whole server.                                      *)
LEMMA StreamGrows ==
  ASSUME NEW w, Shape(w), NEW got, IsSeq(got), NEW v, NEW t, IsSeq(t), v.nc.send = w.nc.send \o t
  PROVE  IsSeq(Stream(w, got)) /\ Stream(v, got) = Stream(w, got) \o t
<1>1. IsSeq(w.nc.send)  BY DEF Shape
<1>2. \A s : IsSeq(s) => IsSeq(got \o s)  BY Joined
<1>a. \A s : IsSeq(s) => (got \o s) \o t = got \o (s \o t)  BY JoinedTwice
<1>3. IsSeq(got \o w.nc.send) /\ (got \o w.nc.send) \o t = got \o (w.nc.send \o t)  BY ONLY <1>1, <1>2, <1>a
<1> QED  BY <1>3 DEF Stream

LEMMA KeptNear ==
  ASSUME NEW w, NEW v, Kept(w, v)
  PROVE  Near(w, v)
BY DEF Kept, Near

LEMMA LinkedNear ==
  ASSUME NEW w, NEW v, Near(w, v)
  PROVE  (Linked(w) => Linked(v)) /\ (Busy(w) <=> Busy(v)) /\ (Owed(w) <=> Owed(v))
<1>1. Linked(w) => Linked(v)  BY DEF Near, Linked
<1>2. Busy(w) <=> Busy(v)  BY DEF Near, Busy
<1>3. Owed(w) <=> Owed(v)  BY DEF Near, Owed
<1> QED  BY <1>1, <1>2, <1>3

Sound(w, got, asked) ==
  /\ Shape(w) /\ FileOK(w) /\ Linked(w) /\ w.nc.open
  /\ RangesOK(Stream(w, got)) /\ FileSent(w, Stream(w, got)) /\ Counted(w, Stream(w, got), asked)

(* Nobody is busy with another answer: the server can give the next one.   *)
Ready(w, got, asked) ==
  /\ Shape(w) /\ w.nc.file = NoFile /\ Linked(w) /\ w.nc.open /\ ~Busy(w)
  /\ IsSeq(got) /\ asked \in Nat
  /\ RangesOK(Stream(w, got)) /\ Done(Stream(w, got)) /\ Cardinality(HeadsOf(Stream(w, got))) < asked

LEMMA NoFileOK ==
  ASSUME NEW w, w.nc.file = NoFile
  PROVE  FileOK(w) /\ \A s : FileSent(w, s)
BY DEF FileOK, FileSent, NoFile

LEMMA NotBusyCounted ==
  ASSUME NEW w, ~Busy(w), NEW s, IsSeq(s), NEW asked \in Nat, Cardinality(HeadsOf(s)) <= asked
  PROVE  Counted(w, s, asked)
BY DEF Busy, Owed, Counted

LEMMA AnsweredSound ==
  ASSUME NEW w, NEW got, NEW asked, Ready(w, got, asked), NEW head, NEW r, NEW v, AnsweredAs(w, v, head, r)
  PROVE  Sound(v, got, asked)
<1> DEFINE s == Stream(w, got)
<1>1. /\ Shape(w) /\ w.nc.file = NoFile /\ Linked(w) /\ w.nc.open /\ ~Busy(w)
      /\ IsSeq(got) /\ asked \in Nat /\ RangesOK(s) /\ Done(s) /\ Cardinality(HeadsOf(s)) < asked
  BY DEF Ready
<1>2. IsSeq(s)  BY <1>1, NoSeq, Joined DEF Stream, Shape
<1> HIDE DEF s
<1>3. ASSUME NEW t, IsAnswer(t), Near(w, v), v.nc.send = w.nc.send \o t
      PROVE  /\ Stream(v, got) = s \o t /\ Linked(v) /\ v.nc.open /\ ~Busy(v) /\ Shape(v)
             /\ Counted(v, s \o t, asked)
  <2>1. Stream(v, got) = s \o t
    <3>1. IsSeq(t)  BY <1>3 DEF IsAnswer
    <3> QED  BY <3>1, <1>1, <1>3, StreamGrows DEF s
  <2>2. Linked(v) /\ v.nc.open /\ ~Busy(v) /\ Shape(v)  BY <1>1, <1>3, LinkedNear DEF Near
  <2>3. IsSeq(s \o t) /\ Cardinality(HeadsOf(s \o t)) = Cardinality(HeadsOf(s)) + 1  BY <1>2, <1>3, AnswerAppended
  <2>4. Cardinality(HeadsOf(s)) \in Nat  BY <1>2, HeadsFinite
  <2>5. Cardinality(HeadsOf(s \o t)) <= asked  BY <1>1, <2>3, <2>4
  <2> QED  BY <2>1, <2>2, <2>3, <2>5, <1>1, NotBusyCounted
<1>4. ASSUME NEW cl, Said(w, v, cl)  PROVE Sound(v, got, asked)
  <2>1. PICK t : IsAnswer(t) /\ t[1][5] \notin Inodes /\ v.nc.send = w.nc.send \o t  BY <1>4 DEF Said
  <2>2. Near(w, v) /\ v.nc.file = NoFile  BY <1>1, <1>4, KeptNear DEF Said, Kept
  <2>3. RangesOK(s \o t)  BY <1>1, <1>2, <2>1, PlainAnswer
  <2> QED  BY <1>3, <2>1, <2>2, <2>3, NoFileOK DEF Sound
<1>5. ASSUME PutSaid(w, v, head, r)  PROVE Sound(v, got, asked)
  <2>1. PICK t : IsAnswer(t) /\ t[1][5] \notin Inodes /\ v.nc.send = w.nc.send \o t  BY <1>5 DEF PutSaid
  <2>2. Near(w, v)  BY <1>5 DEF PutSaid
  <2>3. RangesOK(s \o t)  BY <1>1, <1>2, <2>1, PlainAnswer
  <2>4. FileOK(v) /\ FileSent(v, s \o t)
    <3>1. CASE v.nc.file = NoFile  BY <3>1, NoFileOK
    <3>2. CASE Storing(v.nc.file) /\ v.nc.file.sent < v.nc.file.cl /\ v.nc.recv = <<>>
      <4>1. v.nc.file.fp # None /\ v.nc.file.type # "file"  BY <3>2, ConstantsOK DEF Storing
      <4> QED  BY <3>2, <4>1 DEF FileOK, FileSent, Storing
    <3> QED  BY <3>1, <3>2, <1>5 DEF PutSaid
  <2> QED  BY <1>3, <2>1, <2>2, <2>3, <2>4 DEF Sound
<1>6. ASSUME FileSaid(w, v)  PROVE Sound(v, got, asked)
  <2>1. PICK t, n, i, cl, pos : FileAnswer(w, v, t, n, i, cl, pos)  BY <1>6, Zenon DEF FileSaid
  <2>2. /\ Near(w, v) /\ IsAnswer(t) /\ v.nc.send = w.nc.send \o t
        /\ i \in Inodes /\ t[1][5] = i /\ cl \in Nat /\ t[1][3] = cl /\ pos \in Int /\ t[1][6] = pos
        /\ n \in Nat /\ Len(t) = n + 1
        /\ \A k \in 2..n + 1 : t[k] = <<"unit", i, pos + (k - 1) - 1>>
        /\ \/ n = cl /\ v.nc.file = NoFile
           \/ n < cl /\ Sending(v.nc.file, i, cl, pos + n, n)
    BY <2>1 DEF FileAnswer
  <2>3. n <= cl  BY <2>2
  <2>4. RangesOK(s \o t)
    <3>1. Len(t) - 1 <= t[1][3]  BY <2>2, <2>3
    <3> QED  BY <1>1, <1>2, <2>2, <3>1, RangesAfterAnswer
  <2>5. FileOK(v) /\ FileSent(v, s \o t)
    <3>1. CASE n = cl /\ v.nc.file = NoFile  BY <3>1, NoFileOK
    <3>2. CASE n < cl /\ Sending(v.nc.file, i, cl, pos + n, n)
      <4>1. FileOK(v)
        <5>1. i # None /\ pos + n \in Int  BY <2>2, ConstantsOK
        <5> QED  BY <3>2, <5>1, <2>2 DEF FileOK, Sending
      <4> DEFINE h == Len(s) + 1
      <4>2. h \in HeadsOf(s \o t) /\ LastHeadIs(s \o t, h) /\ (s \o t)[h] = t[1] /\ Len(s \o t) = Len(s) + (n + 1)
        BY <1>2, <2>2, AnswerAppended
      <4>3. Len(s) \in Nat  BY <1>2, SeqLen
      <4>4. Len(s \o t) - h = n  BY <4>2, <4>3, <2>2
      <4> HIDE DEF h
      <4>5. FileSent(v, s \o t)  BY <3>2, <4>2, <4>4, <2>2 DEF FileSent, Sending
      <4> QED  BY <4>1, <4>5
    <3> QED  BY <3>1, <3>2, <2>2
  <2> QED  BY <1>3, <2>2, <2>4, <2>5 DEF Sound
<1> QED  BY <1>4, <1>5, <1>6 DEF AnsweredAs

(* A request that goes to a process or another server gets a partner.      *)
LEMMA PartnerStarts ==
  ASSUME NEW w, NEW got, NEW asked, Ready(w, got, asked), NEW i \in Partners,
         NEW v, v \in {mg_http_reverse_proxy(w, i), mg_handle_cgi(w, i)}
  PROVE  Sound(v, got, asked) /\ v.nc.recv \in {w.nc.recv, <<>>}
<1> DEFINE s == Stream(w, got)
<1>1. /\ Shape(w) /\ w.nc.file = NoFile /\ Linked(w) /\ w.nc.open /\ ~Busy(w)
      /\ IsSeq(got) /\ asked \in Nat /\ RangesOK(s) /\ Done(s) /\ Cardinality(HeadsOf(s)) < asked
  BY DEF Ready
<1>2. IsSeq(s) /\ Cardinality(HeadsOf(s)) \in Nat  BY <1>1, NoSeq, Joined, HeadsFinite DEF Stream, Shape
<1>3. w.nc.cgi = 0 /\ w.nc.linked = 0 /\ \A j \in Partners : j # 0 /\ ~w.part[j].link
  <2>1. w.nc.cgi = 0 /\ w.nc.linked = 0  BY <1>1 DEF Busy
  <2>2. \A j \in Partners : j # 0  BY DEF Partners
  <2> QED  BY <2>1, <2>2, <1>1 DEF Linked
<1>d. /\ DOMAIN w = {"nc", "part", "fs", "err"} /\ DOMAIN w.nc = DOMAIN NewConn /\ DOMAIN w.part = Partners
      /\ \A j \in Partners : DOMAIN w.part[j] = DOMAIN NoPartner
  BY <1>1 DEF Shape
<1>p. ASSUME NEW kind
      PROVE  LET p == NewPartner(kind)
             IN  /\ p.kind = kind /\ p.open = TRUE /\ p.link = TRUE /\ p.flags = {} /\ p.recv = <<>> /\ p.said = 0
                 /\ DOMAIN p = DOMAIN NoPartner
  BY DEF NewPartner, NoPartner
<1>4. ASSUME v = mg_handle_cgi(w, i)  PROVE Sound(v, got, asked) /\ v.nc.recv = <<>>
  <2> DEFINE p == NewPartner("cgi")
  <2>1. v = [w EXCEPT !.part[i] = p, !.nc.cgi = i, !.nc.recv = <<>>, !.nc.flags = @ \cup {"parse_headers"}]
    BY <1>4 DEF mg_handle_cgi
  <2>2. DOMAIN v = DOMAIN w /\ v.fs = w.fs /\ v.err = w.err  BY <2>1, <1>d
  <2>3. v.part = [w.part EXCEPT ![i] = p]  BY <2>1, <1>d
  <2>4. /\ v.nc.cgi = i /\ v.nc.recv = <<>> /\ v.nc.flags = w.nc.flags \cup {"parse_headers"}
        /\ DOMAIN v.nc = DOMAIN w.nc
        /\ \A g \in DOMAIN NewConn \ {"cgi", "recv", "flags"} : v.nc[g] = w.nc[g]
    BY <2>1, <1>d DEF NewConn
  <2>5. /\ v.nc.open = w.nc.open /\ v.nc.rcvd = w.nc.rcvd /\ v.nc.file = w.nc.file
        /\ v.nc.linked = w.nc.linked /\ v.nc.send = w.nc.send
    BY <2>4 DEF NewConn
  <2>6. DOMAIN v.part = Partners /\ v.part[i] = p /\ \A j \in Partners \ {i} : v.part[j] = w.part[j]  BY <2>3, <1>d
  <2> HIDE DEF p
  <2>7. Shape(v)
    <3>1. <<>> \in Seq({"request", "body"} \X DOMAIN Request)  OBVIOUS
    <3>2. \A j \in Partners :
            /\ DOMAIN v.part[j] = DOMAIN NoPartner
            /\ IsSeq(v.part[j].recv) /\ v.part[j].said \in Nat
            /\ v.part[j].link \in BOOLEAN /\ v.part[j].open \in BOOLEAN
      <4> TAKE j \in Partners
      <4>1. CASE j = i
        <5>1. v.part[j] = p  BY <4>1, <2>6
        <5>2. p.open = TRUE /\ p.link = TRUE /\ p.recv = <<>> /\ p.said = 0 /\ DOMAIN p = DOMAIN NoPartner
          BY <1>p DEF p
        <5>3. IsSeq(p.recv)
          <6>1. p.recv = <<>>  BY <5>2
          <6> HIDE DEF p
          <6> QED  BY <6>1, NoSeq, Zenon
        <5>4. p.link \in BOOLEAN /\ p.open \in BOOLEAN
          <6>1. p.link = TRUE /\ p.open = TRUE  BY <5>2
          <6> HIDE DEF p
          <6> QED  BY <6>1, Zenon
        <5>5. p.said \in Nat
          <6>1. p.said = 0  BY <5>2
          <6> HIDE DEF p
          <6> QED  BY <6>1
        <5> QED  BY <5>1, <5>2, <5>3, <5>4, <5>5
      <4>2. CASE j # i  BY <4>2, <2>6, <1>1 DEF Shape
      <4> QED  BY <4>1, <4>2
    <3> QED  BY <3>1, <3>2, <2>2, <2>4, <2>5, <2>6, <1>1 DEF Shape
  <2>8. Linked(v)
    <3>1. p.link /\ p.open /\ p.kind = "cgi"  BY <1>p DEF p
    <3>2. w.err = "none"  BY <1>1 DEF Linked
    <3>3. \A j \in Partners \ {i} : ~v.part[j].link  BY <1>3, <2>6
    <3> QED  BY <3>1, <3>2, <3>3, <1>1, <1>3, <2>2, <2>4, <2>5, <2>6 DEF Linked
  <2>9. FileOK(v) /\ FileSent(v, s)  BY <1>1, <2>5, NoFileOK
  <2>10. Stream(v, got) = s  BY <2>5 DEF Stream
  <2>11. Counted(v, s, asked)
    <3>1. "parse_headers" \in v.nc.flags  BY <2>4
    <3> QED  BY <3>1, <1>1, <1>2 DEF Counted
  <2> QED  BY <1>1, <2>4, <2>5, <2>7, <2>8, <2>9, <2>10, <2>11 DEF Sound
<1>5. ASSUME v = mg_http_reverse_proxy(w, i)  PROVE Sound(v, got, asked) /\ v.nc.recv = w.nc.recv
  <2> DEFINE p == NewPartner("backend")
  <2>1. v = [w EXCEPT !.part[i] = p, !.nc.linked = i]
    BY <1>5 DEF mg_http_reverse_proxy
  <2>2. DOMAIN v = DOMAIN w /\ v.fs = w.fs /\ v.err = w.err  BY <2>1, <1>d
  <2>3. v.part = [w.part EXCEPT ![i] = p]  BY <2>1, <1>d
  <2>4. /\ v.nc.linked = i /\ DOMAIN v.nc = DOMAIN w.nc
        /\ \A g \in DOMAIN NewConn \ {"linked"} : v.nc[g] = w.nc[g]
    BY <2>1, <1>d DEF NewConn
  <2>5. /\ v.nc.open = w.nc.open /\ v.nc.rcvd = w.nc.rcvd /\ v.nc.file = w.nc.file /\ v.nc.recv = w.nc.recv
        /\ v.nc.cgi = w.nc.cgi /\ v.nc.send = w.nc.send /\ v.nc.flags = w.nc.flags
    BY <2>4 DEF NewConn
  <2>6. DOMAIN v.part = Partners /\ v.part[i] = p /\ \A j \in Partners \ {i} : v.part[j] = w.part[j]  BY <2>3, <1>d
  <2> HIDE DEF p
  <2>7. Shape(v)
    <3>2. \A j \in Partners :
            /\ DOMAIN v.part[j] = DOMAIN NoPartner
            /\ IsSeq(v.part[j].recv) /\ v.part[j].said \in Nat
            /\ v.part[j].link \in BOOLEAN /\ v.part[j].open \in BOOLEAN
      <4> TAKE j \in Partners
      <4>1. CASE j = i
        <5>1. v.part[j] = p  BY <4>1, <2>6
        <5>2. p.open = TRUE /\ p.link = TRUE /\ p.recv = <<>> /\ p.said = 0 /\ DOMAIN p = DOMAIN NoPartner
          BY <1>p DEF p
        <5>3. IsSeq(p.recv)
          <6>1. p.recv = <<>>  BY <5>2
          <6> HIDE DEF p
          <6> QED  BY <6>1, NoSeq, Zenon
        <5>4. p.link \in BOOLEAN /\ p.open \in BOOLEAN
          <6>1. p.link = TRUE /\ p.open = TRUE  BY <5>2
          <6> HIDE DEF p
          <6> QED  BY <6>1, Zenon
        <5>5. p.said \in Nat
          <6>1. p.said = 0  BY <5>2
          <6> HIDE DEF p
          <6> QED  BY <6>1
        <5> QED  BY <5>1, <5>2, <5>3, <5>4, <5>5
      <4>2. CASE j # i  BY <4>2, <2>6, <1>1 DEF Shape
      <4> QED  BY <4>1, <4>2
    <3> QED  BY <3>2, <2>2, <2>4, <2>5, <2>6, <1>1 DEF Shape
  <2>8. Linked(v)
    <3>1. p.link /\ p.open /\ p.kind = "backend"  BY <1>p DEF p
    <3>2. w.err = "none"  BY <1>1 DEF Linked
    <3>3. \A j \in Partners \ {i} : ~v.part[j].link  BY <1>3, <2>6
    <3> QED  BY <3>1, <3>2, <3>3, <1>1, <1>3, <2>2, <2>4, <2>5, <2>6 DEF Linked
  <2>9. FileOK(v) /\ FileSent(v, s)  BY <1>1, <2>5, NoFileOK
  <2>10. Stream(v, got) = s  BY <2>5 DEF Stream
  <2>11. Counted(v, s, asked)  BY <1>1, <1>2, <1>3, <2>5 DEF Counted
  <2> QED  BY <1>1, <2>5, <2>7, <2>8, <2>9, <2>10, <2>11 DEF Sound
<1> QED  BY <1>4, <1>5

(* The next answer, whichever way it goes.                                 *)
LEMMA ServedSound ==
  ASSUME NEW w, NEW got, NEW asked, Ready(w, got, asked), NEW r, ParsedOK(r),
         NEW head \in 1..Len(w.nc.recv), NEW i, NeedsPartner(w, r) => i \in Partners
  PROVE  LET v == mg_http_call_endpoint_handler(w, r, head, i)
         IN  /\ Sound(v, got, asked)
             /\ v.nc.recv \in {w.nc.recv, <<>>} \/ \E m \in head..Len(w.nc.recv) : Behind(v.nc.recv, w.nc.recv, m)
<1> DEFINE v == mg_http_call_endpoint_handler(w, r, head, i)
<1>1. Shape(w) /\ w.nc.file = NoFile  BY DEF Ready
<1>2. \/ AnsweredAs(w, v, head, r)
      \/ NeedsPartner(w, r) /\ v \in {mg_http_reverse_proxy(w, i), mg_handle_cgi(w, i)}
  BY <1>1, HandlerIs
<1> HIDE DEF v
<1>3. CASE AnsweredAs(w, v, head, r)
  <2>1. v.nc.recv = w.nc.recv \/ \E m \in head..Len(w.nc.recv) : Behind(v.nc.recv, w.nc.recv, m)
    <3>1. ASSUME NEW cl, Said(w, v, cl)  PROVE v.nc.recv = w.nc.recv  BY <3>1 DEF Said, Kept
    <3>2. ASSUME FileSaid(w, v)  PROVE v.nc.recv = w.nc.recv  BY <3>2 DEF FileSaid, FileAnswer
    <3>3. ASSUME PutSaid(w, v, head, r)  PROVE \E m \in head..Len(w.nc.recv) : Behind(v.nc.recv, w.nc.recv, m)
      BY <3>3 DEF PutSaid
    <3> QED  BY <1>3, <3>1, <3>2, <3>3 DEF AnsweredAs
  <2> QED  BY <2>1, <1>3, AnsweredSound DEF v
<1>4. CASE NeedsPartner(w, r) /\ v \in {mg_http_reverse_proxy(w, i), mg_handle_cgi(w, i)}
  BY <1>4, PartnerStarts DEF v
<1> QED  BY <1>2, <1>3, <1>4

(* An open file is not there any more when all before is done with.        *)
LEMMA NoneOpen ==
  ASSUME NEW w, Shape(w), FileOK(w), NEW s, FileSent(w, s), Done(s)
  PROVE  w.nc.file = NoFile \/ (Storing(w.nc.file) /\ w.nc.file.sent < w.nc.file.cl /\ w.nc.recv = <<>>)
<1> SUFFICES ASSUME w.nc.file.fp # None, w.nc.file.type = "file"  PROVE FALSE
  BY DEF FileOK, Storing, Shape
<1>1. PICK h \in HeadsOf(s) :
        LastHeadIs(s, h) /\ s[h][5] = w.nc.file.fp /\ s[h][3] = w.nc.file.cl /\ Len(s) - h = w.nc.file.sent
  BY DEF FileSent
<1>2. w.nc.file.fp \in Inodes /\ w.nc.file.sent \in Nat /\ w.nc.file.cl \in Int /\ w.nc.file.sent < w.nc.file.cl
  BY DEF FileOK
<1>3. IsFileReply(s[h])  BY <1>1, <1>2 DEF IsFileReply, HeadsOf
<1>4. w.nc.file.sent = w.nc.file.cl  BY <1>1, <1>3 DEF Done
<1> QED  BY <1>2, <1>4

LEMMA NearCounted ==
  ASSUME NEW w, NEW v, Near(w, v), NEW s, NEW asked, Counted(w, s, asked)
  PROVE  Counted(v, s, asked)
<1>1. (Busy(w) <=> Busy(v)) /\ (Owed(w) <=> Owed(v))  BY LinkedNear
<1>2. v.nc.cgi = w.nc.cgi /\ ("parse_headers" \in v.nc.flags <=> "parse_headers" \in w.nc.flags)  BY DEF Near
<1> QED  BY <1>1, <1>2 DEF Counted

(* The rest of what came is stored, which was nothing.                     *)
LEMMA StoredSound ==
  ASSUME NEW w, NEW got, NEW asked, Sound(w, got, asked), Storing(w.nc.file), w.nc.recv = <<>>
  PROVE  LET v == StorePiece(w)
         IN  Sound(v, got, asked) /\ Near(w, v) /\ v.nc.recv = w.nc.recv /\ v.nc.send = w.nc.send
<1> DEFINE v == StorePiece(w)
           s == Stream(w, got)
<1>1. /\ Shape(w) /\ Linked(w) /\ w.nc.open /\ RangesOK(s) /\ Counted(w, s, asked)
  BY DEF Sound
<1>2. /\ Near(w, v) /\ v.nc.send = w.nc.send
      /\ \E n \in 0..Len(w.nc.recv) : v.nc.recv = mbuf_remove(w.nc.recv, n)
      /\ \/ v.nc.file = NoFile
         \/ Storing(v.nc.file) /\ v.nc.file.sent < v.nc.file.cl /\ v.nc.recv = <<>>
  BY <1>1, StorePieceIs
<1> HIDE DEF v, s
<1>3. v.nc.recv = <<>>
  <2>1. Len(w.nc.recv) = 0  BY NoSeq
  <2>2. PICK n \in 0..Len(w.nc.recv) : v.nc.recv = mbuf_remove(w.nc.recv, n)  BY <1>2
  <2>3. Len(v.nc.recv) = Len(w.nc.recv) - n  BY <1>1, <2>2, BufferRest
  <2>4. Len(v.nc.recv) = 0  BY <2>1, <2>2, <2>3
  <2>5. v.nc.recv \in Seq({"request", "body"} \X DOMAIN Request)  BY <1>2 DEF Near, Shape
  <2> QED  BY <2>4, <2>5
<1>4. Stream(v, got) = s  BY <1>2 DEF Stream, s
<1>5. FileOK(v) /\ FileSent(v, s)
  <2>1. CASE v.nc.file = NoFile  BY <2>1, NoFileOK
  <2>2. CASE Storing(v.nc.file) /\ v.nc.file.sent < v.nc.file.cl /\ v.nc.recv = <<>>
    <3>1. v.nc.file.fp # None /\ v.nc.file.type # "file"  BY <2>2, ConstantsOK DEF Storing
    <3> QED  BY <2>2, <3>1 DEF FileOK, FileSent, Storing
  <2> QED  BY <2>1, <2>2, <1>2
<1>6. Linked(v) /\ Shape(v) /\ v.nc.open  BY <1>1, <1>2, LinkedNear DEF Near
<1>7. Counted(v, s, asked)  BY <1>1, <1>2, NearCounted
<1>8. Sound(v, got, asked)  BY <1>1, <1>4, <1>5, <1>6, <1>7 DEF Sound
<1> QED  BY <1>2, <1>3, <1>8 DEF v

(* More of a file is sent.                                                 *)
LEMMA SentSound ==
  ASSUME NEW w, NEW got, IsSeq(got), NEW asked \in Nat, Sound(w, got, asked),
         w.nc.file.fp # None, w.nc.file.type = "file"
  PROVE  LET v == SendPiece(w)
         IN  /\ Sound(v, got, asked) /\ Near(w, v) /\ v.nc.recv = w.nc.recv
             /\ HeadsOf(Stream(v, got)) = HeadsOf(Stream(w, got))
             /\ ~Done(Stream(w, got))
<1> DEFINE v == SendPiece(w)
           s == Stream(w, got)
           f == w.nc.file
<1>1. /\ Shape(w) /\ Linked(w) /\ w.nc.open /\ RangesOK(s) /\ Counted(w, s, asked)
      /\ FileOK(w) /\ FileSent(w, s)
  BY DEF Sound
<1>2. IsSeq(s)  BY <1>1, NoSeq, Joined DEF Stream, Shape
<1>3. f.fp \in Inodes /\ f.sent \in Nat /\ f.cl \in Int /\ f.pos \in Int /\ f.sent < f.cl
  BY <1>1 DEF FileOK
<1>4. PICK h \in HeadsOf(s) :
        /\ LastHeadIs(s, h) /\ s[h][5] = f.fp /\ s[h][3] = f.cl
        /\ Len(s) - h = f.sent /\ s[h][6] \in Int /\ f.pos = s[h][6] + f.sent
  BY <1>1 DEF FileSent
<1>5. Sending(f, f.fp, f.cl, f.pos, f.sent)  BY <1>1 DEF Sending, Shape
<1>6. PICK n \in Nat :
        /\ Near(w, v) /\ v.nc.recv = w.nc.recv
        /\ v.nc.send = w.nc.send \o UnitsOf(f.fp, f.pos, n)
        /\ \/ f.sent + n = f.cl /\ v.nc.file = NoFile
           \/ f.sent + n < f.cl /\ Sending(v.nc.file, f.fp, f.cl, f.pos + n, f.sent + n)
  <2>1. f.sent <= f.cl  BY <1>3
  <2>2. \A i \in Inodes, cl \in Int, pos \in Int, sent \in Nat :
          sent <= cl /\ Sending(w.nc.file, i, cl, pos, sent) =>
          \E n \in Nat :
               /\ Near(w, v) /\ v.nc.recv = w.nc.recv /\ v.fs = w.fs
               /\ v.nc.send = w.nc.send \o UnitsOf(i, pos, n)
               /\ \/ sent + n = cl /\ v.nc.file = NoFile
                  \/ sent + n < cl /\ Sending(v.nc.file, i, cl, pos + n, sent + n)
    BY <1>1, SendPieceIs
  <2> HIDE DEF v
  <2> QED  BY <2>1, <2>2, <1>3, <1>5
<1> DEFINE t == UnitsOf(f.fp, f.pos, n)
           u == s \o t
<1> HIDE DEF v, s, f
<1>7. f.sent + n <= f.cl  BY <1>3, <1>6
<1>8. /\ IsSeq(u) /\ RangesOK(u) /\ HeadsOf(u) = HeadsOf(s) /\ LastHeadIs(u, h)
      /\ u[h] = s[h] /\ Len(u) - h = (Len(s) - h) + n
  <2>1. (Len(s) - h) + n <= s[h][3] /\ f.pos = s[h][6] + (Len(s) - h) /\ s[h][6] \in Int /\ f.fp = s[h][5]
    BY <1>4, <1>7
  <2>2. IsSeq(s) /\ RangesOK(s) /\ h \in HeadsOf(s) /\ LastHeadIs(s, h)  BY <1>1, <1>2, <1>4
  <2>3. \A i, pos : i = s[h][5] /\ pos = s[h][6] + (Len(s) - h) => Continued(s, s \o UnitsOf(i, pos, n), h, n)
    BY ONLY <2>1, <2>2, n \in Nat, FileContinues
  <2>4. Continued(s, u, h, n)  BY ONLY <2>1, <2>3 DEF u, t
  <2> QED  BY <2>4 DEF Continued
<1>9. Stream(v, got) = u
  <2>1. IsSeq(t)  BY UnitsAre DEF IsRest
  <2>2. v.nc.send = w.nc.send \o t  BY <1>6
  <2> HIDE DEF t
  <2>3. Stream(v, got) = Stream(w, got) \o t  BY ONLY <2>1, <2>2, <1>1, IsSeq(got), StreamGrows
  <2> QED  BY <2>3 DEF s
<1> HIDE DEF t, u
<1>10. ~Done(s)
  <2>1. IsFileReply(s[h])  BY <1>3, <1>4 DEF IsFileReply, HeadsOf
  <2>2. f.sent # f.cl  BY <1>3
  <2> QED  BY <2>1, <2>2, <1>4 DEF Done
<1>11. ~Busy(w)  BY <1>1, <1>10 DEF Counted
<1>12. Linked(v) /\ Shape(v) /\ v.nc.open /\ ~Busy(v)  BY <1>1, <1>6, <1>11, LinkedNear DEF Near
<1>13. Counted(v, u, asked)
  <2>1. Cardinality(HeadsOf(u)) <= asked  BY <1>1, <1>8 DEF Counted
  <2> QED  BY <2>1, <1>8, <1>12, NotBusyCounted
<1>14. FileOK(v) /\ FileSent(v, u)
  <2>1. CASE v.nc.file = NoFile  BY <2>1, NoFileOK
  <2>2. CASE f.sent + n < f.cl /\ Sending(v.nc.file, f.fp, f.cl, f.pos + n, f.sent + n)
    <3> DEFINE pos == f.pos + n
               sent == f.sent + n
    <3>1. pos \in Int /\ sent \in Nat  BY <1>3
    <3>2. Len(u) - h = sent  BY <1>4, <1>8
    <3>3. pos = u[h][6] + sent
      <4>1. u[h][6] = s[h][6]  BY <1>8
      <4>2. s[h][6] \in Int /\ f.pos = s[h][6] + f.sent  BY <1>4
      <4> QED  BY <4>1, <4>2, <1>3
    <3>4. sent < f.cl /\ Sending(v.nc.file, f.fp, f.cl, pos, sent)  BY <2>2
    <3> HIDE DEF pos, sent
    <3>5. f.fp # None  BY <1>3, ConstantsOK
    <3>6. FileOK(v)  BY <3>1, <3>4, <3>5, <1>3 DEF FileOK, Sending
    <3>7. FileSent(v, u)  BY <3>2, <3>3, <3>4, <1>4, <1>8 DEF FileSent, Sending
    <3> QED  BY <3>6, <3>7
  <2> QED  BY <2>1, <2>2, <1>6
<1>15. Sound(v, got, asked)  BY <1>8, <1>9, <1>12, <1>13, <1>14 DEF Sound
<1> QED  BY <1>6, <1>8, <1>9, <1>10, <1>15 DEF v, s

(* MG_EV_SEND, MG_EV_POLL and MG_EV_CLOSE.                                 *)
LEMMA TransferredSound ==
  ASSUME NEW w, NEW got, IsSeq(got), NEW asked \in Nat, Sound(w, got, asked)
  PROVE  LET v == Transferred(w)
         IN  /\ Sound(v, got, asked) /\ Near(w, v) /\ v.nc.recv = w.nc.recv
             /\ HeadsOf(Stream(v, got)) = HeadsOf(Stream(w, got))
             /\ Done(Stream(w, got)) => Stream(v, got) = Stream(w, got)
<1> DEFINE v == Transferred(w)
<1>1. Shape(w) /\ FileOK(w)  BY DEF Sound
<1>2. CASE w.nc.file.fp = None
  <2>1. v = w  BY <1>2 DEF Transferred
  <2> QED  BY <2>1, <1>1 DEF Near
<1>3. CASE w.nc.file.fp # None /\ w.nc.file.type = "file"
  <2>1. v = SendPiece(w)  BY <1>3 DEF Transferred, mg_http_transfer_file_data
  <2> HIDE DEF v
  <2>2. /\ Sound(v, got, asked) /\ Near(w, v) /\ v.nc.recv = w.nc.recv
        /\ HeadsOf(Stream(v, got)) = HeadsOf(Stream(w, got)) /\ ~Done(Stream(w, got))
    BY <2>1, <1>3, SentSound
  <2> QED  BY <2>2 DEF v
<1>4. CASE w.nc.file.fp # None /\ w.nc.file.type # "file"
  <2>1. v = StorePiece(w)  BY <1>4 DEF Transferred, mg_http_transfer_file_data
  <2> HIDE DEF v
  <2>2. Storing(w.nc.file) /\ w.nc.recv = <<>>  BY <1>1, <1>4 DEF FileOK, Shape, Storing
  <2>3. Sound(v, got, asked) /\ Near(w, v) /\ v.nc.recv = w.nc.recv /\ v.nc.send = w.nc.send
    BY <2>1, <2>2, StoredSound
  <2>4. Stream(v, got) = Stream(w, got)  BY <2>3 DEF Stream
  <2> QED  BY <2>3, <2>4 DEF v
<1> QED  BY <1>2, <1>3, <1>4

-----------------------------------------------------------------------------
(* The buffer.                                                             *)
Buffers == Seq({"request", "body"} \X DOMAIN Request)

LEMMA UnitsOne ==
  ASSUME NEW q \in DOMAIN Request
  PROVE  /\ Units(q) \in Buffers /\ Len(Units(q)) \in Nat /\ Len(Units(q)) >= 1
         /\ Units(q)[1] = <<"request", q>>
         /\ \A k \in 2..Len(Units(q)) : Units(q)[k][1] # "request"
         /\ Request[q].body # NoLength => Len(Units(q)) = 1 + Request[q].body
<1> DEFINE n == IF Request[q].body = NoLength THEN 1 ELSE Request[q].body
           x == <<"request", q>>
           b == [k \in 1..n |-> <<"body", q>>]
           u == Units(q)
<1>1. n \in Nat /\ (Request[q].body # NoLength => n = Request[q].body)
  <2>1. Request[q].body \in Nat \cup {NoLength}  BY FilesAssumption
  <2> QED  BY <2>1
<1> HIDE DEF n
<1>2. b \in Buffers /\ Len(b) = n /\ \A k \in 1..n : b[k][1] = "body"
  <2>1. <<"body", q>> \in {"request", "body"} \X DOMAIN Request /\ <<"body", q>>[1] = "body"  OBVIOUS
  <2> DEFINE y == <<"body", q>>
  <2> HIDE DEF y
  <2>2. b = [k \in 1..n |-> y]  BY DEF y
  <2>3. b \in Buffers /\ Len(b) = n /\ \A k \in 1..n : b[k] = y
    <3> HIDE DEF b
    <3> QED  BY <1>1, <2>1, <2>2 DEF y, Buffers
  <2> QED  BY <2>1, <2>3 DEF y
<1>3. x \in {"request", "body"} \X DOMAIN Request /\ x[1] = "request"  OBVIOUS
<1>4. u = <<x>> \o b  BY DEF Units, n
<1> HIDE DEF u, b, x
<1>5. <<x>> \in Buffers /\ Len(<<x>>) = 1 /\ <<x>>[1] = x
  <2>1. <<x>> \in Buffers  BY <1>3 DEF Buffers
  <2> QED  BY <2>1, OneSeq
<1>6. u \in Buffers /\ Len(u) = 1 + n /\ \A k \in 1..1 + n : u[k] = IF k <= 1 THEN <<x>>[k] ELSE b[k - 1]
  BY <1>1, <1>2, <1>4, <1>5, ConcatProperties DEF Buffers
<1>7. u[1] = x  BY <1>1, <1>5, <1>6
<1>8. ASSUME NEW k \in 2..1 + n  PROVE u[k][1] # "request"
  <2>1. k \in 1..1 + n /\ ~(k <= 1) /\ k - 1 \in 1..n  BY <1>1
  <2> QED  BY <2>1, <1>2, <1>6
<1>9. 1 + n \in Nat /\ 1 + n >= 1  BY <1>1
<1>10. Request[q].body # NoLength => Len(u) = 1 + Request[q].body  BY <1>1, <1>6
<1> QED  BY <1>6, <1>7, <1>8, <1>9, <1>10 DEF u, x

LEMMA BufferJoined ==
  ASSUME NEW s \in Buffers, Requests(s) = {}, NEW q \in DOMAIN Request
  PROVE  LET t == s \o Units(q)
         IN  /\ t \in Buffers /\ Requests(t) = {Len(s) + 1} /\ OneRequest(t)
             /\ Len(s) + 1 \in 1..Len(t) /\ HeadEnd(t) = Len(s) + 1
<1> DEFINE u == Units(q)
           m == Len(s)
           t == s \o u
<1>1. /\ u \in Buffers /\ Len(u) \in Nat /\ Len(u) >= 1
      /\ u[1] = <<"request", q>> /\ \A k \in 2..Len(u) : u[k][1] # "request"
      /\ Request[q].body # NoLength => Len(u) = 1 + Request[q].body
  BY UnitsOne
<1> HIDE DEF u
<1>2. m \in Nat  BY SeqIn DEF Buffers
<1>3. t \in Buffers /\ Len(t) = m + Len(u) /\ \A k \in 1..m + Len(u) : t[k] = IF k <= m THEN s[k] ELSE u[k - m]
  BY <1>1, ConcatProperties DEF Buffers
<1> HIDE DEF t
<1>4. m + 1 \in 1..m + Len(u) /\ t[m + 1] = <<"request", q>>
  <2>1. m + 1 \in 1..m + Len(u) /\ ~(m + 1 <= m) /\ (m + 1) - m = 1  BY <1>1, <1>2
  <2> QED  BY <2>1, <1>1, <1>3
<1>5. ASSUME NEW k \in Requests(t)  PROVE k = m + 1
  <2>1. k \in 1..m + Len(u) /\ t[k][1] = "request"  BY <1>3 DEF Requests
  <2>2. k <= m => k \in 1..m /\ t[k] = s[k]  BY <2>1, <1>2, <1>3
  <2>3. ~(k <= m)  BY <2>1, <2>2 DEF Requests
  <2>4. t[k] = u[k - m]  BY <2>1, <2>3, <1>3
  <2>5. k - m \in 1..Len(u)  BY <2>1, <2>3, <1>1, <1>2
  <2>6. ~(k - m \in 2..Len(u))  BY <2>1, <2>4, <1>1
  <2> QED  BY <2>1, <2>5, <2>6, <1>1, <1>2
<1>6. m + 1 \in Requests(t)  BY <1>3, <1>4 DEF Requests
<1>7. Requests(t) = {m + 1}  BY <1>5, <1>6
<1>8. OneRequest(t)
  <2>1. t[m + 1][2] = q  BY <1>4
  <2>2. Request[q].body # NoLength => (m + 1) + Request[q].body <= Len(t)
    <3>1. Request[q].body \in Nat \cup {NoLength}  BY FilesAssumption
    <3> QED  BY <3>1, <1>1, <1>2, <1>3
  <2> QED  BY <2>1, <2>2, <1>7 DEF OneRequest
<1>9. HeadEnd(t) = m + 1
  <2>1. /\ HeadEnd(t) = 0 <=> Requests(t) = {}
        /\ HeadEnd(t) # 0 => HeadEnd(t) \in Requests(t)
    BY <1>3, HeadEndIs DEF Buffers
  <2> QED  BY <2>1, <1>7
<1> QED  BY <1>3, <1>4, <1>7, <1>8, <1>9 DEF t, u

LEMMA RemoveIs ==
  ASSUME NEW s \in Buffers, NEW m \in Nat
  PROVE  LET t == mbuf_remove(s, m)
         IN  /\ t \in Buffers /\ (Requests(s) = {} => Requests(t) = {}) /\ (s = <<>> => t = <<>>)
             /\ m <= Len(s) => Behind(t, s, m)
<1> DEFINE t == mbuf_remove(s, m)
<1>1. Len(s) \in Nat /\ IsSeq(s)  BY SeqIn DEF Buffers
<1>2. CASE m <= Len(s)
  <2>1. m \in 0..Len(s) /\ t = SubSeq(s, m + 1, Len(s))  BY <1>1, <1>2 DEF mbuf_remove
  <2> HIDE DEF t
  <2>2. Len(t) = Len(s) - m /\ \A k \in 1..Len(s) - m : t[k] = s[m + k]  BY <1>1, <2>1, Parted
  <2>3. t \in Buffers
    <3>1. \A k \in 1..Len(s) : s[k] \in {"request", "body"} \X DOMAIN Request  BY ElementOfSeq DEF Buffers
    <3>2. \A k \in m + 1..Len(s) : s[k] \in {"request", "body"} \X DOMAIN Request  BY <3>1, <1>1
    <3>3. m + 1 \in Int /\ Len(s) \in Int  BY <1>1
    <3> QED  BY <2>1, <3>2, <3>3, SubSeqProperties DEF Buffers
  <2>4. ASSUME Requests(s) = {}, NEW k \in Requests(t)  PROVE FALSE
    <3>1. k \in 1..Len(s) - m /\ t[k][1] = "request"  BY <2>2 DEF Requests
    <3>2. m + k \in 1..Len(s)  BY <3>1, <1>1
    <3>3. s[m + k][1] = "request"  BY <3>1, <2>2
    <3> QED  BY <2>4, <3>2, <3>3 DEF Requests
  <2>5. ASSUME s = <<>>  PROVE t = <<>>
    <3>1. Len(s) = 0  BY <2>5, NoSeq
    <3>2. Len(t) = 0  BY <3>1, <2>2, <2>1
    <3> QED  BY <3>2, <2>3 DEF Buffers
  <2> QED  BY <2>2, <2>3, <2>4, <2>5 DEF t, Behind
<1>3. CASE ~(m <= Len(s))  BY <1>3 DEF mbuf_remove
<1> QED  BY <1>2, <1>3

LEMMA RcvdSet ==
  ASSUME NEW w, Shape(w), NEW n \in Nat
  PROVE  LET v == [w EXCEPT !.nc.rcvd = n]
         IN  /\ Near(w, v) /\ v.nc.file = w.nc.file /\ v.nc.send = w.nc.send /\ v.nc.recv = w.nc.recv
             /\ v.fs = w.fs
<1> DEFINE v == [w EXCEPT !.nc.rcvd = n]
<1>1. /\ v.nc = [w.nc EXCEPT !.rcvd = n] /\ DOMAIN v = DOMAIN w
      /\ v.part = w.part /\ v.fs = w.fs /\ v.err = w.err
  BY DEF Shape
<1> HIDE DEF v
<1>2. /\ v.nc.rcvd = n /\ DOMAIN v.nc = DOMAIN w.nc
      /\ \A g \in DOMAIN NewConn \ {"rcvd"} : v.nc[g] = w.nc[g]
  BY <1>1 DEF Shape, NewConn
<1>3. /\ v.nc.open = w.nc.open /\ v.nc.recv = w.nc.recv /\ v.nc.file = w.nc.file
      /\ v.nc.cgi = w.nc.cgi /\ v.nc.linked = w.nc.linked
      /\ v.nc.send = w.nc.send /\ v.nc.flags = w.nc.flags
  BY <1>2 DEF NewConn
<1>4. Shape(v)  BY <1>1, <1>2, <1>3 DEF Shape
<1> QED  BY <1>1, <1>2, <1>3, <1>4 DEF Near, v

-----------------------------------------------------------------------------
(* When everything the client asked for is answered, and the last answer   *)
(* says that a file was stored, it is, and nothing is written meanwhile.   *)
Held(w, got, asked) ==
  LET s == Stream(w, got)
  IN  Cardinality(HeadsOf(s)) = asked =>
        \A h \in HeadsOf(s) :
          LastHeadIs(s, h) /\ IsPutReply(s[h]) => Stored(w.fs, s[h][4]) /\ w.nc.file = NoFile

LEMMA HeldSame ==
  ASSUME NEW w, NEW got, NEW asked, Held(w, got, asked),
         NEW v, NEW to, Stream(v, to) = Stream(w, got), v.fs = w.fs, v.nc.file = w.nc.file
  PROVE  Held(v, to, asked)
BY DEF Held

(* An answer that is missing says nothing.                                 *)
LEMMA HeldWaits ==
  ASSUME NEW v, NEW got, NEW s, IsSeq(s), Stream(v, got) = s, NEW asked \in Nat, Cardinality(HeadsOf(s)) < asked
  PROVE  Held(v, got, asked)
<1>1. Cardinality(HeadsOf(s)) \in Nat  BY HeadsFinite
<1>2. Cardinality(HeadsOf(s)) # asked  BY <1>1
<1> QED  BY <1>2 DEF Held

LEMMA AnswerHeld ==
  ASSUME NEW w, Shape(w), NEW got, IsSeq(got), NEW asked, NEW v, NEW t, IsAnswer(t), v.nc.send = w.nc.send \o t,
         IsPutReply(t[1]) => Stored(v.fs, t[1][4]) /\ v.nc.file = NoFile
  PROVE  Held(v, got, asked)
<1> DEFINE s == Stream(w, got)
           u == Stream(v, got)
<1>1. IsSeq(s) /\ u = s \o t
  <2>1. IsSeq(t) /\ v.nc.send = w.nc.send \o t  BY DEF IsAnswer
  <2>2. Shape(w) /\ IsSeq(got)  OBVIOUS
  <2>3. \A y : IsSeq(y) /\ v.nc.send = w.nc.send \o y =>
          IsSeq(Stream(w, got)) /\ Stream(v, got) = Stream(w, got) \o y
    BY ONLY <2>2, StreamGrows
  <2> QED  BY <2>1, <2>3
<1> HIDE DEF s, u
<1>2. /\ \A h \in HeadsOf(u) : LastHeadIs(u, h) <=> h = Len(s) + 1
      /\ u[Len(s) + 1] = t[1]
  BY <1>1, AnswerAppended
<1>3. \A h \in HeadsOf(u) : LastHeadIs(u, h) /\ IsPutReply(u[h]) => Stored(v.fs, u[h][4]) /\ v.nc.file = NoFile
  BY <1>2
<1> QED  BY <1>3 DEF Held, u

(* A request whose body has come whole is answered.                        *)
LEMMA AnsweredHeld ==
  ASSUME NEW w, NEW got, NEW asked, Ready(w, got, asked), NEW head, NEW r,
         r.method = "PUT" => \E q \in DOMAIN Request : r = Request[q],
         r.body \in Nat => r.body <= Len(w.nc.recv) - head,
         NEW v, AnsweredAs(w, v, head, r)
  PROVE  Held(v, got, asked)
<1>1. Shape(w) /\ IsSeq(got)  BY DEF Ready
<1>2. ASSUME NEW cl, Said(w, v, cl)  PROVE Held(v, got, asked)
  <2>1. PICK t : IsAnswer(t) /\ v.nc.send = w.nc.send \o t /\ ~IsPutReply(t[1])  BY <1>2 DEF Said
  <2> QED  BY <1>1, <2>1, AnswerHeld
<1>3. ASSUME FileSaid(w, v)  PROVE Held(v, got, asked)
  <2>1. PICK t, n, i, cl, pos : FileAnswer(w, v, t, n, i, cl, pos)  BY <1>3, Zenon DEF FileSaid
  <2>2. IsAnswer(t) /\ v.nc.send = w.nc.send \o t /\ i \in Inodes /\ t[1][5] = i  BY <2>1 DEF FileAnswer
  <2>3. ~IsPutReply(t[1])  BY <2>2 DEF IsPutReply
  <2> QED  BY <1>1, <2>2, <2>3, AnswerHeld
<1>4. ASSUME r.method = "PUT", PutSaid(w, v, head, r)  PROVE Held(v, got, asked)
  <2>1. PICK t : /\ IsAnswer(t) /\ v.nc.send = w.nc.send \o t
                 /\ IsPutReply(t[1]) => t[1][4] = r.name /\ Whole(w, v, head, r)
    BY <1>4 DEF PutSaid
  <2>2. PICK q \in DOMAIN Request : r = Request[q]  BY <1>4
  <2>3. r.name = q  BY <2>2, FilesAssumption
  <2>4. ASSUME IsPutReply(t[1])  PROVE Stored(v.fs, t[1][4]) /\ v.nc.file = NoFile
    <3>1. t[1][4] = q /\ Whole(w, v, head, r)  BY <2>1, <2>3, <2>4
    <3>2. /\ v.nc.file = NoFile /\ v.fs.names[r.target] \in Inodes
          /\ v.fs.size[v.fs.names[r.target]] = r.body
      BY <3>1 DEF Whole
    <3>3. Stored(v.fs, q)  BY <3>2, <2>2, <1>4 DEF Stored
    <3> QED  BY <3>1, <3>2, <3>3
  <2> QED  BY <1>1, <2>1, <2>4, AnswerHeld
<1> QED  BY <1>2, <1>3, <1>4 DEF AnsweredAs

LEMMA NoneWaiting ==
  ASSUME NEW v, NEW got, NEW asked, Sound(v, got, asked), Requests(v.nc.recv) = {}
  PROVE  ServerInv(v, got, asked) /\ \A s : Waiting(v, <<>>, s, asked)
BY DEF Sound, ServerInv, Closed, OneRequest, Waiting

LEMMA StepsServed ==
  ASSUME NEW w, NEW got, NEW asked, Ready(w, got, asked), OneRequest(w.nc.recv), HeadEnd(w.nc.recv) # 0,
         NEW i, NeedsPartner(w, Parsed(w.nc.recv)) => i \in Partners
  PROVE  LET u == mg_http_call_endpoint_handler(w, Parsed(w.nc.recv), HeadEnd(w.nc.recv), i)
         IN  /\ Sound(u, got, asked) /\ u.nc.recv \in Buffers /\ (u.nc.recv = w.nc.recv \/ Requests(u.nc.recv) = {})
             /\ Held(u, got, asked)
<1> DEFINE s == w.nc.recv
           r == Parsed(s)
           head == HeadEnd(s)
           u == mg_http_call_endpoint_handler(w, r, head, i)
<1>1. s \in Buffers /\ Shape(w)  BY DEF Ready, Shape, Buffers
<1>2. head \in Requests(s) /\ head \in 1..Len(s)  BY <1>1, HeadEndIs DEF Buffers
<1>3. ParsedOK(r)  BY <1>1, ParsedIs DEF Buffers
<1>4. /\ Sound(u, got, asked)
      /\ u.nc.recv \in {s, <<>>} \/ \E m \in head..Len(s) : Behind(u.nc.recv, s, m)
  BY <1>2, <1>3, ServedSound
<1>9. Held(u, got, asked)
  <2>1. \/ AnsweredAs(w, u, head, r)
        \/ u \in {mg_http_reverse_proxy(w, i), mg_handle_cgi(w, i)}
    <3>1. w.nc.file = NoFile  BY DEF Ready
    <3> QED  BY <3>1, <1>1, <1>2, <1>3, HandlerIs
  <2>2. r.method = "PUT" => \E q \in DOMAIN Request : r = Request[q]
    BY <1>1, ParsedIs DEF Buffers
  <2>3. r.body \in Nat => r.body <= Len(s) - head
    <3> DEFINE q == s[head][2]
    <3>1. r.body = Request[q].body  BY <1>1, ParsedIs DEF Buffers
    <3>2. Request[q].body # NoLength => head + Request[q].body <= Len(s)  BY <1>2 DEF OneRequest
    <3>3. head \in Nat /\ Len(s) \in Nat  BY <1>1, <1>2, SeqIn DEF Buffers
    <3> HIDE DEF q, head, s, r
    <3>4. r.body \in Nat => r.body # NoLength  BY DEF NoLength
    <3> QED  BY <3>1, <3>2, <3>3, <3>4
  <2>4. CASE AnsweredAs(w, u, head, r)
    <3> HIDE DEF u, head, r
    <3> QED  BY <2>2, <2>3, <2>4, AnsweredHeld
  <2>5. CASE u \in {mg_http_reverse_proxy(w, i), mg_handle_cgi(w, i)}
    <3>1. u.nc.send = w.nc.send
      <4>1. DOMAIN w = {"nc", "part", "fs", "err"} /\ DOMAIN w.nc = DOMAIN NewConn  BY <1>1 DEF Shape
      <4>2. mg_http_reverse_proxy(w, i).nc.send = w.nc.send  BY <4>1 DEF mg_http_reverse_proxy, NewConn
      <4>3. mg_handle_cgi(w, i).nc.send = w.nc.send  BY <4>1 DEF mg_handle_cgi, NewConn
      <4> HIDE DEF u
      <4> QED  BY <4>2, <4>3, <2>5
    <3> HIDE DEF u
    <3>2. Stream(u, got) = Stream(w, got)  BY <3>1 DEF Stream
    <3>3. IsSeq(Stream(w, got)) /\ asked \in Nat /\ Cardinality(HeadsOf(Stream(w, got))) < asked
      <4>1. IsSeq(w.nc.send) /\ IsSeq(got)  BY DEF Ready, Shape
      <4> QED  BY <4>1, Joined DEF Ready, Stream
    <3> QED  BY <3>2, <3>3, HeldWaits
  <2> QED  BY <2>1, <2>4, <2>5
<1> HIDE DEF u, head
<1>5. u.nc.recv \in Buffers  BY <1>4 DEF Sound, Shape, Buffers
<1>6. Requests(s) = {head}  BY <1>2 DEF OneRequest
<1>7. Len(s) \in Nat  BY <1>1, SeqIn DEF Buffers
<1>8. u.nc.recv = s \/ Requests(u.nc.recv) = {}
  <2>1. CASE u.nc.recv = s  BY <2>1
  <2>2. CASE u.nc.recv = <<>>
    <3>1. Requests(<<>>) = {}  BY DEF Requests
    <3> QED  BY <3>1, <2>2
  <2>3. ASSUME NEW m \in head..Len(s), Behind(u.nc.recv, s, m)  PROVE Requests(u.nc.recv) = {}
    <3>1. head \in Nat  BY <1>2, <1>7
    <3> QED  BY <3>1, <2>3, <1>6, <1>7, NoneBehind
  <2> QED  BY <2>1, <2>2, <2>3, <1>4
<1> QED  BY <1>4, <1>5, <1>8, <1>9 DEF u, head

(* MG_EV_RECV.                                                             *)
LEMMA RecvSound ==
  ASSUME NEW w, NEW got, IsSeq(got), NEW asked \in Nat, ServerInv(w, got, asked), w.nc.open,
         NEW q \in DOMAIN Request, Waiting(w, Units(q), Stream(w, got), asked),
         NEW i, NeedsPartner(w, Parsed(w.nc.recv \o Units(q))) => i \in Partners
  PROVE  LET v == HttpRecv(w, Units(q), i)
         IN  ServerInv(v, got, asked) /\ Waiting(v, <<>>, Stream(v, got), asked) /\ Held(v, got, asked)
<1> DEFINE s == Stream(w, got)
           units == Units(q)
           buf == w.nc.recv \o units
           a == [w EXCEPT !.nc.recv = buf]
           d == Transferred(a)
           n == d.nc.rcvd + Len(units)
           c == [d EXCEPT !.nc.rcvd = n]
           recv == c.nc.recv
           message == MessageLength(recv)
           served == mg_http_call_endpoint_handler(c, Parsed(recv), HeadEnd(recv), i)
           taken == [served EXCEPT !.nc.recv = mbuf_remove(@, message), !.nc.rcvd = 0]
           v == HttpRecv(w, Units(q), i)
<1>1. /\ Shape(w) /\ FileOK(w) /\ Linked(w) /\ w.nc.recv \in Buffers
      /\ RangesOK(s) /\ FileSent(w, s) /\ Counted(w, s, asked)
  BY DEF ServerInv, Shape, Buffers
<1>2. units # <<>> /\ units \in Buffers /\ Len(units) \in Nat /\ Len(units) >= 1
  <2>1. units \in Buffers /\ Len(units) \in Nat /\ Len(units) >= 1  BY UnitsOne
  <2> HIDE DEF units
  <2> QED  BY <2>1, NoSeq
<1>3. Cardinality(HeadsOf(s)) < asked /\ Done(s) /\ ~Busy(w) /\ Requests(w.nc.recv) = {}
  BY <1>2 DEF Waiting
<1>4. IsSeq(s)  BY <1>1, NoSeq, Joined DEF Stream, Shape
<1>5. buf \in Buffers /\ Requests(buf) = {Len(w.nc.recv) + 1} /\ OneRequest(buf)
      /\ Len(w.nc.recv) + 1 \in 1..Len(buf) /\ HeadEnd(buf) = Len(w.nc.recv) + 1
  BY <1>1, <1>3, BufferJoined
<1>6. v = IF HeadEnd(recv) = 0 \/ message = NoLength \/ message > c.nc.rcvd THEN c ELSE taken
  BY DEF HttpRecv
<1> HIDE DEF v, s, buf, units
<1>7. Near(w, a) /\ a.nc.file = w.nc.file /\ a.nc.send = w.nc.send /\ a.nc.recv = buf /\ a.fs = w.fs
  BY <1>1, <1>5, RecvSet DEF Buffers
<1> HIDE DEF a
<1>8. CASE w.nc.file = NoFile
  <2>1. d = a  BY <1>7, <1>8 DEF Transferred, NoFile
  <2>2. n \in Nat  BY <1>2, <1>7, <2>1 DEF Near, Shape
  <2> HIDE DEF d, n
  <2>3. Near(a, c) /\ c.nc.file = NoFile /\ c.nc.send = w.nc.send /\ recv = buf /\ c.fs = w.fs
    <3>1. Shape(d)  BY <1>7, <2>1 DEF Near
    <3> QED  BY <3>1, <1>7, <1>8, <2>1, <2>2, RcvdSet
  <2> HIDE DEF c
  <2>4. Near(w, c)  BY <1>7, <2>3 DEF Near
  <2>5. Stream(c, got) = s  BY <2>3 DEF Stream, s
  <2>6. Shape(c) /\ Linked(c) /\ ~Busy(c) /\ c.nc.open  BY <2>4, <1>1, <1>3, LinkedNear DEF Near
  <2>7. Ready(c, got, asked)  BY <2>3, <2>5, <2>6, <1>1, <1>3 DEF Ready
  <2>8. CASE v = c
    <3>1. FileOK(c) /\ FileSent(c, s)  BY <2>3, NoFileOK
    <3>2. Counted(c, s, asked)
      <4>1. Cardinality(HeadsOf(s)) <= asked  BY <1>1 DEF Counted
      <4> QED  BY <4>1, <1>4, <2>6, NotBusyCounted
    <3>3. ServerInv(c, got, asked)
      BY <2>3, <2>5, <2>6, <3>1, <3>2, <1>1, <1>5 DEF ServerInv, Closed
    <3>4. Waiting(c, <<>>, s, asked)  BY <2>6, <1>3 DEF Waiting
    <3>5. Held(c, got, asked)  BY <2>5, <1>3, <1>4, HeldWaits
    <3> QED  BY <2>8, <2>5, <3>3, <3>4, <3>5 DEF v
  <2>9. CASE ~(HeadEnd(recv) = 0 \/ message = NoLength \/ message > c.nc.rcvd)
    <3>1. v = taken  BY <1>6, <2>9
    <3>2. Sound(served, got, asked) /\ served.nc.recv \in Buffers
          /\ (served.nc.recv = buf \/ Requests(served.nc.recv) = {}) /\ Held(served, got, asked)
      <4>1. NeedsPartner(c, Parsed(c.nc.recv)) => i \in Partners
        <5>1. NeedsPartner(c, Parsed(c.nc.recv)) <=> NeedsPartner(w, Parsed(buf))  BY <2>3 DEF NeedsPartner
        <5> QED  BY <5>1 DEF buf, units
      <4>2. OneRequest(c.nc.recv) /\ HeadEnd(c.nc.recv) # 0  BY <2>3, <2>9, <1>5
      <4> QED  BY <4>1, <4>2, <2>3, <2>7, StepsServed
    <3>3. message \in HeadEnd(buf)..Len(buf)
      <4>1. MessageLength(buf) # NoLength /\ HeadEnd(buf) # 0  BY <2>3, <2>9
      <4> DEFINE body == Request[buf[HeadEnd(buf)][2]].body
      <4>2. IF body = NoLength THEN MessageLength(buf) = HeadEnd(buf) ELSE MessageLength(buf) = HeadEnd(buf) + body
        BY <1>5, <4>1, ParsedIs DEF Buffers
      <4>3. body \in Nat \cup {NoLength}
        <5>1. ParsedOK(Parsed(buf)) /\ Parsed(buf).body = body  BY <1>5, <4>1, ParsedIs DEF Buffers
        <5> QED  BY <5>1 DEF ParsedOK
      <4>4. body # NoLength => HeadEnd(buf) + body <= Len(buf)
        BY <1>5 DEF OneRequest
      <4>5. HeadEnd(buf) \in 1..Len(buf) /\ Len(buf) \in Nat
        BY <1>5, SeqIn DEF Buffers
      <4> HIDE DEF body
      <4>6. HeadEnd(buf) \in Int  BY <4>5
      <4>7. MessageLength(buf) \in HeadEnd(buf)..Len(buf)
        <5>1. CASE body = NoLength  BY <5>1, <4>2, <4>5
        <5>2. CASE body # NoLength  BY <5>2, <4>2, <4>3, <4>4, <4>5
        <5> QED  BY <5>1, <5>2
      <4> QED  BY <4>7, <2>3
    <3>4. message \in Nat /\ message <= Len(buf)  BY <3>3, <1>5, SeqIn DEF Buffers
    <3> HIDE DEF message, served
    <3> DEFINE t == mbuf_remove(served.nc.recv, message)
    <3>5. t \in Buffers /\ Requests(t) = {} /\ (served.nc.recv = <<>> => t = <<>>)
      <4>1. t \in Buffers /\ (Requests(served.nc.recv) = {} => Requests(t) = {}) /\ (served.nc.recv = <<>> => t = <<>>)
            /\ (message <= Len(served.nc.recv) => Behind(t, served.nc.recv, message))
        BY <3>2, <3>4, RemoveIs
      <4> HIDE DEF t
      <4>2. CASE served.nc.recv = buf
        <5>1. Behind(t, buf, message)  BY <4>1, <4>2, <3>4
        <5>2. Requests(buf) = {HeadEnd(buf)} /\ HeadEnd(buf) \in Nat /\ Len(buf) \in Nat  BY <1>5, SeqIn DEF Buffers
        <5>3. Requests(t) = {}  BY <5>1, <5>2, <3>3, NoneBehind
        <5> QED  BY <4>1, <5>3
      <4> QED  BY <4>1, <4>2, <3>2
    <3> HIDE DEF t
    <3> DEFINE e == [served EXCEPT !.nc.recv = t]
    <3>6. Shape(served) /\ FileOK(served)  BY <3>2 DEF Sound
    <3>7. Near(served, e) /\ e.nc.file = served.nc.file /\ e.nc.send = served.nc.send /\ e.nc.recv = t
          /\ e.fs = served.fs
      BY <3>5, <3>6, RecvSet DEF Buffers
    <3>8. taken = [e EXCEPT !.nc.rcvd = 0]
      <4>1. DOMAIN served = {"nc", "part", "fs", "err"} /\ DOMAIN served.nc = DOMAIN NewConn  BY <3>6 DEF Shape
      <4> HIDE DEF t
      <4>2. taken = [served EXCEPT !.nc.recv = t, !.nc.rcvd = 0]  BY <4>1 DEF t, NewConn
      <4> QED  BY <4>1, <4>2 DEF NewConn
    <3> HIDE DEF e, taken
    <3>9. Near(e, v) /\ v.nc.file = e.nc.file /\ v.nc.send = e.nc.send /\ v.nc.recv = e.nc.recv /\ v.fs = e.fs
      <4>1. Shape(e) /\ 0 \in Nat  BY <3>7 DEF Near
      <4>2. Near(e, [e EXCEPT !.nc.rcvd = 0]) /\ [e EXCEPT !.nc.rcvd = 0].nc.file = e.nc.file
            /\ [e EXCEPT !.nc.rcvd = 0].nc.send = e.nc.send /\ [e EXCEPT !.nc.rcvd = 0].nc.recv = e.nc.recv
            /\ [e EXCEPT !.nc.rcvd = 0].fs = e.fs
        BY <4>1, RcvdSet
      <4> QED  BY <4>2, <3>1, <3>8
    <3>10. Near(served, v) /\ v.nc.file = served.nc.file /\ v.nc.send = served.nc.send /\ v.nc.recv = t
           /\ v.fs = served.fs
      BY <3>7, <3>9 DEF Near
    <3>11. Sound(v, got, asked)
      <4>1. Stream(v, got) = Stream(served, got)  BY <3>10 DEF Stream
      <4>2. FileOK(v)  BY <3>5, <3>6, <3>10 DEF FileOK
      <4>3. FileSent(v, Stream(served, got))  BY <3>2, <3>10 DEF Sound, FileSent
      <4>4. Counted(v, Stream(served, got), asked)  BY <3>2, <3>10, NearCounted DEF Sound
      <4>5. Linked(v) /\ Shape(v) /\ v.nc.open  BY <3>2, <3>10, LinkedNear DEF Near, Sound
      <4> QED  BY <4>1, <4>2, <4>3, <4>4, <4>5, <3>2 DEF Sound
    <3>12. Held(v, got, asked)
      <4>1. Stream(v, got) = Stream(served, got)  BY <3>10 DEF Stream
      <4> QED  BY <4>1, <3>2, <3>10, HeldSame
    <3> QED  BY <3>5, <3>10, <3>11, <3>12, NoneWaiting DEF v
  <2> QED  BY <2>8, <2>9, <1>6
<1>9. CASE w.nc.file # NoFile
  <2>1. Storing(w.nc.file) /\ w.nc.file.sent < w.nc.file.cl /\ w.nc.recv = <<>>
    BY <1>9, <1>1, <1>3, NoneOpen
  <2>2. Len(w.nc.recv) = 0  BY <2>1, NoSeq
  <2>3. Storing(a.nc.file) /\ a.nc.file.sent < a.nc.file.cl  BY <2>1, <1>7
  <2>4. Len(buf) \in Nat /\ Requests(buf) = {1} /\ Len(buf) >= 1 /\ buf # <<>>
    <3>1. Len(buf) \in Nat  BY <1>5, SeqIn DEF Buffers
    <3>2. Requests(buf) = {1} /\ 1 \in 1..Len(buf)  BY <1>5, <2>2
    <3>3. buf # <<>>  BY <3>1, <3>2, NoSeq
    <3> QED  BY <3>1, <3>2, <3>3
  <2>5. d = StorePiece(a)
    <3>1. a.nc.file.fp # None /\ a.nc.file.type # "file"  BY <2>3, ConstantsOK DEF Storing
    <3> QED  BY <3>1 DEF Transferred, mg_http_transfer_file_data
  <2> HIDE DEF d
  <2>6. /\ Near(a, d) /\ d.nc.send = a.nc.send
        /\ \E m \in 0..Len(buf) : d.nc.recv = mbuf_remove(buf, m) /\ m >= 1
        /\ \/ d.nc.file = NoFile
           \/ Storing(d.nc.file) /\ d.nc.file.sent < d.nc.file.cl /\ d.nc.recv = <<>>
    <3>1. Shape(a)  BY <1>7 DEF Near
    <3> QED  BY <3>1, <2>3, <2>4, <2>5, <1>7, StorePieceIs
  <2>7. Requests(d.nc.recv) = {}
    <3>1. PICK m \in 0..Len(buf) : d.nc.recv = mbuf_remove(buf, m) /\ m >= 1  BY <2>6
    <3>2. m \in Nat /\ m <= Len(buf) /\ m \in 1..Len(buf)  BY <3>1, <2>4
    <3>3. Behind(d.nc.recv, buf, m)  BY <3>1, <3>2, <1>5, RemoveIs
    <3> QED  BY <3>2, <3>3, <2>4, NoneBehind
  <2>8. n \in Nat /\ Shape(d)  BY <1>2, <2>6 DEF Near, Shape
  <2> HIDE DEF n
  <2>9. Near(d, c) /\ c.nc.file = d.nc.file /\ c.nc.send = d.nc.send /\ recv = d.nc.recv
    BY <2>8, RcvdSet
  <2> HIDE DEF c
  <2>10. HeadEnd(recv) = 0
    <3>1. d.nc.recv \in Buffers  BY <2>8 DEF Shape, Buffers
    <3> QED  BY <3>1, <2>7, <2>9, HeadEndIs DEF Buffers
  <2>11. v = c  BY <2>10, <1>6
  <2>12. Near(w, c) /\ c.nc.send = w.nc.send  BY <1>7, <2>6, <2>9 DEF Near
  <2>13. Stream(c, got) = s  BY <2>12 DEF Stream, s
  <2>14. Shape(c) /\ Linked(c) /\ c.nc.open  BY <2>12, <1>1, LinkedNear DEF Near
  <2>15. Counted(c, s, asked)  BY <2>12, <1>1, NearCounted
  <2>16. FileOK(c) /\ FileSent(c, s)
    <3>1. CASE c.nc.file = NoFile  BY <3>1, NoFileOK
    <3>2. CASE Storing(c.nc.file) /\ c.nc.file.sent < c.nc.file.cl /\ c.nc.recv = <<>>
      <4>1. c.nc.file.fp # None /\ c.nc.file.type # "file"  BY <3>2, ConstantsOK DEF Storing
      <4> QED  BY <3>2, <4>1 DEF FileOK, FileSent, Storing
    <3> QED  BY <3>1, <3>2, <2>6, <2>9
  <2>17. Sound(c, got, asked)  BY <1>1, <2>13, <2>14, <2>15, <2>16 DEF Sound
  <2>18. Held(c, got, asked)  BY <2>13, <1>3, <1>4, HeldWaits
  <2> QED  BY <2>7, <2>9, <2>11, <2>17, <2>18, NoneWaiting DEF v
<1> QED  BY <1>8, <1>9

-----------------------------------------------------------------------------
(* The partners.                                                           *)
PartOK(p) ==
  /\ DOMAIN p = DOMAIN NoPartner
  /\ IsSeq(p.recv) /\ p.said \in Nat
  /\ p.link \in BOOLEAN /\ p.open \in BOOLEAN

LEMMA PartSet ==
  ASSUME NEW w, Shape(w), NEW i \in Partners, NEW p, PartOK(p)
  PROVE  LET v == [w EXCEPT !.part[i] = p]
         IN  /\ Shape(v) /\ v.nc = w.nc /\ v.fs = w.fs /\ v.err = w.err
             /\ v.part[i] = p /\ \A j \in Partners \ {i} : v.part[j] = w.part[j]
<1> DEFINE v == [w EXCEPT !.part[i] = p]
<1>1. /\ v.nc = w.nc /\ v.fs = w.fs /\ v.err = w.err /\ DOMAIN v = DOMAIN w
      /\ v.part = [w.part EXCEPT ![i] = p] /\ DOMAIN w.part = Partners
  BY DEF Shape
<1> HIDE DEF v
<1>2. DOMAIN v.part = Partners /\ v.part[i] = p /\ \A j \in Partners \ {i} : v.part[j] = w.part[j]  BY <1>1
<1>3. \A j \in Partners : PartOK(v.part[j])
  <2> TAKE j \in Partners
  <2>1. CASE j = i  BY <2>1, <1>2
  <2>2. CASE j # i
    <3>1. PartOK(w.part[j])  BY DEF Shape, PartOK
    <3> QED  BY <3>1, <2>2, <1>2
  <2> QED  BY <2>1, <2>2
<1>4. Shape(v)  BY <1>1, <1>2, <1>3 DEF Shape, PartOK
<1> QED  BY <1>1, <1>2, <1>4 DEF v

LEMMA PartsAre ==
  ASSUME NEW w, Shape(w), NEW i \in Partners
  PROVE  PartOK(w.part[i])
BY DEF Shape, PartOK

LEMMA CgiSet ==
  ASSUME NEW w, Shape(w)
  PROVE  LET v == [w EXCEPT !.nc.cgi = 0]
         IN  /\ Shape(v) /\ v.fs = w.fs /\ v.err = w.err /\ v.part = w.part /\ v.nc.cgi = 0
             /\ v.nc.open = w.nc.open /\ v.nc.recv = w.nc.recv /\ v.nc.file = w.nc.file
             /\ v.nc.linked = w.nc.linked /\ v.nc.send = w.nc.send /\ v.nc.flags = w.nc.flags
<1> DEFINE v == [w EXCEPT !.nc.cgi = 0]
<1>1. /\ v.nc = [w.nc EXCEPT !.cgi = 0] /\ DOMAIN v = DOMAIN w
      /\ v.part = w.part /\ v.fs = w.fs /\ v.err = w.err
  BY DEF Shape
<1> HIDE DEF v
<1>2. /\ v.nc.cgi = 0 /\ DOMAIN v.nc = DOMAIN w.nc
      /\ \A g \in DOMAIN NewConn \ {"cgi"} : v.nc[g] = w.nc[g]
  BY <1>1 DEF Shape, NewConn
<1>3. /\ v.nc.open = w.nc.open /\ v.nc.recv = w.nc.recv /\ v.nc.file = w.nc.file /\ v.nc.rcvd = w.nc.rcvd
      /\ v.nc.linked = w.nc.linked /\ v.nc.send = w.nc.send /\ v.nc.flags = w.nc.flags
  BY <1>2 DEF NewConn
<1>4. Shape(v)  BY <1>1, <1>2, <1>3 DEF Shape
<1> QED  BY <1>1, <1>2, <1>3, <1>4 DEF v

LEMMA LinkedSet ==
  ASSUME NEW w, Shape(w)
  PROVE  LET v == [w EXCEPT !.nc.linked = 0]
         IN  /\ Shape(v) /\ v.fs = w.fs /\ v.err = w.err /\ v.part = w.part /\ v.nc.linked = 0
             /\ v.nc.open = w.nc.open /\ v.nc.recv = w.nc.recv /\ v.nc.file = w.nc.file
             /\ v.nc.cgi = w.nc.cgi /\ v.nc.send = w.nc.send /\ v.nc.flags = w.nc.flags
<1> DEFINE v == [w EXCEPT !.nc.linked = 0]
<1>1. /\ v.nc = [w.nc EXCEPT !.linked = 0] /\ DOMAIN v = DOMAIN w
      /\ v.part = w.part /\ v.fs = w.fs /\ v.err = w.err
  BY DEF Shape
<1> HIDE DEF v
<1>2. /\ v.nc.linked = 0 /\ DOMAIN v.nc = DOMAIN w.nc
      /\ \A g \in DOMAIN NewConn \ {"linked"} : v.nc[g] = w.nc[g]
  BY <1>1 DEF Shape, NewConn
<1>3. /\ v.nc.open = w.nc.open /\ v.nc.recv = w.nc.recv /\ v.nc.file = w.nc.file /\ v.nc.rcvd = w.nc.rcvd
      /\ v.nc.cgi = w.nc.cgi /\ v.nc.send = w.nc.send /\ v.nc.flags = w.nc.flags
  BY <1>2 DEF NewConn
<1>4. Shape(v)  BY <1>1, <1>2, <1>3 DEF Shape
<1> QED  BY <1>1, <1>2, <1>3, <1>4 DEF v

(* The partner i of w has lost its link in v.                              *)
Loose(w, v, i) ==
  \A j \in Partners :
    IF j = i THEN ~v.part[j].link /\ v.part[j].open = w.part[j].open /\ v.part[j].kind = w.part[j].kind
    ELSE v.part[j] = w.part[j]

LEMMA FreeCgi ==
  ASSUME NEW w, Shape(w)
  PROVE  LET v == mg_http_free_proto_data_cgi(w)
         IN  /\ Shape(v) /\ v.fs = w.fs /\ v.err = w.err /\ v.nc.cgi = 0 /\ Loose(w, v, w.nc.cgi)
             /\ v.nc.open = w.nc.open /\ v.nc.recv = w.nc.recv /\ v.nc.file = w.nc.file
             /\ v.nc.linked = w.nc.linked /\ v.nc.send = w.nc.send /\ v.nc.flags = w.nc.flags
<1> DEFINE v == mg_http_free_proto_data_cgi(w)
           c == w.nc.cgi
           p == [w.part[c] EXCEPT !.flags = @ \cup {"close_immediately"}, !.link = FALSE]
           x == [w EXCEPT !.part[c] = p]
<1>1. c \in Partners \cup {0} /\ 0 \notin Partners  BY DEF Shape, Partners
<1>2. CASE c = 0
  <2>1. v = w  BY <1>2 DEF mg_http_free_proto_data_cgi
  <2>2. Loose(w, v, 0)  BY <1>1, <2>1 DEF Loose
  <2> QED  BY <1>2, <2>1, <2>2
<1>3. CASE c # 0
  <2>1. c \in Partners  BY <1>1, <1>3
  <2>2. PartOK(w.part[c])  BY <2>1, PartsAre
  <2>3. p.link = FALSE /\ p.open = w.part[c].open /\ p.kind = w.part[c].kind /\ PartOK(p)
    <3> DEFINE y == w.part[c]
    <3>1. PartOK(y)  BY <2>2
    <3>2. p = [y EXCEPT !.flags = y.flags \cup {"close_immediately"}, !.link = FALSE]  OBVIOUS
    <3> HIDE DEF y, p
    <3>3. DOMAIN y = {"kind", "open", "link", "flags", "recv", "said"}  BY <3>1 DEF PartOK, NoPartner
    <3>4. DOMAIN p = DOMAIN y /\ p.link = FALSE /\ p.open = y.open /\ p.kind = y.kind /\ p.recv = y.recv /\ p.said = y.said
      BY <3>2, <3>3
    <3>5. PartOK(p)  BY <3>1, <3>4 DEF PartOK
    <3> QED  BY <3>4, <3>5 DEF y
  <2>4. v = [x EXCEPT !.nc.cgi = 0]
    <3>1. v = [w EXCEPT !.part[c].flags = @ \cup {"close_immediately"}, !.part[c].link = FALSE, !.nc.cgi = 0]
      BY <1>3 DEF mg_http_free_proto_data_cgi
    <3>2. DOMAIN w = {"nc", "part", "fs", "err"} /\ DOMAIN w.part = Partners /\ DOMAIN w.part[c] = DOMAIN NoPartner
      BY <2>1 DEF Shape
    <3> HIDE DEF v
    <3> QED  BY <3>1, <3>2, <2>1 DEF NoPartner
  <2> HIDE DEF v, p
  <2>5. /\ Shape(x) /\ x.nc = w.nc /\ x.fs = w.fs /\ x.err = w.err
        /\ x.part[c] = p /\ \A j \in Partners \ {c} : x.part[j] = w.part[j]
    BY <2>1, <2>3, PartSet
  <2> HIDE DEF x
  <2>6. /\ Shape(v) /\ v.fs = x.fs /\ v.err = x.err /\ v.part = x.part /\ v.nc.cgi = 0
        /\ v.nc.open = x.nc.open /\ v.nc.recv = x.nc.recv /\ v.nc.file = x.nc.file
        /\ v.nc.linked = x.nc.linked /\ v.nc.send = x.nc.send /\ v.nc.flags = x.nc.flags
    BY <2>4, <2>5, CgiSet
  <2>7. Loose(w, v, c)  BY <2>3, <2>5, <2>6 DEF Loose
  <2> QED  BY <2>5, <2>6, <2>7 DEF v
<1> QED  BY <1>2, <1>3

LEMMA FreeProxy ==
  ASSUME NEW w, Shape(w), w.nc.linked # 0 => w.part[w.nc.linked].open
  PROVE  LET v == mg_http_free_reverse_proxy_data(w)
         IN  /\ Shape(v) /\ v.fs = w.fs /\ v.err = w.err /\ v.nc.linked = 0 /\ Loose(w, v, w.nc.linked)
<1> DEFINE v == mg_http_free_reverse_proxy_data(w)
           c == w.nc.linked
           p == [w.part[c] EXCEPT !.link = FALSE]
           x == [w EXCEPT !.part[c] = p]
<1>1. c \in Partners \cup {0} /\ 0 \notin Partners  BY DEF Shape, Partners
<1>2. CASE c = 0
  <2>1. v = w  BY <1>2 DEF mg_http_free_reverse_proxy_data
  <2>2. Loose(w, v, 0)  BY <1>1, <2>1 DEF Loose
  <2> QED  BY <1>2, <2>1, <2>2
<1>3. CASE c # 0
  <2>1. c \in Partners /\ w.part[c].open  BY <1>1, <1>3
  <2>2. PartOK(w.part[c])  BY <2>1, PartsAre
  <2>3. p.link = FALSE /\ p.open = w.part[c].open /\ p.kind = w.part[c].kind /\ PartOK(p)
    <3> DEFINE y == w.part[c]
    <3>1. PartOK(y)  BY <2>2
    <3>2. p = [y EXCEPT !.link = FALSE]  OBVIOUS
    <3> HIDE DEF y, p
    <3>3. DOMAIN y = {"kind", "open", "link", "flags", "recv", "said"}  BY <3>1 DEF PartOK, NoPartner
    <3>4. DOMAIN p = DOMAIN y /\ p.link = FALSE /\ p.open = y.open /\ p.kind = y.kind /\ p.recv = y.recv /\ p.said = y.said
      BY <3>2, <3>3
    <3>5. PartOK(p)  BY <3>1, <3>4 DEF PartOK
    <3> QED  BY <3>4, <3>5 DEF y
  <2>4. v = [x EXCEPT !.nc.linked = 0]
    <3>1. v = [w EXCEPT !.part[c].link = FALSE, !.nc.linked = 0,
                        !.err = IF w.part[c].open THEN @ ELSE "freed backend"]
      BY <1>3 DEF mg_http_free_reverse_proxy_data
    <3>2. DOMAIN w = {"nc", "part", "fs", "err"} /\ DOMAIN w.part = Partners /\ DOMAIN w.part[c] = DOMAIN NoPartner
      BY <2>1 DEF Shape
    <3> HIDE DEF v
    <3>3. v = [w EXCEPT !.part[c].link = FALSE, !.nc.linked = 0]  BY <3>1, <3>2, <2>1
    <3> QED  BY <3>3, <3>2, <2>1 DEF NoPartner
  <2> HIDE DEF v, p
  <2>5. /\ Shape(x) /\ x.nc = w.nc /\ x.fs = w.fs /\ x.err = w.err
        /\ x.part[c] = p /\ \A j \in Partners \ {c} : x.part[j] = w.part[j]
    BY <2>1, <2>3, PartSet
  <2> HIDE DEF x
  <2>6. /\ Shape(v) /\ v.fs = x.fs /\ v.err = x.err /\ v.part = x.part /\ v.nc.linked = 0
    BY <2>4, <2>5, LinkedSet
  <2>7. Loose(w, v, c)  BY <2>3, <2>5, <2>6 DEF Loose
  <2> QED  BY <2>5, <2>6, <2>7 DEF v
<1> QED  BY <1>2, <1>3

(* The connection that is gone.                                            *)
GoneConn == [NewConn EXCEPT !.open = FALSE]

LEMMA GoneIs ==
  /\ DOMAIN GoneConn = DOMAIN NewConn /\ GoneConn.open = FALSE /\ GoneConn.file = NoFile
  /\ GoneConn.send = <<>> /\ GoneConn.recv = <<>> /\ GoneConn.rcvd = 0
  /\ GoneConn.cgi = 0 /\ GoneConn.linked = 0
BY DEF GoneConn, NewConn

LEMMA DestructorIs ==
  ASSUME NEW w, Shape(w), w.err = "none", w.nc.linked # 0 => w.part[w.nc.linked].open,
         \A j \in Partners : w.part[j].link => j \in {w.nc.cgi, w.nc.linked}
  PROVE  LET v == mg_http_conn_destructor(w)
         IN  Shape(v) /\ Linked(v) /\ v.nc = GoneConn /\ v.fs = w.fs
<1> DEFINE f == mg_http_free_proto_data_file(w)
           g == mg_http_free_proto_data_cgi(f)
           h == mg_http_free_reverse_proxy_data(g)
           v == mg_http_conn_destructor(w)
<1>0. v = [h EXCEPT !.nc = GoneConn]  BY DEF mg_http_conn_destructor, GoneConn
<1> HIDE DEF v
<1>1. Near(w, f) /\ f.fs = w.fs
  <2>1. f = [w EXCEPT !.nc.file = NoFile]  BY DEF mg_http_free_proto_data_file
  <2> HIDE DEF f
  <2> QED  BY <2>1, FileSet
<1> HIDE DEF f
<1>2. Shape(g) /\ g.err = f.err /\ Loose(f, g, f.nc.cgi) /\ g.nc.linked = f.nc.linked /\ g.fs = f.fs
  BY <1>1, FreeCgi DEF Near
<1> HIDE DEF g
<1>3. g.nc.linked # 0 => g.part[g.nc.linked].open
  <2> SUFFICES ASSUME g.nc.linked # 0  PROVE g.part[g.nc.linked].open
    OBVIOUS
  <2>1. g.nc.linked \in Partners /\ g.nc.linked = w.nc.linked /\ f.part = w.part
    BY <1>1, <1>2 DEF Shape, Near
  <2>2. w.part[w.nc.linked].open  BY <2>1
  <2>3. g.part[g.nc.linked].open = f.part[g.nc.linked].open
    <3>1. CASE g.nc.linked = f.nc.cgi  BY <3>1, <2>1, <1>2 DEF Loose
    <3>2. CASE g.nc.linked # f.nc.cgi  BY <3>2, <2>1, <1>2 DEF Loose
    <3> QED  BY <3>1, <3>2
  <2> QED  BY <2>1, <2>2, <2>3
<1>4. Shape(h) /\ h.err = g.err /\ Loose(g, h, g.nc.linked) /\ h.fs = g.fs  BY <1>2, <1>3, FreeProxy
<1> HIDE DEF h
<1>5. ASSUME NEW j \in Partners  PROVE ~h.part[j].link
  <2>1. CASE j = g.nc.linked  BY <2>1, <1>4 DEF Loose
  <2>2. CASE j # g.nc.linked
    <3>1. h.part[j] = g.part[j]  BY <2>2, <1>4 DEF Loose
    <3>2. CASE j = f.nc.cgi  BY <3>1, <3>2, <1>2 DEF Loose
    <3>3. CASE j # f.nc.cgi
      <4>1. g.part[j] = w.part[j]  BY <3>3, <1>1, <1>2 DEF Loose, Near
      <4>2. j \notin {w.nc.cgi, w.nc.linked}  BY <3>3, <2>2, <1>1, <1>2 DEF Near
      <4> QED  BY <3>1, <4>1, <4>2
    <3> QED  BY <3>2, <3>3
  <2> QED  BY <2>1, <2>2
<1>6. DOMAIN v = DOMAIN h /\ v.nc = GoneConn /\ v.part = h.part /\ v.fs = h.fs /\ v.err = h.err
  BY <1>0, <1>4 DEF Shape
<1>7. Shape(v)
  <2>1. IsSeq(GoneConn.send) /\ GoneConn.recv \in Seq({"request", "body"} \X DOMAIN Request)
    <3>1. <<>> \in Seq({"request", "body"} \X DOMAIN Request)  OBVIOUS
    <3> QED  BY <3>1, GoneIs, NoSeq
  <2>2. GoneConn.open \in BOOLEAN  BY GoneIs, Zenon
  <2>3. GoneConn.rcvd \in Nat  BY GoneIs
  <2> QED  BY <2>1, <2>2, <2>3, <1>4, <1>6, GoneIs DEF Shape
<1>8. Linked(v)
  <2>1. v.err = "none"  BY <1>1, <1>2, <1>4, <1>6 DEF Near
  <2>2. \A j \in Partners : j # 0  BY DEF Partners
  <2>3. v.nc.cgi = 0 /\ v.nc.linked = 0  BY <1>6, GoneIs
  <2> QED  BY <2>1, <2>2, <2>3, <1>5, <1>6 DEF Linked
<1>9. v.fs = w.fs  BY <1>1, <1>2, <1>4, <1>6
<1> QED  BY <1>6, <1>7, <1>8, <1>9 DEF v

(* Nothing of the client's connection is left but what has arrived.        *)
LEMMA GoneSound ==
  ASSUME NEW w, Shape(w), NEW got, IsSeq(got), NEW asked \in Nat,
         RangesOK(Stream(w, got)), Cardinality(HeadsOf(Stream(w, got))) <= asked,
         NEW v, Shape(v), Linked(v), v.nc = GoneConn
  PROVE  ServerInv(v, got, asked) /\ \A wire, s : Waiting(v, wire, s, asked)
<1>1. IsSeq(w.nc.send)  BY DEF Shape
<1>2. RangesOK(got) /\ Cardinality(HeadsOf(got)) <= Cardinality(HeadsOf(Stream(w, got)))
  <2>1. \A t : IsSeq(t) => /\ RangesOK(got \o t) => RangesOK(got)
                           /\ Cardinality(HeadsOf(got)) <= Cardinality(HeadsOf(got \o t))
    BY Arrived
  <2> QED  BY <2>1, <1>1 DEF Stream
<1>3. Stream(v, got) = got
  <2>1. v.nc.send = <<>>  BY GoneIs
  <2> QED  BY <2>1, Nothing DEF Stream
<1>4. Cardinality(HeadsOf(got)) <= asked
  <2>1. IsSeq(Stream(w, got))  BY <1>1, Joined DEF Stream
  <2>2. Cardinality(HeadsOf(got)) \in Nat /\ Cardinality(HeadsOf(Stream(w, got))) \in Nat  BY <2>1, HeadsFinite
  <2> QED  BY <2>2, <1>2
<1>5. ~Busy(v) /\ ~v.nc.open  BY GoneIs DEF Busy
<1>6. Counted(v, got, asked)  BY <1>4, <1>5, NotBusyCounted
<1>7. FileOK(v) /\ FileSent(v, got)  BY GoneIs, NoFileOK
<1>8. OneRequest(v.nc.recv)
  <2>1. v.nc.recv = <<>>  BY GoneIs
  <2>2. Requests(<<>>) = {}  BY DEF Requests
  <2> QED  BY <2>1, <2>2 DEF OneRequest
<1>9. Closed(v)  BY DEF Closed, GoneConn
<1> QED  BY <1>2, <1>3, <1>5, <1>6, <1>7, <1>8, <1>9 DEF ServerInv, Waiting

(* The end of the client's connection, between answers or within one.      *)
LEMMA EndSound ==
  ASSUME NEW w, NEW got, IsSeq(got), NEW asked \in Nat, Sound(w, got, asked)
  PROVE  LET v == mg_http_conn_destructor(w)
         IN  /\ ServerInv(v, got, asked) /\ \A wire, s : Waiting(v, wire, s, asked)
             /\ v.nc = GoneConn /\ v.fs = w.fs
<1>1. Shape(w) /\ Linked(w) /\ RangesOK(Stream(w, got)) /\ Cardinality(HeadsOf(Stream(w, got))) <= asked
  BY DEF Sound, Counted
<1>2. w.err = "none" /\ (w.nc.linked # 0 => w.part[w.nc.linked].open)
  <2>1. w.nc.linked \in Partners \cup {0}  BY <1>1 DEF Shape
  <2> QED  BY <2>1, <1>1 DEF Linked
<1>3. \A j \in Partners : w.part[j].link => j \in {w.nc.cgi, w.nc.linked}  BY <1>1 DEF Linked
<1> DEFINE v == mg_http_conn_destructor(w)
<1>4. Shape(v) /\ Linked(v) /\ v.nc = GoneConn /\ v.fs = w.fs  BY <1>1, <1>2, <1>3, DestructorIs
<1> HIDE DEF v
<1>5. ServerInv(v, got, asked) /\ \A wire, s : Waiting(v, wire, s, asked)  BY <1>1, <1>4, GoneSound
<1> QED  BY <1>4, <1>5 DEF v

(* MG_EV_CLOSE.                                                            *)
LEMMA CloseSound ==
  ASSUME NEW w, NEW got, IsSeq(got), NEW asked \in Nat, ServerInv(w, got, asked), w.nc.open,
         NEW x, Waiting(w, x, Stream(w, got), asked),
         NEW i, HeadEnd(w.nc.recv) # 0 /\ NeedsPartner(w, Parsed(w.nc.recv)) => i \in Partners
  PROVE  LET v == HttpClose(w, i)
         IN  /\ ServerInv(v, got, asked) /\ \A wire, s : Waiting(v, wire, s, asked)
             /\ v.nc = GoneConn
             /\ HeadEnd(w.nc.recv) = 0 /\ w.nc.file = NoFile => v.fs = w.fs
<1> DEFINE s == Stream(w, got)
           c == w.nc.cgi
           told == IF w.nc.cgi = 0 THEN w
                   ELSE [w EXCEPT !.part[w.nc.cgi].link = FALSE,
                                  !.part[w.nc.cgi].flags = @ \cup {"close_immediately"}]
           rest == IF HeadEnd(w.nc.recv) = 0 THEN told
                   ELSE mg_http_call_endpoint_handler(told, Parsed(w.nc.recv), HeadEnd(w.nc.recv), i)
           v == HttpClose(w, i)
<1>1. /\ Shape(w) /\ FileOK(w) /\ Linked(w) /\ w.nc.recv \in Buffers /\ OneRequest(w.nc.recv)
      /\ RangesOK(s) /\ FileSent(w, s) /\ Counted(w, s, asked)
  BY DEF ServerInv, Shape, Buffers
<1>2. v = mg_http_conn_destructor(Transferred(rest))  BY DEF HttpClose
<1>3. Sound(w, got, asked)  BY <1>1 DEF Sound
<1>4. ASSUME Sound(rest, got, asked)
      PROVE  /\ ServerInv(v, got, asked) /\ \A wire, y : Waiting(v, wire, y, asked)
             /\ v.nc = GoneConn /\ (rest.nc.file = NoFile => v.fs = rest.fs)
  <2> DEFINE t == Transferred(rest)
  <2> HIDE DEF rest, v
  <2>3. rest.nc.file = NoFile => t = rest  BY DEF Transferred, NoFile
  <2>1. Sound(t, got, asked)  BY <1>4, TransferredSound
  <2> HIDE DEF t
  <2>2. v = mg_http_conn_destructor(t)  BY <1>2 DEF t
  <2>4. /\ ServerInv(v, got, asked) /\ \A wire, y : Waiting(v, wire, y, asked)
        /\ v.nc = GoneConn /\ v.fs = t.fs
    BY <2>1, <2>2, EndSound
  <2> QED  BY <2>3, <2>4
<1> HIDE DEF v, s
<1>5. CASE HeadEnd(w.nc.recv) # 0
  <2>1. Requests(w.nc.recv) # {}  BY <1>1, <1>5, HeadEndIs DEF Buffers
  <2>2. Cardinality(HeadsOf(s)) < asked /\ Done(s) /\ ~Busy(w)  BY <2>1 DEF Waiting, s
  <2>3. rest = mg_http_call_endpoint_handler(w, Parsed(w.nc.recv), HeadEnd(w.nc.recv), i)
    BY <2>2, <1>5 DEF Busy
  <2>4. w.nc.file = NoFile
    <3>1. Requests(<<>>) = {}  BY DEF Requests
    <3> QED  BY <3>1, <2>1, <2>2, <1>1, NoneOpen
  <2>5. Ready(w, got, asked)  BY <2>2, <2>4, <1>1 DEF Ready, s
  <2> HIDE DEF rest
  <2>6. Sound(rest, got, asked)  BY <2>3, <2>5, <1>1, <1>5, StepsServed
  <2> QED  BY <2>6, <1>4, <1>5 DEF v
<1>6. CASE HeadEnd(w.nc.recv) = 0 /\ c = 0
  <2>1. rest = w  BY <1>6
  <2> QED  BY <2>1, <1>3, <1>4 DEF v
<1>7. CASE HeadEnd(w.nc.recv) = 0 /\ c # 0
  <2> DEFINE p == [w.part[c] EXCEPT !.link = FALSE, !.flags = @ \cup {"close_immediately"}]
             a == [w EXCEPT !.part[c] = p]
  <2>1. c \in Partners  BY <1>1, <1>7 DEF Shape
  <2>2. rest = a
    <3>1. DOMAIN w = {"nc", "part", "fs", "err"} /\ DOMAIN w.part = Partners /\ DOMAIN w.part[c] = DOMAIN NoPartner
      BY <1>1, <2>1 DEF Shape
    <3> QED  BY <3>1, <2>1, <1>7 DEF NoPartner
  <2> HIDE DEF rest
  <2>3. p.link = FALSE /\ p.open = w.part[c].open /\ p.kind = w.part[c].kind /\ PartOK(p)
    <3> DEFINE y == w.part[c]
    <3>1. PartOK(y)  BY <2>1, <1>1, PartsAre
    <3>2. p = [y EXCEPT !.link = FALSE, !.flags = y.flags \cup {"close_immediately"}]  OBVIOUS
    <3> HIDE DEF y, p
    <3>3. DOMAIN y = {"kind", "open", "link", "flags", "recv", "said"}  BY <3>1 DEF PartOK, NoPartner
    <3>4. DOMAIN p = DOMAIN y /\ p.link = FALSE /\ p.open = y.open /\ p.kind = y.kind /\ p.recv = y.recv /\ p.said = y.said
      BY <3>2, <3>3
    <3>5. PartOK(p)  BY <3>1, <3>4 DEF PartOK
    <3> QED  BY <3>4, <3>5 DEF y
  <2> HIDE DEF p
  <2>4. /\ Shape(a) /\ a.nc = w.nc /\ a.err = w.err /\ a.fs = w.fs
        /\ a.part[c] = p /\ \A j \in Partners \ {c} : a.part[j] = w.part[j]
    BY <2>1, <2>3, <1>1, PartSet
  <2> HIDE DEF a
  <2>5. Done(s)  BY <1>1, <1>7 DEF Counted, Busy
  <2>6. a.nc.file = NoFile \/ Storing(a.nc.file)  BY <2>4, <2>5, <1>1, NoneOpen
  <2> DEFINE t == Transferred(a)
  <2>7. Near(a, t) /\ t.nc.send = a.nc.send /\ (a.nc.file = NoFile => t = a)
    <3>0. a.nc.file = NoFile => t = a  BY DEF Transferred, NoFile
    <3>1. CASE a.nc.file = NoFile
      <4>1. t = a  BY <3>0, <3>1
      <4> QED  BY <4>1, <2>4 DEF Near
    <3>2. CASE Storing(a.nc.file)
      <4>1. a.nc.file.fp # None /\ a.nc.file.type # "file"  BY <3>2, ConstantsOK DEF Storing
      <4>2. t = StorePiece(a)  BY <4>1 DEF Transferred, mg_http_transfer_file_data
      <4> HIDE DEF t
      <4>3. Near(a, t) /\ t.nc.send = a.nc.send  BY <4>2, <3>2, <2>4, StorePieceIs
      <4> QED  BY <4>3, <3>0
    <3> QED  BY <3>1, <3>2, <2>6
  <2> HIDE DEF t
  <2>8. v = mg_http_conn_destructor(t)  BY <2>2, <1>2 DEF t, v
  <2>9. Stream(t, got) = s  BY <2>4, <2>7 DEF Stream, s
  <2>10. /\ t.err = "none" /\ Shape(t)
         /\ t.nc.cgi = w.nc.cgi /\ t.nc.linked = w.nc.linked /\ t.part = a.part
    BY <2>4, <2>7, <1>1 DEF Near, Linked
  <2>11. t.nc.linked # 0 => t.part[t.nc.linked].open
    <3>1. t.nc.linked \in Partners \cup {0}  BY <2>10 DEF Shape
    <3>2. w.nc.linked # 0 => w.part[w.nc.linked].open  BY <3>1, <2>10, <1>1 DEF Linked
    <3>3. \A j \in Partners : t.part[j].open = w.part[j].open
      <4> TAKE j \in Partners
      <4>1. CASE j = c  BY <4>1, <2>3, <2>4, <2>10
      <4>2. CASE j # c  BY <4>2, <2>4, <2>10
      <4> QED  BY <4>1, <4>2
    <3> QED  BY <3>1, <3>2, <3>3, <2>10
  <2>12. \A j \in Partners : t.part[j].link => j \in {t.nc.cgi, t.nc.linked}
    <3> TAKE j \in Partners
    <3>1. CASE j = c  BY <3>1, <2>10
    <3>2. CASE j # c
      <4>1. t.part[j] = w.part[j]  BY <3>2, <2>4, <2>10
      <4>2. w.part[j].link => j = w.nc.linked \/ j = w.nc.cgi  BY <1>1 DEF Linked
      <4> QED  BY <4>1, <4>2, <2>10
    <3> QED  BY <3>1, <3>2
  <2>13. Shape(v) /\ Linked(v) /\ v.nc = GoneConn /\ v.fs = t.fs  BY <2>8, <2>10, <2>11, <2>12, DestructorIs
  <2>14. Cardinality(HeadsOf(s)) <= asked  BY <1>1 DEF Counted
  <2>15. ServerInv(v, got, asked) /\ \A wire, y : Waiting(v, wire, y, asked)
    BY <2>9, <2>10, <2>13, <2>14, <1>1, GoneSound
  <2>16. w.nc.file = NoFile => v.fs = w.fs  BY <2>4, <2>7, <2>13
  <2> QED  BY <2>13, <2>15, <2>16 DEF v
<1> QED  BY <1>5, <1>6, <1>7

(* A client that waits in w waits in v.                                     *)
Waits(w, v, got, asked) ==
  \A wire : Waiting(w, wire, Stream(w, got), asked) => Waiting(v, wire, Stream(v, got), asked)

LEMMA LinkedLike ==
  ASSUME NEW w, Linked(w), NEW v, v.err = w.err,
         v.nc.open = w.nc.open, v.nc.cgi = w.nc.cgi, v.nc.linked = w.nc.linked,
         \A j \in Partners :
           /\ v.part[j].link <=> w.part[j].link
           /\ v.part[j].link => v.part[j].open
           /\ v.part[j].kind = w.part[j].kind
  PROVE  Linked(v)
BY DEF Linked

(* A linked partner is what the client waits for.                          *)
LEMMA LinkedBusy ==
  ASSUME NEW w, NEW got, NEW asked, ServerInv(w, got, asked), NEW i \in Partners, w.part[i].link
  PROVE  /\ w.nc.open /\ w.part[i].open /\ Busy(w) /\ Done(Stream(w, got))
         /\ w.part[i].kind = "cgi" => w.nc.cgi = i /\ w.nc.linked = 0
         /\ w.part[i].kind # "cgi" => w.nc.linked = i /\ w.nc.cgi = 0
         /\ \A wire : Waiting(w, wire, Stream(w, got), asked) => wire = <<>> /\ Requests(w.nc.recv) = {}
<1>1. Linked(w) /\ Counted(w, Stream(w, got), asked)  BY DEF ServerInv
<1>2. i # 0  BY DEF Partners
<1>3. /\ w.nc.open /\ w.part[i].open
      /\ w.part[i].kind = "cgi" => w.nc.cgi = i /\ w.nc.linked = 0
      /\ w.part[i].kind # "cgi" => w.nc.linked = i /\ w.nc.cgi = 0
  BY <1>1, <1>2 DEF Linked
<1>4. Busy(w)  BY <1>2, <1>3 DEF Busy
<1>5. Done(Stream(w, got))  BY <1>1, <1>4 DEF Counted
<1>6. \A wire : Waiting(w, wire, Stream(w, got), asked) => wire = <<>> /\ Requests(w.nc.recv) = {}
  BY <1>3, <1>4 DEF Waiting
<1> QED  BY <1>3, <1>4, <1>5, <1>6

(* A step of a partner that says nothing to the client's connection.       *)
LEMMA PartnerAlone ==
  ASSUME NEW w, NEW got, NEW asked, ServerInv(w, got, asked), NEW i \in Partners, NEW p, PartOK(p),
         p.link = w.part[i].link, p.kind = w.part[i].kind,
         p.link => p.open /\ w.part[i].said <= p.said /\ w.part[i].flags \subseteq p.flags
  PROVE  LET v == [w EXCEPT !.part[i] = p]
         IN  /\ ServerInv(v, got, asked) /\ Stream(v, got) = Stream(w, got) /\ v.part[i] = p
             /\ v.nc = w.nc /\ v.fs = w.fs
             /\ \A j \in Partners \ {i} : v.part[j] = w.part[j]
             /\ Waits(w, v, got, asked)
<1> DEFINE v == [w EXCEPT !.part[i] = p]
           s == Stream(w, got)
<1>1. /\ Shape(w) /\ FileOK(w) /\ OneRequest(w.nc.recv) /\ Linked(w) /\ Closed(w)
      /\ RangesOK(s) /\ FileSent(w, s) /\ Counted(w, s, asked)
  BY DEF ServerInv
<1>2. /\ Shape(v) /\ v.nc = w.nc /\ v.fs = w.fs /\ v.err = w.err
      /\ v.part[i] = p /\ \A j \in Partners \ {i} : v.part[j] = w.part[j]
  BY <1>1, PartSet
<1> HIDE DEF v
<1>3. Stream(v, got) = s  BY <1>2 DEF Stream
<1> HIDE DEF s
<1>4. Linked(v)
  <2>1. ASSUME NEW j \in Partners
        PROVE  /\ v.part[j].link <=> w.part[j].link
               /\ v.part[j].link => v.part[j].open
               /\ v.part[j].kind = w.part[j].kind
    <3>1. CASE j = i  BY <3>1, <1>2
    <3>2. CASE j # i
      <4>1. v.part[j] = w.part[j]  BY <3>2, <1>2
      <4>2. w.part[j].link => w.part[j].open  BY <1>1 DEF Linked
      <4> QED  BY <4>1, <4>2
    <3> QED  BY <3>1, <3>2
  <2> QED  BY <2>1, <1>1, <1>2, LinkedLike
<1>5. Owed(v) => Owed(w)
  <2> SUFFICES ASSUME Owed(v), w.nc.linked # 0, v.part[w.nc.linked].said < 2,
                      "close_immediately" \notin v.part[w.nc.linked].flags
               PROVE  Owed(w)
    BY <1>2 DEF Owed
  <2>1. w.nc.linked \in Partners  BY <1>1 DEF Shape
  <2>2. CASE w.nc.linked = i
    <3>1. w.part[i].link  BY <2>1, <2>2, <1>1 DEF Linked
    <3>2. w.part[i].said \in Nat /\ p.said \in Nat  BY <1>1, PartsAre DEF PartOK
    <3>3. w.part[i].said < 2 /\ "close_immediately" \notin w.part[i].flags  BY <3>1, <3>2, <2>2, <1>2
    <3> QED  BY <3>3, <2>2 DEF Owed
  <2>3. CASE w.nc.linked # i
    <3>1. v.part[w.nc.linked] = w.part[w.nc.linked]  BY <2>1, <2>3, <1>2
    <3> QED  BY <3>1 DEF Owed
  <2> QED  BY <2>2, <2>3
<1>6. Busy(v) <=> Busy(w)  BY <1>2 DEF Busy
<1>7. Counted(v, s, asked)  BY <1>1, <1>2, <1>5, <1>6 DEF Counted
<1>8. FileOK(v) /\ FileSent(v, s) /\ OneRequest(v.nc.recv) /\ Closed(v)
  BY <1>1, <1>2 DEF FileOK, FileSent, Closed
<1>9. ServerInv(v, got, asked)  BY <1>1, <1>2, <1>3, <1>4, <1>7, <1>8 DEF ServerInv
<1>10. ASSUME NEW wire, Waiting(w, wire, s, asked)  PROVE Waiting(v, wire, s, asked)
  BY <1>2, <1>6, <1>10 DEF Waiting
<1> QED  BY <1>2, <1>3, <1>9, <1>10 DEF v, s, Waits

(* A partner starts an answer that lasts until the connection is closed.   *)
LEMMA AnswerStarts ==
  ASSUME NEW w, NEW got, IsSeq(got), NEW asked \in Nat, ServerInv(w, got, asked), w.nc.open, Busy(w),
         Cardinality(HeadsOf(Stream(w, got))) < asked,
         NEW v, Shape(v), Linked(v), ~Owed(v), v.nc.open = w.nc.open, v.nc.recv = w.nc.recv, v.nc.file = w.nc.file,
         NEW t, IsAnswer(t), t[1][5] \notin Inodes, t[1][3] = UntilClose, v.nc.send = w.nc.send \o t
  PROVE  ServerInv(v, got, asked) /\ EndsOpen(Stream(v, got))
<1> DEFINE s == Stream(w, got)
<1>1. /\ Shape(w) /\ FileOK(w) /\ OneRequest(w.nc.recv)
      /\ RangesOK(s) /\ FileSent(w, s) /\ Counted(w, s, asked)
  BY DEF ServerInv
<1>2. Done(s)  BY <1>1 DEF Counted
<1>3. IsSeq(s)  BY <1>1, NoSeq, Joined DEF Stream, Shape
<1>4. Stream(v, got) = s \o t
  <2>1. IsSeq(t) /\ Shape(w)  BY <1>1 DEF IsAnswer
  <2>2. v.nc.send = w.nc.send \o t  OBVIOUS
  <2> QED  BY ONLY <2>1, <2>2, IsSeq(got), StreamGrows
<1>c. Cardinality(HeadsOf(s)) < asked  OBVIOUS
<1> HIDE DEF s
<1>5. RangesOK(s \o t) /\ Done(s \o t) /\ EndsOpen(s \o t)  BY <1>1, <1>2, <1>3, PlainAnswer
<1>6. Cardinality(HeadsOf(s \o t)) <= asked
  <2>1. Cardinality(HeadsOf(s \o t)) = Cardinality(HeadsOf(s)) + 1  BY <1>3, AnswerAppended
  <2>2. Cardinality(HeadsOf(s)) \in Nat  BY <1>3, HeadsFinite
  <2> QED  BY <2>1, <2>2, <1>c
<1>7. Counted(v, s \o t, asked)  BY <1>5, <1>6 DEF Counted
<1>8. FileOK(v) /\ FileSent(v, s \o t)
  <2>1. w.nc.file = NoFile \/ Storing(w.nc.file)  BY <1>1, <1>2, NoneOpen
  <2>2. FileOK(v)  BY <1>1 DEF FileOK
  <2>3. FileSent(v, s \o t)  BY <2>1, NoFileOK DEF FileSent, Storing
  <2> QED  BY <2>2, <2>3
<1> QED  BY <1>1, <1>4, <1>5, <1>7, <1>8 DEF ServerInv, Closed

(* More of such an answer.                                                 *)
LEMMA AnswerGoesOn ==
  ASSUME NEW w, NEW got, IsSeq(got), NEW asked \in Nat, ServerInv(w, got, asked), w.nc.open,
         EndsOpen(Stream(w, got)), NEW t, IsRest(t)
  PROVE  ServerInv(mg_send(w, t), got, asked) /\ Kept(w, mg_send(w, t))
<1> DEFINE s == Stream(w, got)
           v == mg_send(w, t)
<1>1. /\ Shape(w) /\ FileOK(w) /\ OneRequest(w.nc.recv) /\ Linked(w)
      /\ RangesOK(s) /\ FileSent(w, s) /\ Counted(w, s, asked)
  BY DEF ServerInv
<1>2. IsSeq(s)  BY <1>1, NoSeq, Joined DEF Stream, Shape
<1>3. Kept(w, v) /\ v.nc.send = w.nc.send \o t  BY <1>1, SendKeeps DEF IsRest
<1> HIDE DEF v
<1>4. Stream(v, got) = s \o t
  <2>1. IsSeq(t)  BY DEF IsRest
  <2> QED  BY <2>1, <1>1, <1>3, StreamGrows
<1>e. EndsOpen(s)  OBVIOUS
<1> HIDE DEF s
<1>5. RangesOK(s \o t) /\ Done(s \o t) /\ EndsOpen(s \o t) /\ HeadsOf(s \o t) = HeadsOf(s)
  BY <1>1, <1>2, <1>e, OpenContinues
<1>6. Near(w, v)  BY <1>3, KeptNear
<1>7. Linked(v) /\ (Owed(w) <=> Owed(v)) /\ Shape(v) /\ v.nc.open  BY <1>1, <1>6, LinkedNear DEF Near
<1>8. Counted(v, s \o t, asked)  BY <1>1, <1>5, <1>7 DEF Counted
<1>9. FileOK(v) /\ FileSent(v, s \o t)
  <2>0. Done(s)  BY <1>1, <1>2, <1>e, EndsOpenDone
  <2>1. w.nc.file = NoFile \/ Storing(w.nc.file)  BY <2>0, <1>1, NoneOpen
  <2>2. FileOK(v)  BY <1>1, <1>3 DEF FileOK, Kept
  <2>3. FileSent(v, s \o t)
    <3>1. v.nc.file = w.nc.file  BY <1>3 DEF Kept
    <3>2. v.nc.file.fp = None \/ v.nc.file.type = "put"  BY <2>1, <3>1 DEF Storing, NoFile
    <3> QED  BY <3>2 DEF FileSent
  <2> QED  BY <2>2, <2>3
<1>10. OneRequest(v.nc.recv)  BY <1>1, <1>3 DEF Kept
<1> QED  BY <1>3, <1>4, <1>5, <1>7, <1>8, <1>9, <1>10 DEF ServerInv, Closed, v

(* The partner and the client's connection are parted.                     *)
LEMMA PartnerLeaves ==
  ASSUME NEW w, NEW got, IsSeq(got), NEW asked \in Nat, ServerInv(w, got, asked), NEW i \in Partners, w.part[i].link,
         NEW v, Shape(v), v.err = w.err, v.nc.open = w.nc.open, v.nc.recv = w.nc.recv, v.nc.file = w.nc.file,
         v.nc.send = w.nc.send, v.nc.cgi = 0, v.nc.linked = 0, ~v.part[i].link,
         \A j \in Partners \ {i} : v.part[j] = w.part[j]
  PROVE  ServerInv(v, got, asked) /\ Waits(w, v, got, asked)
<1> DEFINE s == Stream(w, got)
<1>1. /\ Shape(w) /\ FileOK(w) /\ OneRequest(w.nc.recv) /\ Linked(w)
      /\ RangesOK(s) /\ FileSent(w, s) /\ Counted(w, s, asked)
  BY DEF ServerInv
<1>2. Stream(v, got) = s  BY DEF Stream
<1>3. IsSeq(s)  BY <1>1, NoSeq, Joined DEF Stream, Shape
<1>4. /\ w.nc.open
      /\ w.part[i].kind = "cgi" => w.nc.cgi = i /\ w.nc.linked = 0
      /\ w.part[i].kind # "cgi" => w.nc.linked = i /\ w.nc.cgi = 0
      /\ \A wire : Waiting(w, wire, s, asked) => wire = <<>> /\ Requests(w.nc.recv) = {}
  BY LinkedBusy
<1> HIDE DEF s
<1>5. Linked(v)
  <2>1. ASSUME NEW j \in Partners  PROVE ~v.part[j].link
    <3>1. CASE j = i  BY <3>1
    <3>2. CASE j # i
      <4>1. v.part[j] = w.part[j]  BY <3>2
      <4>2. w.part[j].link => w.nc.cgi = j \/ w.nc.linked = j  BY <1>1 DEF Linked
      <4>3. j # 0  BY DEF Partners
      <4> QED  BY <4>1, <4>2, <4>3, <3>2, <1>4
    <3> QED  BY <3>1, <3>2
  <2>2. \A j \in Partners : j # 0  BY DEF Partners
  <2> QED  BY <2>1, <2>2, <1>1 DEF Linked
<1>6. Counted(v, s, asked)
  <2>1. ~Busy(v)  BY DEF Busy
  <2>2. Cardinality(HeadsOf(s)) <= asked  BY <1>1 DEF Counted
  <2> QED  BY <2>1, <2>2, <1>3, NotBusyCounted
<1>7. FileOK(v) /\ FileSent(v, s) /\ OneRequest(v.nc.recv) /\ Closed(v)
  BY <1>1, <1>4 DEF FileOK, FileSent, Closed
<1>8. ServerInv(v, got, asked)  BY <1>1, <1>2, <1>5, <1>6, <1>7 DEF ServerInv
<1>9. ASSUME NEW wire, Waiting(w, wire, s, asked)  PROVE Waiting(v, wire, s, asked)
  BY <1>4, <1>9 DEF Waiting
<1> QED  BY <1>2, <1>8, <1>9 DEF s, Waits

LEMMA LinkedWaits ==
  ASSUME NEW w, NEW got, NEW asked, ServerInv(w, got, asked), NEW i \in Partners, w.part[i].link,
         NEW v, v.nc.recv = w.nc.recv
  PROVE  Waits(w, v, got, asked)
<1>1. \A wire : Waiting(w, wire, Stream(w, got), asked) => wire = <<>> /\ Requests(w.nc.recv) = {}
  BY LinkedBusy
<1> QED  BY <1>1 DEF Waits, Waiting

(* What the steps change of a partner.                                     *)
LEMMA PartFlagIs ==
  ASSUME NEW w, Shape(w), NEW i \in Partners, NEW f
  PROVE  LET p == [w.part[i] EXCEPT !.flags = @ \cup {f}]
         IN  /\ PartFlag(w, i, f) = [w EXCEPT !.part[i] = p]
             /\ PartOK(p) /\ p.flags = w.part[i].flags \cup {f}
             /\ p.link = w.part[i].link /\ p.open = w.part[i].open /\ p.kind = w.part[i].kind
             /\ p.said = w.part[i].said /\ p.recv = w.part[i].recv
<1> DEFINE y == w.part[i]
           p == [y EXCEPT !.flags = @ \cup {f}]
<1>1. PartOK(y)  BY PartsAre
<1>2. PartFlag(w, i, f) = [w EXCEPT !.part[i] = p]
  <2>1. DOMAIN w = {"nc", "part", "fs", "err"} /\ DOMAIN w.part = Partners /\ DOMAIN w.part[i] = DOMAIN NoPartner
    BY DEF Shape
  <2> QED  BY <2>1 DEF PartFlag, NoPartner
<1>3. p = [y EXCEPT !.flags = y.flags \cup {f}]  OBVIOUS
<1> HIDE DEF y, p
<1>4. DOMAIN y = {"kind", "open", "link", "flags", "recv", "said"}  BY <1>1 DEF PartOK, NoPartner
<1>5. /\ DOMAIN p = DOMAIN y /\ p.flags = y.flags \cup {f} /\ p.link = y.link /\ p.open = y.open
      /\ p.kind = y.kind /\ p.recv = y.recv /\ p.said = y.said
  BY <1>3, <1>4
<1>6. PartOK(p)  BY <1>1, <1>5 DEF PartOK
<1> QED  BY <1>2, <1>5, <1>6 DEF p, y

LEMMA PartSaidIs ==
  ASSUME NEW w, Shape(w), NEW i \in Partners, NEW n \in Nat
  PROVE  LET p == [w.part[i] EXCEPT !.said = n]
         IN  /\ [w EXCEPT !.part[i].said = n] = [w EXCEPT !.part[i] = p]
             /\ PartOK(p) /\ p.flags = w.part[i].flags
             /\ p.link = w.part[i].link /\ p.open = w.part[i].open /\ p.kind = w.part[i].kind
             /\ p.said = n
<1> DEFINE y == w.part[i]
           p == [y EXCEPT !.said = n]
<1>1. PartOK(y)  BY PartsAre
<1>2. [w EXCEPT !.part[i].said = n] = [w EXCEPT !.part[i] = p]
  <2>1. DOMAIN w = {"nc", "part", "fs", "err"} /\ DOMAIN w.part = Partners /\ DOMAIN w.part[i] = DOMAIN NoPartner
    BY DEF Shape
  <2> QED  BY <2>1 DEF NoPartner
<1> HIDE DEF y
<1>4. DOMAIN y = {"kind", "open", "link", "flags", "recv", "said"}  BY <1>1 DEF PartOK, NoPartner
<1>5. /\ DOMAIN p = DOMAIN y /\ p.flags = y.flags /\ p.link = y.link /\ p.open = y.open
      /\ p.kind = y.kind /\ p.recv = y.recv /\ p.said = n
  BY <1>4
<1> HIDE DEF p
<1>6. PartOK(p)  BY <1>1, <1>5 DEF PartOK
<1> QED  BY <1>2, <1>5, <1>6 DEF p, y

LEMMA PartRecvIs ==
  ASSUME NEW w, Shape(w), NEW i \in Partners
  PROVE  LET p == [w.part[i] EXCEPT !.recv = <<>>]
         IN  /\ [w EXCEPT !.part[i].recv = <<>>] = [w EXCEPT !.part[i] = p]
             /\ PartOK(p) /\ p.flags = w.part[i].flags
             /\ p.link = w.part[i].link /\ p.open = w.part[i].open /\ p.kind = w.part[i].kind
             /\ p.said = w.part[i].said
<1> DEFINE y == w.part[i]
           p == [y EXCEPT !.recv = <<>>]
<1>1. PartOK(y)  BY PartsAre
<1>2. [w EXCEPT !.part[i].recv = <<>>] = [w EXCEPT !.part[i] = p]
  <2>1. DOMAIN w = {"nc", "part", "fs", "err"} /\ DOMAIN w.part = Partners /\ DOMAIN w.part[i] = DOMAIN NoPartner
    BY DEF Shape
  <2> QED  BY <2>1 DEF NoPartner
<1> HIDE DEF y
<1>4. DOMAIN y = {"kind", "open", "link", "flags", "recv", "said"}  BY <1>1 DEF PartOK, NoPartner
<1>5. /\ DOMAIN p = DOMAIN y /\ p.flags = y.flags /\ p.link = y.link /\ p.open = y.open
      /\ p.kind = y.kind /\ p.recv = <<>> /\ p.said = y.said
  BY <1>4
<1> HIDE DEF p
<1>6. PartOK(p)  BY <1>1, <1>5, NoSeq DEF PartOK
<1> QED  BY <1>2, <1>5, <1>6 DEF p, y

(* More has come from a process.                                           *)
LEMMA PartMoreIs ==
  ASSUME NEW w, Shape(w), NEW i \in Partners, NEW x
  PROVE  LET p == [w.part[i] EXCEPT !.recv = Append(@, x), !.said = @ + 1]
         IN  /\ [w EXCEPT !.part[i].recv = Append(@, x), !.part[i].said = @ + 1] = [w EXCEPT !.part[i] = p]
             /\ PartOK(p) /\ p.flags = w.part[i].flags
             /\ p.link = w.part[i].link /\ p.open = w.part[i].open /\ p.kind = w.part[i].kind
             /\ w.part[i].said <= p.said
<1> DEFINE y == w.part[i]
           p == [y EXCEPT !.recv = Append(@, x), !.said = @ + 1]
<1>1. PartOK(y)  BY PartsAre
<1>2. [w EXCEPT !.part[i].recv = Append(@, x), !.part[i].said = @ + 1] = [w EXCEPT !.part[i] = p]
  <2>1. DOMAIN w = {"nc", "part", "fs", "err"} /\ DOMAIN w.part = Partners /\ DOMAIN w.part[i] = DOMAIN NoPartner
    BY DEF Shape
  <2> QED  BY <2>1 DEF NoPartner
<1>3. p = [y EXCEPT !.recv = Append(y.recv, x), !.said = y.said + 1]  OBVIOUS
<1> HIDE DEF y, p
<1>4. DOMAIN y = {"kind", "open", "link", "flags", "recv", "said"}  BY <1>1 DEF PartOK, NoPartner
<1>5. /\ DOMAIN p = DOMAIN y /\ p.flags = y.flags /\ p.link = y.link /\ p.open = y.open
      /\ p.kind = y.kind /\ p.recv = Append(y.recv, x) /\ p.said = y.said + 1
  BY <1>3, <1>4
<1>6. IsSeq(Append(y.recv, x))
  <2> DEFINE s == y.recv
             S == {s[k] : k \in DOMAIN s}
  <2>1. s \in Seq(S)  BY <1>1 DEF PartOK, IsSeq
  <2> HIDE DEF s, S
  <2>2. s \in Seq(S \cup {x})  BY <2>1, SeqMonotonic
  <2>3. Append(s, x) \in Seq(S \cup {x})  BY <2>2, AppendProperties
  <2>4. IsSeq(Append(s, x))  BY <2>3, SeqIn
  <2> QED  BY <2>4 DEF s
<1>7. PartOK(p)
  <2>1. y.said + 1 \in Nat  BY <1>1 DEF PartOK
  <2> QED  BY <2>1, <1>1, <1>5, <1>6 DEF PartOK
<1>8. y.said <= p.said  BY <1>1, <1>5 DEF PartOK
<1> QED  BY <1>2, <1>5, <1>7, <1>8 DEF p, y

LEMMA FlagsCut ==
  ASSUME NEW w, Shape(w), NEW f
  PROVE  LET v == [w EXCEPT !.nc.flags = @ \ {f}]
         IN  /\ Shape(v) /\ v.fs = w.fs /\ v.err = w.err /\ v.part = w.part /\ v.nc.flags = w.nc.flags \ {f}
             /\ v.nc.open = w.nc.open /\ v.nc.recv = w.nc.recv /\ v.nc.file = w.nc.file
             /\ v.nc.cgi = w.nc.cgi /\ v.nc.linked = w.nc.linked /\ v.nc.send = w.nc.send
<1> DEFINE v == [w EXCEPT !.nc.flags = @ \ {f}]
<1>1. /\ v.nc = [w.nc EXCEPT !.flags = w.nc.flags \ {f}] /\ DOMAIN v = DOMAIN w
      /\ v.part = w.part /\ v.fs = w.fs /\ v.err = w.err
  BY DEF Shape
<1> HIDE DEF v
<1>2. /\ v.nc.flags = w.nc.flags \ {f} /\ DOMAIN v.nc = DOMAIN w.nc
      /\ \A g \in DOMAIN NewConn \ {"flags"} : v.nc[g] = w.nc[g]
  BY <1>1 DEF Shape, NewConn
<1>3. /\ v.nc.open = w.nc.open /\ v.nc.recv = w.nc.recv /\ v.nc.file = w.nc.file /\ v.nc.rcvd = w.nc.rcvd
      /\ v.nc.cgi = w.nc.cgi /\ v.nc.linked = w.nc.linked /\ v.nc.send = w.nc.send
  BY <1>2 DEF NewConn
<1>4. Shape(v)  BY <1>1, <1>2, <1>3 DEF Shape
<1> QED  BY <1>1, <1>2, <1>3, <1>4 DEF v

(* A partner that has gone.                                                *)
LEMMA GoneIsOK ==
  ASSUME NEW kind
  PROVE  LET p == [NoPartner EXCEPT !.kind = kind]
         IN  PartOK(p) /\ p.link = FALSE /\ p.kind = kind
<1> DEFINE p == [NoPartner EXCEPT !.kind = kind]
<1>1. DOMAIN p = DOMAIN NoPartner /\ p.link = FALSE /\ p.open = FALSE /\ p.recv = <<>> /\ p.said = 0 /\ p.kind = kind
  BY DEF NoPartner
<1> HIDE DEF p
<1>2. p.link \in BOOLEAN /\ p.open \in BOOLEAN  BY <1>1, Zenon
<1>3. p.said \in Nat  BY <1>1
<1>4. IsSeq(p.recv)  BY <1>1, NoSeq
<1>5. PartOK(p)  BY <1>1, <1>2, <1>3, <1>4 DEF PartOK
<1> QED  BY <1>1, <1>5 DEF p

(* Such a step leaves the partner as open as it was.                       *)
LEMMA PartnerQuiet ==
  ASSUME NEW w, NEW got, NEW asked, ServerInv(w, got, asked), NEW i \in Partners, NEW p, PartOK(p),
         p.link = w.part[i].link, p.kind = w.part[i].kind, p.open = w.part[i].open,
         w.part[i].said <= p.said, w.part[i].flags \subseteq p.flags
  PROVE  LET v == [w EXCEPT !.part[i] = p]
         IN  /\ ServerInv(v, got, asked) /\ Stream(v, got) = Stream(w, got) /\ v.part[i] = p
             /\ v.nc = w.nc /\ v.fs = w.fs
             /\ \A j \in Partners \ {i} : v.part[j] = w.part[j]
             /\ Waits(w, v, got, asked)
<1>1. p.link => p.open
  <2>1. Linked(w)  BY DEF ServerInv
  <2> QED  BY <2>1 DEF Linked
<1> QED  BY <1>1, PartnerAlone

(* What the process said is passed on.                                     *)
LEMMA ForwardSound ==
  ASSUME NEW w, NEW got, IsSeq(got), NEW asked \in Nat, ServerInv(w, got, asked), w.nc.open,
         EndsOpen(Stream(w, got)), NEW i \in Partners, NEW t, IsRest(t)
  PROVE  LET v == [mg_send(w, t) EXCEPT !.part[i].recv = <<>>]
         IN  ServerInv(v, got, asked) /\ v.nc.recv = w.nc.recv
<1> DEFINE x == mg_send(w, t)
           p == [x.part[i] EXCEPT !.recv = <<>>]
           v == [x EXCEPT !.part[i].recv = <<>>]
<1>1. ServerInv(x, got, asked) /\ Kept(w, x)  BY AnswerGoesOn
<1> HIDE DEF x
<1>2. Shape(x)  BY <1>1 DEF Kept
<1>3. /\ v = [x EXCEPT !.part[i] = p]
      /\ PartOK(p) /\ p.flags = x.part[i].flags
      /\ p.link = x.part[i].link /\ p.open = x.part[i].open /\ p.kind = x.part[i].kind
      /\ p.said = x.part[i].said
  BY <1>2, PartRecvIs
<1> HIDE DEF p
<1>4. x.part[i].said <= p.said
  <2>1. x.part[i].said \in Nat  BY <1>2, PartsAre DEF PartOK
  <2> QED  BY <2>1, <1>3
<1>5. ServerInv([x EXCEPT !.part[i] = p], got, asked) /\ [x EXCEPT !.part[i] = p].nc = x.nc
  BY <1>1, <1>3, <1>4, PartnerQuiet
<1>6. ServerInv(v, got, asked) /\ v.nc = x.nc  BY <1>3, <1>5
<1> HIDE DEF v
<1>7. v.nc.recv = w.nc.recv  BY <1>1, <1>6 DEF Kept
<1> QED  BY <1>6, <1>7 DEF v, x

LEMMA SaidStarts ==
  ASSUME NEW w, NEW got, IsSeq(got), NEW asked \in Nat, ServerInv(w, got, asked), w.nc.open, Busy(w),
         Cardinality(HeadsOf(Stream(w, got))) < asked,
         NEW x, Said(w, x, UntilClose),
         NEW v, Shape(v), Linked(v), ~Owed(v), v.nc.open = x.nc.open, v.nc.recv = x.nc.recv,
         v.nc.file = x.nc.file, v.nc.send = x.nc.send
  PROVE  ServerInv(v, got, asked) /\ EndsOpen(Stream(v, got)) /\ v.nc.recv = w.nc.recv
<1>1. PICK t : IsAnswer(t) /\ t[1][5] \notin Inodes /\ t[1][3] = UntilClose /\ x.nc.send = w.nc.send \o t
  BY DEF Said
<1>2. v.nc.open = w.nc.open /\ v.nc.recv = w.nc.recv /\ v.nc.file = w.nc.file  BY DEF Said, Kept
<1>3. v.nc.send = w.nc.send \o t  BY <1>1
<1> QED  BY <1>1, <1>2, <1>3, AnswerStarts

(* The head of what a process says, and no more of its headers.            *)
HeadersRead(y) == [y EXCEPT !.nc.flags = @ \ {"parse_headers"}]

(* The connection w now waits for the body of what a process says.         *)
BodyNext(w, v, got, asked) ==
  ServerInv(v, got, asked) /\ EndsOpen(Stream(v, got)) /\ v.nc.recv = w.nc.recv /\ v.nc.open

LEMMA CgiHeadSound ==
  ASSUME NEW w, NEW got, IsSeq(got), NEW asked \in Nat, ServerInv(w, got, asked),
         NEW i \in Partners, w.part[i].kind = "cgi", w.part[i].link, "parse_headers" \in w.nc.flags,
         NEW x, Said(w, x, UntilClose),
         NEW y, y = x \/ y = PartFlag(x, i, "close_immediately")
  PROVE  BodyNext(w, HeadersRead(y), got, asked)
<1> DEFINE v == [y EXCEPT !.nc.flags = @ \ {"parse_headers"}]
<1>1. w.nc.open /\ Busy(w) /\ w.nc.cgi = i /\ w.nc.linked = 0  BY LinkedBusy
<1>2. Cardinality(HeadsOf(Stream(w, got))) < asked
  <2>1. i # 0  BY DEF Partners
  <2>2. Owed(w)  BY <2>1, <1>1 DEF Owed
  <2> QED  BY <2>2 DEF ServerInv, Counted
<1>3. Shape(w) /\ Linked(w) /\ Shape(x) /\ Kept(w, x)  BY DEF ServerInv, Said, Kept
<1>4. /\ Shape(y) /\ y.nc = x.nc /\ y.err = x.err
      /\ \A j \in Partners : /\ y.part[j].link = x.part[j].link /\ y.part[j].kind = x.part[j].kind
                             /\ y.part[j].open = x.part[j].open
  <2>1. CASE y = x  BY <2>1, <1>3
  <2>2. CASE y = PartFlag(x, i, "close_immediately")
    <3> DEFINE p == [x.part[i] EXCEPT !.flags = @ \cup {"close_immediately"}]
    <3>1. /\ y = [x EXCEPT !.part[i] = p] /\ PartOK(p)
          /\ p.link = x.part[i].link /\ p.open = x.part[i].open /\ p.kind = x.part[i].kind
      BY <2>2, <1>3, PartFlagIs
    <3> HIDE DEF p
    <3>2. /\ Shape(y) /\ y.nc = x.nc /\ y.err = x.err
          /\ y.part[i] = p /\ \A j \in Partners \ {i} : y.part[j] = x.part[j]
      BY <3>1, <1>3, PartSet
    <3>3. ASSUME NEW j \in Partners
          PROVE  /\ y.part[j].link = x.part[j].link /\ y.part[j].kind = x.part[j].kind
                 /\ y.part[j].open = x.part[j].open
      <4>1. CASE j = i  BY <4>1, <3>1, <3>2
      <4>2. CASE j # i  BY <4>2, <3>2
      <4> QED  BY <4>1, <4>2
    <3> QED  BY <3>2, <3>3
  <2> QED  BY <2>1, <2>2
<1>5. /\ Shape(v) /\ v.err = y.err /\ v.part = y.part /\ "parse_headers" \notin v.nc.flags
      /\ v.nc.open = y.nc.open /\ v.nc.recv = y.nc.recv /\ v.nc.file = y.nc.file
      /\ v.nc.cgi = y.nc.cgi /\ v.nc.linked = y.nc.linked /\ v.nc.send = y.nc.send
  <2>1. /\ Shape(v) /\ v.err = y.err /\ v.part = y.part /\ v.nc.flags = y.nc.flags \ {"parse_headers"}
        /\ v.nc.open = y.nc.open /\ v.nc.recv = y.nc.recv /\ v.nc.file = y.nc.file
        /\ v.nc.cgi = y.nc.cgi /\ v.nc.linked = y.nc.linked /\ v.nc.send = y.nc.send
    BY <1>4, FlagsCut
  <2> HIDE DEF v
  <2> QED  BY <2>1
<1> HIDE DEF v
<1>6. Linked(v)
  <2>1. v.err = w.err /\ v.nc.open = w.nc.open /\ v.nc.cgi = w.nc.cgi /\ v.nc.linked = w.nc.linked
    BY <1>3, <1>4, <1>5 DEF Kept
  <2>2. ASSUME NEW j \in Partners
        PROVE  /\ v.part[j].link <=> w.part[j].link
               /\ v.part[j].link => v.part[j].open
               /\ v.part[j].kind = w.part[j].kind
    <3>1. x.part[j] = w.part[j]  BY <1>3 DEF Kept
    <3>2. w.part[j].link => w.part[j].open  BY <1>3 DEF Linked
    <3> QED  BY <3>1, <3>2, <1>4, <1>5
  <2> QED  BY <2>1, <2>2, <1>3, LinkedLike
<1>7. ~Owed(v)
  <2>1. v.nc.linked = 0  BY <1>1, <1>3, <1>4, <1>5 DEF Kept
  <2> QED  BY <2>1, <1>5 DEF Owed
<1>8. v.nc.open = x.nc.open /\ v.nc.recv = x.nc.recv /\ v.nc.file = x.nc.file /\ v.nc.send = x.nc.send
  BY <1>4, <1>5
<1>9. ServerInv(v, got, asked) /\ EndsOpen(Stream(v, got)) /\ v.nc.recv = w.nc.recv
  BY <1>1, <1>2, <1>5, <1>6, <1>7, <1>8, SaidStarts
<1>10. v.nc.open  BY <1>1, <1>3, <1>8 DEF Kept
<1> QED  BY <1>9, <1>10 DEF v, BodyNext, HeadersRead

(* A flag for a partner.                                                   *)
LEMMA PartFlagSound ==
  ASSUME NEW w, NEW got, NEW asked, ServerInv(w, got, asked), NEW i \in Partners, NEW f
  PROVE  LET v == PartFlag(w, i, f)
         IN  /\ ServerInv(v, got, asked) /\ Stream(v, got) = Stream(w, got) /\ v.nc = w.nc
             /\ v.part[i].link = w.part[i].link /\ v.part[i].flags = w.part[i].flags \cup {f}
             /\ v.part[i].kind = w.part[i].kind
             /\ Waits(w, v, got, asked)
<1> DEFINE p == [w.part[i] EXCEPT !.flags = @ \cup {f}]
           v == PartFlag(w, i, f)
<1>1. Shape(w)  BY DEF ServerInv
<1>2. /\ v = [w EXCEPT !.part[i] = p]
      /\ PartOK(p) /\ p.flags = w.part[i].flags \cup {f}
      /\ p.link = w.part[i].link /\ p.open = w.part[i].open /\ p.kind = w.part[i].kind
      /\ p.said = w.part[i].said /\ p.recv = w.part[i].recv
  BY <1>1, PartFlagIs
<1> HIDE DEF p, v
<1>3. w.part[i].said <= p.said /\ w.part[i].flags \subseteq p.flags
  <2>1. w.part[i].said \in Nat  BY <1>1, PartsAre DEF PartOK
  <2> QED  BY <2>1, <1>2
<1>4. /\ ServerInv(v, got, asked) /\ Stream(v, got) = Stream(w, got) /\ v.part[i] = p
      /\ v.nc = w.nc /\ Waits(w, v, got, asked)
  BY <1>2, <1>3, PartnerQuiet
<1> QED  BY <1>2, <1>4 DEF v

(* MG_EV_RECV of a process.                                                *)
LEMMA CgiRecvSound ==
  ASSUME NEW w, NEW got, IsSeq(got), NEW asked \in Nat, ServerInv(w, got, asked),
         NEW i \in Partners, w.part[i].kind = "cgi"
  PROVE  LET v == CgiRecv(w, i)
         IN  ServerInv(v, got, asked) /\ Waits(w, v, got, asked)
<1> DEFINE said == w.part[i].recv
           n == Len(said)
           t == [k \in 1..n |-> <<"text", said[k], i>>]
           forward(x) == [mg_send(x, t) EXCEPT !.part[i].recv = <<>>]
           bad == "bad" \in {said[k] : k \in 1..n}
           blank == "blank" \in {said[k] : k \in 1..n}
           s0 == mg_send(w, <<<<"head", 200, UntilClose, None, None, 0>>>>)
           e0 == mg_http_send_error(w, [name |-> None], 500)
           started == [s0 EXCEPT !.nc.flags = @ \ {"parse_headers"}]
           failed == [PartFlag(e0, i, "close_immediately") EXCEPT !.nc.flags = @ \ {"parse_headers"}]
           v == CgiRecv(w, i)
<1>1. Shape(w) /\ Linked(w)  BY DEF ServerInv
<1>2. IsRest(t)
  <2>1. n \in Nat
    <3>1. IsSeq(said)  BY <1>1 DEF Shape
    <3> QED  BY <3>1, SeqLen
  <2> HIDE DEF n, said
  <2>2. t = [k \in 1..n |-> t[k]]  OBVIOUS
  <2>3. \A k \in 1..n : t[k][1] = "text"  OBVIOUS
  <2> HIDE DEF t
  <2>4. IsSeq(t) /\ Len(t) = n  BY <2>1, <2>2, Counting
  <2> QED  BY <2>3, <2>4 DEF IsRest
<1>3. w.part[i].link => w.nc.open  BY <1>1 DEF Linked
<1>4. v = IF ~w.part[i].link THEN PartFlag(w, i, "close_immediately")
          ELSE IF ~w.nc.open THEN Lost(w)
          ELSE IF "parse_headers" \notin w.nc.flags THEN forward(w)
          ELSE IF bad THEN forward(failed)
          ELSE IF blank THEN forward(started) ELSE w
  BY DEF CgiRecv
<1> HIDE DEF v, bad, blank, t, started, failed
<1>5. CASE ~w.part[i].link
  <2>1. v = PartFlag(w, i, "close_immediately")  BY <1>4, <1>5
  <2>2. ServerInv(PartFlag(w, i, "close_immediately"), got, asked)
        /\ Waits(w, PartFlag(w, i, "close_immediately"), got, asked)
    BY PartFlagSound
  <2> QED  BY <2>1, <2>2 DEF v
<1>6. CASE w.part[i].link
  <2>1. w.nc.open /\ w.nc.cgi = i /\ i # 0  BY <1>6, LinkedBusy DEF Partners
  <2>2. ASSUME NEW x, ServerInv(x, got, asked), x.nc.recv = w.nc.recv, x.nc.open, EndsOpen(Stream(x, got)),
               v = forward(x)
        PROVE  ServerInv(v, got, asked) /\ v.nc.recv = w.nc.recv
    <3>1. ServerInv(forward(x), got, asked) /\ forward(x).nc.recv = x.nc.recv
      <4>1. \A z : ServerInv(z, got, asked) /\ z.nc.open /\ EndsOpen(Stream(z, got)) =>
              LET a == [mg_send(z, t) EXCEPT !.part[i].recv = <<>>]
              IN  ServerInv(a, got, asked) /\ a.nc.recv = z.nc.recv
        BY <1>2, ForwardSound
      <4> QED  BY <4>1, <2>2
    <3> HIDE DEF forward
    <3> QED  BY <3>1, <2>2
  <2>3. CASE "parse_headers" \notin w.nc.flags
    <3>1. EndsOpen(Stream(w, got))  BY <2>1, <2>3 DEF ServerInv, Counted
    <3>2. v = forward(w)  BY <2>1, <2>3, <1>4, <1>6
    <3> HIDE DEF forward
    <3>3. ServerInv(v, got, asked) /\ v.nc.recv = w.nc.recv  BY <2>1, <2>2, <3>1, <3>2
    <3> QED  BY <3>3, <1>6, LinkedWaits DEF v
  <2>4. CASE "parse_headers" \in w.nc.flags /\ bad
    <3>1. Said(w, e0, UntilClose)  BY <1>1, ErrorSaid
    <3> HIDE DEF e0
    <3> DEFINE y == PartFlag(e0, i, "close_immediately")
    <3>2. failed = [y EXCEPT !.nc.flags = @ \ {"parse_headers"}]  BY DEF failed
    <3>3. y = e0 \/ y = PartFlag(e0, i, "close_immediately")  OBVIOUS
    <3> HIDE DEF y
    <3>4. BodyNext(w, HeadersRead(y), got, asked)  BY <3>1, <3>3, <2>4, <1>6, CgiHeadSound
    <3>5. ServerInv(failed, got, asked) /\ EndsOpen(Stream(failed, got)) /\ failed.nc.recv = w.nc.recv /\ failed.nc.open
      BY <3>2, <3>4 DEF BodyNext, HeadersRead
    <3>6. v = forward(failed)  BY <2>1, <2>4, <1>4, <1>6
    <3> HIDE DEF forward
    <3>7. ServerInv(v, got, asked) /\ v.nc.recv = w.nc.recv  BY <2>2, <3>5, <3>6
    <3> QED  BY <3>7, <1>6, LinkedWaits DEF v
  <2>5. CASE "parse_headers" \in w.nc.flags /\ ~bad /\ blank
    <3> DEFINE head == <<"head", 200, UntilClose, None, None, 0>>
    <3>0. head[1] = "head" /\ head[5] \notin Inodes /\ head[3] = UntilClose  BY ConstantsOK
    <3>1. s0 = mg_send(w, <<head>>)  OBVIOUS
    <3> HIDE DEF s0, head
    <3>p. ~IsPutReply(head)  BY <3>0 DEF IsPutReply, UntilClose
    <3>2. Said(w, s0, UntilClose)  BY <3>0, <3>p, <3>1, <1>1, HeadSaid
    <3>3. BodyNext(w, HeadersRead(s0), got, asked)  BY <3>2, <2>5, <1>6, CgiHeadSound
    <3>5. ServerInv(started, got, asked) /\ EndsOpen(Stream(started, got)) /\ started.nc.recv = w.nc.recv /\ started.nc.open
      BY <3>3 DEF started, BodyNext, HeadersRead
    <3>6. v = forward(started)  BY <2>1, <2>5, <1>4, <1>6
    <3> HIDE DEF forward
    <3>7. ServerInv(v, got, asked) /\ v.nc.recv = w.nc.recv  BY <2>2, <3>5, <3>6
    <3> QED  BY <3>7, <1>6, LinkedWaits DEF v
  <2>6. CASE "parse_headers" \in w.nc.flags /\ ~bad /\ ~blank
    <3>1. v = w  BY <2>1, <2>6, <1>4, <1>6
    <3> QED  BY <3>1 DEF v, Waits
  <2> QED  BY <2>3, <2>4, <2>5, <2>6
<1> QED  BY <1>5, <1>6

LEMMA WaitsTwice ==
  ASSUME NEW w, NEW x, NEW v, NEW got, NEW asked, Waits(w, x, got, asked), Waits(x, v, got, asked)
  PROVE  Waits(w, v, got, asked)
BY DEF Waits

(* The process said x.                                                     *)
LEMMA CgiSaysSound ==
  ASSUME NEW w, NEW got, IsSeq(got), NEW asked \in Nat, ServerInv(w, got, asked),
         NEW i \in Partners, w.part[i].kind = "cgi", NEW x
  PROVE  LET v == CgiRecv([w EXCEPT !.part[i].recv = Append(@, x), !.part[i].said = @ + 1], i)
         IN  ServerInv(v, got, asked) /\ Waits(w, v, got, asked)
<1> DEFINE y == [w EXCEPT !.part[i].recv = Append(@, x), !.part[i].said = @ + 1]
           p == [w.part[i] EXCEPT !.recv = Append(@, x), !.said = @ + 1]
           v == CgiRecv(y, i)
<1>1. Shape(w)  BY DEF ServerInv
<1>2. /\ y = [w EXCEPT !.part[i] = p]
      /\ PartOK(p) /\ p.flags = w.part[i].flags
      /\ p.link = w.part[i].link /\ p.open = w.part[i].open /\ p.kind = w.part[i].kind
      /\ w.part[i].said <= p.said
  BY <1>1, PartMoreIs
<1> HIDE DEF p, y
<1>3. ServerInv(y, got, asked) /\ y.part[i] = p /\ Waits(w, y, got, asked)
  BY <1>2, PartnerQuiet
<1>4. ServerInv(v, got, asked) /\ Waits(y, v, got, asked)  BY <1>2, <1>3, CgiRecvSound
<1> HIDE DEF v
<1>5. Waits(w, v, got, asked)  BY <1>3, <1>4, WaitsTwice
<1> QED  BY <1>4, <1>5 DEF v, y

(* The backend's answer, or the error instead of it.                       *)
LEMMA BackendAnswers ==
  ASSUME NEW w, NEW got, IsSeq(got), NEW asked \in Nat, ServerInv(w, got, asked),
         Cardinality(HeadsOf(Stream(w, got))) < asked,
         NEW i \in Partners, w.part[i].kind = "backend", w.part[i].link,
         NEW x, Said(w, x, UntilClose),
         NEW v, v = x \/ v = PartFlag(x, i, "close_immediately"),
         "close_immediately" \in v.part[i].flags
  PROVE  ServerInv(v, got, asked) /\ v.nc.recv = w.nc.recv
<1>1. w.nc.open /\ Busy(w) /\ w.nc.cgi = 0 /\ w.nc.linked = i  BY LinkedBusy
<1>2. Shape(w) /\ Linked(w) /\ Shape(x) /\ Kept(w, x)  BY DEF ServerInv, Said, Kept
<1>3. /\ Shape(v) /\ v.nc = x.nc /\ v.err = x.err
      /\ \A j \in Partners : /\ v.part[j].link = x.part[j].link /\ v.part[j].kind = x.part[j].kind
                             /\ v.part[j].open = x.part[j].open
  <2>1. CASE v = x  BY <2>1, <1>2
  <2>2. CASE v = PartFlag(x, i, "close_immediately")
    <3> DEFINE p == [x.part[i] EXCEPT !.flags = @ \cup {"close_immediately"}]
    <3>1. /\ v = [x EXCEPT !.part[i] = p] /\ PartOK(p)
          /\ p.link = x.part[i].link /\ p.open = x.part[i].open /\ p.kind = x.part[i].kind
      BY <2>2, <1>2, PartFlagIs
    <3> HIDE DEF p
    <3>2. /\ Shape(v) /\ v.nc = x.nc /\ v.err = x.err
          /\ v.part[i] = p /\ \A j \in Partners \ {i} : v.part[j] = x.part[j]
      BY <3>1, <1>2, PartSet
    <3>3. ASSUME NEW j \in Partners
          PROVE  /\ v.part[j].link = x.part[j].link /\ v.part[j].kind = x.part[j].kind
                 /\ v.part[j].open = x.part[j].open
      <4>1. CASE j = i  BY <4>1, <3>1, <3>2
      <4>2. CASE j # i  BY <4>2, <3>2
      <4> QED  BY <4>1, <4>2
    <3> QED  BY <3>2, <3>3
  <2> QED  BY <2>1, <2>2
<1>4. Linked(v)
  <2>1. v.err = w.err /\ v.nc.open = w.nc.open /\ v.nc.cgi = w.nc.cgi /\ v.nc.linked = w.nc.linked
    BY <1>2, <1>3 DEF Kept
  <2>2. ASSUME NEW j \in Partners
        PROVE  /\ v.part[j].link <=> w.part[j].link
               /\ v.part[j].link => v.part[j].open
               /\ v.part[j].kind = w.part[j].kind
    <3>1. x.part[j] = w.part[j]  BY <1>2 DEF Kept
    <3>2. w.part[j].link => w.part[j].open  BY <1>2 DEF Linked
    <3> QED  BY <3>1, <3>2, <1>3
  <2> QED  BY <2>1, <2>2, <1>2, LinkedLike
<1>5. ~Owed(v)
  <2>1. v.nc.cgi = 0 /\ v.nc.linked = i  BY <1>1, <1>2, <1>3 DEF Kept
  <2> QED  BY <2>1 DEF Owed
<1>6. v.nc.open = x.nc.open /\ v.nc.recv = x.nc.recv /\ v.nc.file = x.nc.file /\ v.nc.send = x.nc.send
  BY <1>3
<1> QED  BY <1>1, <1>3, <1>4, <1>5, <1>6, SaidStarts

(* MG_EV_CONNECT with an error.                                            *)
LEMMA BackendFailsSound ==
  ASSUME NEW w, NEW got, IsSeq(got), NEW asked \in Nat, ServerInv(w, got, asked),
         NEW i \in Partners, w.part[i].kind = "backend", w.part[i].said = 0,
         "close_immediately" \notin w.part[i].flags
  PROVE  LET y == PartFlag(w, i, "close_immediately")
             v == IF ~w.part[i].link THEN y
                  ELSE IF ~w.nc.open THEN Lost(y)
                  ELSE mg_http_send_error(y, [name |-> None], 502)
         IN  ServerInv(v, got, asked) /\ Waits(w, v, got, asked)
<1> DEFINE y == PartFlag(w, i, "close_immediately")
           e == mg_http_send_error(y, [name |-> None], 502)
           v == IF ~w.part[i].link THEN y ELSE IF ~w.nc.open THEN Lost(y) ELSE e
<1>1. /\ ServerInv(y, got, asked) /\ Stream(y, got) = Stream(w, got) /\ y.nc = w.nc
      /\ y.part[i].link = w.part[i].link /\ y.part[i].flags = w.part[i].flags \cup {"close_immediately"}
      /\ y.part[i].kind = w.part[i].kind /\ Waits(w, y, got, asked)
  BY PartFlagSound
<1> HIDE DEF y
<1>2. CASE ~w.part[i].link
  <2>1. v = y  BY <1>2
  <2> QED  BY <2>1, <1>1 DEF y
<1>3. CASE w.part[i].link
  <2>1. w.nc.open /\ w.nc.linked = i /\ i # 0  BY <1>3, LinkedBusy DEF Partners
  <2>2. v = e  BY <2>1, <1>3
  <2>3. Cardinality(HeadsOf(Stream(y, got))) < asked
    <3>1. Owed(w)  BY <2>1 DEF Owed
    <3> QED  BY <3>1, <1>1 DEF ServerInv, Counted
  <2>4. Shape(y)  BY <1>1 DEF ServerInv
  <2>5. Said(y, e, UntilClose)  BY <2>4, ErrorSaid
  <2> HIDE DEF e
  <2>6. "close_immediately" \in e.part[i].flags
    <3>1. e.part = y.part  BY <2>5 DEF Said, Kept
    <3> QED  BY <3>1, <1>1
  <2>7. ServerInv(e, got, asked) /\ e.nc.recv = y.nc.recv
    <3>1. y.part[i].kind = "backend" /\ y.part[i].link  BY <1>1, <1>3
    <3>2. \A a : (a = e \/ a = PartFlag(e, i, "close_immediately")) /\ "close_immediately" \in a.part[i].flags
            => ServerInv(a, got, asked) /\ a.nc.recv = y.nc.recv
      BY <3>1, <2>3, <2>5, <1>1, BackendAnswers
    <3> QED  BY <3>2, <2>6
  <2>8. ServerInv(v, got, asked) /\ v.nc.recv = w.nc.recv  BY <2>2, <2>7, <1>1
  <2> HIDE DEF v
  <2>9. Waits(w, v, got, asked)  BY <2>8, <1>3, LinkedWaits
  <2> QED  BY <2>8, <2>9 DEF v, y, e
<1> QED  BY <1>2, <1>3

(* What a back end's answer does (BackendReplies).                         *)
Replied(w, i) ==
  LET y == [w EXCEPT !.part[i].said = 2]
  IN  IF ~w.part[i].link THEN y
      ELSE IF ~w.nc.open THEN Lost(y)
      ELSE PartFlag(Flag(mg_send(y, <<<<"head", 200, UntilClose, None, None, 0>>, <<"text", "reply", i>>>>),
                         "send_and_close"), i, "close_immediately")

(* MG_EV_HTTP_REPLY.                                                       *)
LEMMA BackendRepliesSound ==
  ASSUME NEW w, NEW got, IsSeq(got), NEW asked \in Nat, ServerInv(w, got, asked),
         NEW i \in Partners, w.part[i].kind = "backend", w.part[i].said = 1,
         "close_immediately" \notin w.part[i].flags
  PROVE  ServerInv(Replied(w, i), got, asked) /\ Waits(w, Replied(w, i), got, asked)
<1> DEFINE y == [w EXCEPT !.part[i].said = 2]
           p == [w.part[i] EXCEPT !.said = 2]
           head == <<"head", 200, UntilClose, None, None, 0>>
           text == <<"text", "reply", i>>
           s == mg_send(y, <<head, text>>)
           x == Flag(s, "send_and_close")
           e == PartFlag(x, i, "close_immediately")
           v == IF ~w.part[i].link THEN y ELSE IF ~w.nc.open THEN Lost(y) ELSE e
<1> SUFFICES ServerInv(v, got, asked) /\ Waits(w, v, got, asked)
  <2>1. v = Replied(w, i)  BY DEF Replied
  <2> HIDE DEF v
  <2> QED  BY <2>1
<1>1. Shape(w)  BY DEF ServerInv
<1>2. /\ y = [w EXCEPT !.part[i] = p]
      /\ PartOK(p) /\ p.flags = w.part[i].flags
      /\ p.link = w.part[i].link /\ p.open = w.part[i].open /\ p.kind = w.part[i].kind
      /\ p.said = 2
  BY <1>1, PartSaidIs, 2 \in Nat
<1> HIDE DEF p, y
<1>3. ServerInv(y, got, asked) /\ y.part[i] = p /\ Stream(y, got) = Stream(w, got) /\ y.nc = w.nc
      /\ Waits(w, y, got, asked)
  <2>1. w.part[i].said <= p.said  BY <1>2
  <2> QED  BY <2>1, <1>2, PartnerQuiet
<1>4. CASE ~w.part[i].link
  <2>1. v = y  BY <1>4
  <2> QED  BY <2>1, <1>3 DEF y
<1>5. CASE w.part[i].link
  <2>1. w.nc.open /\ w.nc.linked = i /\ i # 0  BY <1>5, LinkedBusy DEF Partners
  <2>2. v = e  BY <2>1, <1>5
  <2>3. Cardinality(HeadsOf(Stream(y, got))) < asked
    <3>1. Owed(w)  BY <2>1 DEF Owed
    <3> QED  BY <3>1, <1>3 DEF ServerInv, Counted
  <2>4. Shape(y)  BY <1>3 DEF ServerInv
  <2>5. IsAnswer(<<head, text>>) /\ <<head, text>>[1][5] \notin Inodes /\ <<head, text>>[1][3] = UntilClose
    <3>1. head[1] = "head" /\ head[5] \notin Inodes /\ head[3] = UntilClose /\ text[1] # "head"  BY ConstantsOK
    <3> HIDE DEF head, text
    <3>2. IsSeq(<<head, text>>) /\ Len(<<head, text>>) = 2 /\ <<head, text>>[1] = head /\ <<head, text>>[2] = text
      BY TwoSeq
    <3>3. \A k \in 2..2 : <<head, text>>[k] = text  BY <3>2
    <3> QED  BY <3>1, <3>2, <3>3 DEF IsAnswer
  <2> DEFINE t == <<head, text>>
  <2>6. s = mg_send(y, t)  OBVIOUS
  <2> HIDE DEF s, t, head, text
  <2>7. Said(y, s, UntilClose)
    <3>1. IsAnswer(t) /\ t[1][5] \notin Inodes /\ t[1][3] = UntilClose  BY <2>5 DEF t
    <3>p. ~IsPutReply(t[1])  BY <3>1 DEF IsPutReply, UntilClose
    <3>2. Kept(y, s) /\ s.nc.send = y.nc.send \o t  BY <3>1, <2>4, <2>6, SendKeeps DEF IsAnswer
    <3> QED  BY <3>1, <3>p, <3>2 DEF Said
  <2>8. Said(y, x, UntilClose)  BY <2>7, FlagSaid
  <2> HIDE DEF x
  <2>9. "close_immediately" \in e.part[i].flags
    <3>1. Shape(x)  BY <2>8 DEF Said, Kept
    <3> DEFINE q == [x.part[i] EXCEPT !.flags = @ \cup {"close_immediately"}]
    <3>2. e = [x EXCEPT !.part[i] = q] /\ PartOK(q) /\ q.flags = x.part[i].flags \cup {"close_immediately"}
      BY <3>1, PartFlagIs
    <3> HIDE DEF q, e
    <3>3. e.part[i] = q  BY <3>1, <3>2, PartSet
    <3> QED  BY <3>2, <3>3
  <2>10. ServerInv(e, got, asked) /\ e.nc.recv = y.nc.recv
    <3>1. y.part[i].kind = "backend" /\ y.part[i].link  BY <1>2, <1>3, <1>5
    <3>2. e = x \/ e = PartFlag(x, i, "close_immediately")  OBVIOUS
    <3> HIDE DEF e
    <3> QED  BY <3>1, <3>2, <2>3, <2>8, <2>9, <1>3, BackendAnswers
  <2>11. ServerInv(v, got, asked) /\ v.nc.recv = w.nc.recv  BY <2>2, <2>10, <1>3
  <2> HIDE DEF v
  <2>12. Waits(w, v, got, asked)  BY <2>11, <1>5, LinkedWaits
  <2> QED  BY <2>11, <2>12 DEF v, y, e, x, s, head, text
<1> QED  BY <1>4, <1>5

LEMMA BackendConnectsSound ==
  ASSUME NEW w, NEW got, NEW asked, ServerInv(w, got, asked), NEW i \in Partners, w.part[i].said = 0
  PROVE  LET v == [w EXCEPT !.part[i].said = 1]
         IN  ServerInv(v, got, asked) /\ Waits(w, v, got, asked)
<1> DEFINE v == [w EXCEPT !.part[i].said = 1]
           p == [w.part[i] EXCEPT !.said = 1]
<1>1. Shape(w)  BY DEF ServerInv
<1>2. /\ v = [w EXCEPT !.part[i] = p]
      /\ PartOK(p) /\ p.flags = w.part[i].flags
      /\ p.link = w.part[i].link /\ p.open = w.part[i].open /\ p.kind = w.part[i].kind
      /\ p.said = 1
  BY <1>1, PartSaidIs, 1 \in Nat
<1> HIDE DEF p, v
<1>3. w.part[i].said <= p.said  BY <1>2
<1>4. ServerInv(v, got, asked) /\ Waits(w, v, got, asked)  BY <1>2, <1>3, PartnerQuiet
<1> QED  BY <1>4 DEF v

(* A partner that nothing is linked to goes.                               *)
LEMMA LooseGoes ==
  ASSUME NEW w, NEW got, NEW asked, ServerInv(w, got, asked), NEW i \in Partners, ~w.part[i].link
  PROVE  ServerInv(Gone(w, i), got, asked) /\ Waits(w, Gone(w, i), got, asked)
<1> DEFINE p == [NoPartner EXCEPT !.kind = w.part[i].kind]
<1>1. PartOK(p) /\ p.link = FALSE /\ p.kind = w.part[i].kind  BY GoneIsOK
<1>2. Gone(w, i) = [w EXCEPT !.part[i] = p]  BY DEF Gone
<1> HIDE DEF p
<1>3. p.link = w.part[i].link
  <2>1. PartOK(w.part[i])  BY PartsAre DEF ServerInv
  <2>2. w.part[i].link \in BOOLEAN  BY <2>1 DEF PartOK
  <2>3. w.part[i].link = FALSE  BY <2>2, Zenon
  <2> QED  BY <2>3, <1>1
<1>4. ~p.link  BY <1>1
<1> QED  BY <1>1, <1>2, <1>3, <1>4, PartnerAlone

(* Gone(x, i) after the client's connection was told.                      *)
LEMMA LinkedGoes ==
  ASSUME NEW w, NEW got, IsSeq(got), NEW asked \in Nat, ServerInv(w, got, asked), NEW i \in Partners, w.part[i].link,
         NEW x, Shape(x), x.err = w.err, x.nc.open = w.nc.open, x.nc.recv = w.nc.recv, x.nc.file = w.nc.file,
         x.nc.send = w.nc.send, x.nc.cgi = 0, x.nc.linked = 0,
         \A j \in Partners \ {i} : x.part[j] = w.part[j]
  PROVE  ServerInv(Gone(x, i), got, asked) /\ Waits(w, Gone(x, i), got, asked)
<1> DEFINE p == [NoPartner EXCEPT !.kind = x.part[i].kind]
           v == Gone(x, i)
<1>1. PartOK(p) /\ p.link = FALSE /\ p.kind = x.part[i].kind  BY GoneIsOK
<1>2. v = [x EXCEPT !.part[i] = p]  BY DEF Gone
<1> HIDE DEF p, v
<1>3. /\ Shape(v) /\ v.nc = x.nc /\ v.fs = x.fs /\ v.err = x.err
      /\ v.part[i] = p /\ \A j \in Partners \ {i} : v.part[j] = x.part[j]
  BY <1>1, <1>2, PartSet
<1>4. /\ v.err = w.err /\ v.nc.open = w.nc.open /\ v.nc.recv = w.nc.recv /\ v.nc.file = w.nc.file
      /\ v.nc.send = w.nc.send /\ v.nc.cgi = 0 /\ v.nc.linked = 0 /\ ~v.part[i].link
      /\ \A j \in Partners \ {i} : v.part[j] = w.part[j]
  BY <1>1, <1>3
<1>5. ServerInv(v, got, asked) /\ Waits(w, v, got, asked)  BY <1>3, <1>4, PartnerLeaves
<1> QED  BY <1>5 DEF v

(* MG_EV_CLOSE of a process.                                               *)
LEMMA CgiClosesSound ==
  ASSUME NEW w, NEW got, IsSeq(got), NEW asked \in Nat, ServerInv(w, got, asked),
         NEW i \in Partners, w.part[i].kind = "cgi"
  PROVE  LET v == CgiCloses(w, i)
         IN  ServerInv(v, got, asked) /\ Waits(w, v, got, asked)
<1> DEFINE a == mg_http_free_proto_data_cgi(w)
           b == Flag(a, "send_and_close")
           v == CgiCloses(w, i)
<1>1. v = IF ~w.part[i].link THEN Gone(w, i) ELSE IF ~w.nc.open THEN Lost(w) ELSE Gone(b, i)
  BY DEF CgiCloses
<1> HIDE DEF v
<1>2. CASE ~w.part[i].link
  <2>1. v = Gone(w, i)  BY <1>1, <1>2
  <2>2. ServerInv(v, got, asked) /\ Waits(w, v, got, asked)  BY <2>1, <1>2, LooseGoes
  <2> QED  BY <2>2 DEF v
<1>3. CASE w.part[i].link
  <2>1. w.nc.open /\ w.nc.cgi = i /\ w.nc.linked = 0  BY <1>3, LinkedBusy
  <2>2. Shape(w)  BY DEF ServerInv
  <2>3. v = Gone(b, i)  BY <2>1, <1>1, <1>3
  <2>4. /\ Shape(a) /\ a.fs = w.fs /\ a.err = w.err /\ a.nc.cgi = 0 /\ Loose(w, a, w.nc.cgi)
        /\ a.nc.open = w.nc.open /\ a.nc.recv = w.nc.recv /\ a.nc.file = w.nc.file
        /\ a.nc.linked = w.nc.linked /\ a.nc.send = w.nc.send /\ a.nc.flags = w.nc.flags
    BY <2>2, FreeCgi
  <2> HIDE DEF a
  <2>5. Kept(a, b) /\ b.nc.send = a.nc.send  BY <2>4, FlagKeeps
  <2> HIDE DEF b
  <2>6. /\ Shape(b) /\ b.err = w.err /\ b.nc.open = w.nc.open /\ b.nc.recv = w.nc.recv
        /\ b.nc.file = w.nc.file /\ b.nc.send = w.nc.send /\ b.nc.cgi = 0 /\ b.nc.linked = 0
    BY <2>1, <2>4, <2>5 DEF Kept
  <2>7. \A j \in Partners \ {i} : b.part[j] = w.part[j]  BY <2>1, <2>4, <2>5 DEF Kept, Loose
  <2>8. ServerInv(Gone(b, i), got, asked) /\ Waits(w, Gone(b, i), got, asked)
    BY <2>6, <2>7, <1>3, LinkedGoes
  <2> QED  BY <2>3, <2>8 DEF v
<1> QED  BY <1>2, <1>3

(* MG_EV_CLOSE of a connection to a backend.                               *)
LEMMA BackendClosesSound ==
  ASSUME NEW w, NEW got, IsSeq(got), NEW asked \in Nat, ServerInv(w, got, asked),
         NEW i \in Partners, w.part[i].kind # "cgi"
  PROVE  LET v == BackendCloses(w, i)
         IN  ServerInv(v, got, asked) /\ Waits(w, v, got, asked)
<1> DEFINE a == Flag(w, "send_and_close")
           b == PartFlag(a, w.nc.linked, "send_and_close")
           c == IF w.nc.linked = 0 THEN a ELSE [b EXCEPT !.nc.linked = 0]
           v == BackendCloses(w, i)
<1>1. v = IF ~w.part[i].link THEN Gone(w, i) ELSE IF ~w.nc.open THEN Lost(w) ELSE Gone(c, i)
  BY DEF BackendCloses
<1> HIDE DEF v
<1>2. CASE ~w.part[i].link
  <2>1. v = Gone(w, i)  BY <1>1, <1>2
  <2>2. ServerInv(v, got, asked) /\ Waits(w, v, got, asked)  BY <2>1, <1>2, LooseGoes
  <2> QED  BY <2>2 DEF v
<1>3. CASE w.part[i].link
  <2>1. w.nc.open /\ w.nc.cgi = 0 /\ w.nc.linked = i /\ i # 0  BY <1>3, LinkedBusy DEF Partners
  <2>2. Shape(w)  BY DEF ServerInv
  <2>3. v = Gone(c, i)  BY <2>1, <1>1, <1>3
  <2>4. Kept(w, a) /\ a.nc.send = w.nc.send  BY <2>2, FlagKeeps
  <2>5. b = PartFlag(a, i, "send_and_close") /\ c = [b EXCEPT !.nc.linked = 0]  BY <2>1
  <2> HIDE DEF a, b, c
  <2>6. Shape(b) /\ b.nc = a.nc /\ b.err = a.err /\ \A j \in Partners \ {i} : b.part[j] = a.part[j]
    <3> DEFINE q == [a.part[i] EXCEPT !.flags = @ \cup {"send_and_close"}]
    <3>1. Shape(a)  BY <2>4 DEF Kept
    <3>2. b = [a EXCEPT !.part[i] = q] /\ PartOK(q)  BY <3>1, <2>5, PartFlagIs
    <3> HIDE DEF q
    <3> QED  BY <3>1, <3>2, PartSet
  <2>7. /\ Shape(c) /\ c.err = b.err /\ c.part = b.part /\ c.nc.linked = 0
        /\ c.nc.open = b.nc.open /\ c.nc.recv = b.nc.recv /\ c.nc.file = b.nc.file
        /\ c.nc.cgi = b.nc.cgi /\ c.nc.send = b.nc.send
    BY <2>5, <2>6, LinkedSet
  <2>8. /\ c.err = w.err /\ c.nc.open = w.nc.open /\ c.nc.recv = w.nc.recv
        /\ c.nc.file = w.nc.file /\ c.nc.send = w.nc.send /\ c.nc.cgi = 0
    BY <2>1, <2>4, <2>6, <2>7 DEF Kept
  <2>9. \A j \in Partners \ {i} : c.part[j] = w.part[j]  BY <2>4, <2>6, <2>7 DEF Kept
  <2>10. ServerInv(Gone(c, i), got, asked) /\ Waits(w, Gone(c, i), got, asked)
    BY <2>7, <2>8, <2>9, <1>3, LinkedGoes
  <2> QED  BY <2>3, <2>10 DEF v
<1> QED  BY <1>2, <1>3

(* Whatever a partner does, the server's state stays sound.                *)
LEMMA PartnerStepSound ==
  ASSUME NEW i \in Partners, PartnerStep(i), IsSeq(client.got), client.asked \in Nat,
         ServerInv(srv, client.got, client.asked)
  PROVE  /\ ServerInv(srv', client.got, client.asked) /\ Waits(srv, srv', client.got, client.asked)
         /\ client' = client
<1> DEFINE got == client.got
           asked == client.asked
<1>1. CASE CgiSays(i)
  <2>1. srv.part[i].kind = "cgi"  BY <1>1 DEF CgiSays, Running
  <2>2. PICK x \in {"piece", "blank", "bad"} :
          srv' = CgiRecv([srv EXCEPT !.part[i].recv = Append(@, x), !.part[i].said = @ + 1], i)
    BY <1>1 DEF CgiSays
  <2>3. client' = client  BY <1>1 DEF CgiSays
  <2>4. LET v == CgiRecv([srv EXCEPT !.part[i].recv = Append(@, x), !.part[i].said = @ + 1], i)
        IN  ServerInv(v, got, asked) /\ Waits(srv, v, got, asked)
    BY <2>1, CgiSaysSound
  <2> QED  BY <2>2, <2>3, <2>4
<1>2. CASE CgiEnds(i)
  <2>1. srv' = PartFlag(srv, i, "close_immediately") /\ client' = client  BY <1>2 DEF CgiEnds
  <2> QED  BY <2>1, PartFlagSound
<1>3. CASE BackendFails(i)
  <2>1. /\ srv.part[i].kind = "backend" /\ srv.part[i].said = 0
        /\ "close_immediately" \notin srv.part[i].flags
    BY <1>3 DEF BackendFails, Running
  <2>2. client' = client  BY <1>3 DEF BackendFails
  <2>3. LET y == PartFlag(srv, i, "close_immediately")
            v == IF ~srv.part[i].link THEN y
                 ELSE IF ~srv.nc.open THEN Lost(y)
                 ELSE mg_http_send_error(y, [name |-> None], 502)
        IN  ServerInv(v, got, asked) /\ Waits(srv, v, got, asked)
    BY <2>1, BackendFailsSound
  <2> QED  BY <2>2, <2>3, <1>3 DEF BackendFails
<1>4. CASE BackendConnects(i)
  <2>1. srv.part[i].said = 0 /\ srv' = [srv EXCEPT !.part[i].said = 1] /\ client' = client
    BY <1>4 DEF BackendConnects
  <2> QED  BY <2>1, BackendConnectsSound
<1>5. CASE BackendReplies(i)
  <2>1. /\ srv.part[i].kind = "backend" /\ srv.part[i].said = 1
        /\ "close_immediately" \notin srv.part[i].flags
    BY <1>5 DEF BackendReplies, Running
  <2>2. client' = client  BY <1>5 DEF BackendReplies
  <2>3. ServerInv(Replied(srv, i), got, asked) /\ Waits(srv, Replied(srv, i), got, asked)
    BY <2>1, BackendRepliesSound
  <2>4. srv' = Replied(srv, i)  BY <1>5 DEF BackendReplies, Replied
  <2> QED  BY <2>2, <2>3, <2>4
<1>6. CASE BackendEnds(i)
  <2>1. srv' = PartFlag(srv, i, "close_immediately") /\ client' = client  BY <1>6 DEF BackendEnds
  <2> QED  BY <2>1, PartFlagSound
<1>7. CASE ClosePartner(i)
  <2>1. /\ srv' = IF srv.part[i].kind = "cgi" THEN CgiCloses(srv, i) ELSE BackendCloses(srv, i)
        /\ client' = client
    BY <1>7 DEF ClosePartner
  <2>2. CASE srv.part[i].kind = "cgi"  BY <2>1, <2>2, CgiClosesSound
  <2>3. CASE srv.part[i].kind # "cgi"  BY <2>1, <2>3, BackendClosesSound
  <2> QED  BY <2>2, <2>3
<1> QED  BY <1>1, <1>2, <1>3, <1>4, <1>5, <1>6, <1>7 DEF PartnerStep

(* A step that leaves alone what is sent.                                  *)
LEMMA KeptSound ==
  ASSUME NEW w, NEW got, NEW asked, ServerInv(w, got, asked),
         NEW v, Kept(w, v), v.nc.send = w.nc.send, v.nc.open \/ v.nc = w.nc
  PROVE  ServerInv(v, got, asked) /\ Waits(w, v, got, asked)
<1> DEFINE s == Stream(w, got)
<1>1. /\ Shape(w) /\ FileOK(w) /\ OneRequest(w.nc.recv) /\ Linked(w) /\ Closed(w)
      /\ RangesOK(s) /\ FileSent(w, s) /\ Counted(w, s, asked)
  BY DEF ServerInv
<1>2. Stream(v, got) = s  BY DEF Stream
<1> HIDE DEF s
<1>3. Near(w, v)  BY KeptNear
<1>4. Linked(v) /\ (Busy(w) <=> Busy(v)) /\ Counted(v, s, asked)  BY <1>1, <1>3, LinkedNear, NearCounted
<1>5. Shape(v) /\ v.nc.file = w.nc.file /\ v.nc.recv = w.nc.recv /\ v.nc.open = w.nc.open  BY DEF Kept
<1>6. FileOK(v) /\ FileSent(v, s) /\ OneRequest(v.nc.recv) /\ Closed(v)
  BY <1>1, <1>5 DEF FileOK, FileSent, Closed
<1>7. ServerInv(v, got, asked)  BY <1>1, <1>2, <1>4, <1>5, <1>6 DEF ServerInv
<1>8. ASSUME NEW wire, Waiting(w, wire, s, asked)  PROVE Waiting(v, wire, s, asked)
  BY <1>4, <1>5, <1>8 DEF Waiting
<1> QED  BY <1>2, <1>7, <1>8 DEF s, Waits

(* A piece of the file that is open.                                       *)
LEMMA TransferStep ==
  ASSUME NEW w, NEW got, IsSeq(got), NEW asked \in Nat, ServerInv(w, got, asked), w.nc.open
  PROVE  LET v == Transferred(w)
         IN  ServerInv(v, got, asked) /\ Waits(w, v, got, asked)
<1> DEFINE s == Stream(w, got)
           v == Transferred(w)
<1>1. Sound(w, got, asked) /\ OneRequest(w.nc.recv)  BY DEF ServerInv, Sound
<1>2. /\ Sound(v, got, asked) /\ Near(w, v) /\ v.nc.recv = w.nc.recv
      /\ HeadsOf(Stream(v, got)) = HeadsOf(s)
      /\ Done(s) => Stream(v, got) = s
  BY <1>1, TransferredSound
<1> HIDE DEF v, s
<1>3. ServerInv(v, got, asked)  BY <1>1, <1>2 DEF Sound, ServerInv, Closed
<1>4. ASSUME NEW wire, Waiting(w, wire, s, asked)  PROVE Waiting(v, wire, Stream(v, got), asked)
  <2>1. Busy(w) <=> Busy(v)  BY <1>2, LinkedNear
  <2> QED  BY <2>1, <1>2, <1>4 DEF Waiting, Near
<1> QED  BY <1>3, <1>4 DEF v, s, Waits

LEMMA SendSet ==
  ASSUME NEW w, Shape(w), NEW s, IsSeq(s)
  PROVE  LET v == [w EXCEPT !.nc.send = s]
         IN  Kept(w, v) /\ v.nc.send = s /\ v.fs = w.fs
<1> DEFINE v == [w EXCEPT !.nc.send = s]
<1>1. /\ v.nc = [w.nc EXCEPT !.send = s] /\ DOMAIN v = DOMAIN w
      /\ v.part = w.part /\ v.fs = w.fs /\ v.err = w.err
  BY DEF Shape
<1> HIDE DEF v
<1>2. /\ v.nc.send = s /\ DOMAIN v.nc = DOMAIN w.nc
      /\ \A g \in DOMAIN NewConn \ {"send"} : v.nc[g] = w.nc[g]
  BY <1>1 DEF Shape, NewConn
<1>3. /\ v.nc.open = w.nc.open /\ v.nc.recv = w.nc.recv /\ v.nc.file = w.nc.file /\ v.nc.rcvd = w.nc.rcvd
      /\ v.nc.cgi = w.nc.cgi /\ v.nc.linked = w.nc.linked /\ v.nc.flags = w.nc.flags
  BY <1>2 DEF NewConn
<1>4. Shape(v)  BY <1>1, <1>2, <1>3 DEF Shape
<1> QED  BY <1>1, <1>2, <1>3, <1>4 DEF Kept, v

(* MG_EV_SEND, after n units of the buffer went to the client.             *)
LEMMA SendOutSound ==
  ASSUME NEW w, NEW got, IsSeq(got), NEW asked \in Nat, ServerInv(w, got, asked), w.nc.open,
         NEW n \in 1..Len(w.nc.send)
  PROVE  LET to == got \o SubSeq(w.nc.send, 1, n)
             v == Transferred([w EXCEPT !.nc.send = mbuf_remove(@, n)])
         IN  /\ IsSeq(to) /\ ServerInv(v, to, asked)
             /\ \A wire : Waiting(w, wire, Stream(w, got), asked) => Waiting(v, wire, Stream(v, to), asked)
<1> DEFINE a == SubSeq(w.nc.send, 1, n)
           b == SubSeq(w.nc.send, n + 1, Len(w.nc.send))
           to == got \o a
           x == [w EXCEPT !.nc.send = mbuf_remove(@, n)]
           s == Stream(w, got)
           v == Transferred(x)
<1>1. /\ Shape(w) /\ FileOK(w) /\ OneRequest(w.nc.recv) /\ Linked(w) /\ IsSeq(w.nc.send)
      /\ RangesOK(s) /\ FileSent(w, s) /\ Counted(w, s, asked)
  BY DEF ServerInv, Shape
<1>2. Len(w.nc.send) \in Nat  BY <1>1, SeqLen
<1>3. n \in 0..Len(w.nc.send) /\ n <= Len(w.nc.send)  BY <1>2
<1>4. IsSeq(a) /\ IsSeq(b) /\ a \o b = w.nc.send  BY <1>1, <1>3, Parted
<1>5. x = [w EXCEPT !.nc.send = b]  BY <1>3 DEF mbuf_remove
<1> HIDE DEF a, b, x
<1>6. Kept(w, x) /\ x.nc.send = b  BY <1>1, <1>4, <1>5, SendSet
<1>7. IsSeq(to)  BY <1>4, Joined
<1>8. Stream(x, to) = s
  <2>0. IsSeq(a) /\ IsSeq(b) /\ IsSeq(got)  BY <1>4
  <2>1. (got \o a) \o b = got \o (a \o b)
    <3>1. \A c : IsSeq(c) => (c \o a) \o b = c \o (a \o b)  BY ONLY <2>0, JoinedTwice
    <3> QED  BY <3>1, <2>0
  <2> QED  BY <2>1, <1>4, <1>6 DEF Stream
<1> HIDE DEF to, s
<1>9. Near(w, x)  BY <1>6, KeptNear
<1>10. Linked(x) /\ (Busy(w) <=> Busy(x)) /\ Counted(x, s, asked)  BY <1>1, <1>9, LinkedNear, NearCounted
<1>11. Shape(x) /\ x.nc.file = w.nc.file /\ x.nc.recv = w.nc.recv /\ x.nc.open = w.nc.open  BY <1>6 DEF Kept
<1>12. ServerInv(x, to, asked)
  <2>1. FileOK(x) /\ FileSent(x, s) /\ OneRequest(x.nc.recv) /\ Closed(x)
    BY <1>1, <1>11 DEF FileOK, FileSent, Closed
  <2> QED  BY <2>1, <1>1, <1>8, <1>10, <1>11 DEF ServerInv
<1>13. ServerInv(v, to, asked) /\ Waits(x, v, to, asked)  BY <1>7, <1>11, <1>12, TransferStep
<1> HIDE DEF v
<1>14. ASSUME NEW wire, Waiting(w, wire, s, asked)  PROVE Waiting(v, wire, Stream(v, to), asked)
  <2>1. Waiting(x, wire, s, asked)  BY <1>10, <1>11, <1>14 DEF Waiting
  <2> QED  BY <2>1, <1>8, <1>13 DEF Waits
<1> QED  BY <1>7, <1>13, <1>14 DEF v, to, x, s, a

(* A file is cut.                                                          *)
LEMMA CutSound ==
  ASSUME NEW w, NEW got, NEW asked, ServerInv(w, got, asked), NEW i \in Cuttable, w.fs.size[i] > 0
  PROVE  LET v == [w EXCEPT !.fs.size[i] = @ - 1, !.fs.mtime[i] = @ + 1]
         IN  ServerInv(v, got, asked) /\ Waits(w, v, got, asked)
<1> DEFINE fs == [w.fs EXCEPT !.size[i] = @ - 1, !.mtime[i] = @ + 1]
           size == [w.fs.size EXCEPT ![i] = w.fs.size[i] - 1]
           mtime == [w.fs.mtime EXCEPT ![i] = w.fs.mtime[i] + 1]
           v == [w EXCEPT !.fs.size[i] = @ - 1, !.fs.mtime[i] = @ + 1]
<1>1. Shape(w) /\ w.fs \in FileSystems /\ i \in Inodes  BY ConstantsOK DEF ServerInv, Shape
<1>2. /\ DOMAIN w.fs = {"names", "size", "mtime"} /\ w.fs.names \in [Paths -> Inodes \cup {None, Dir}]
      /\ w.fs.size \in [Inodes -> Nat] /\ w.fs.mtime \in [Inodes -> Int]
  BY <1>1 DEF FileSystems
<1>3. fs = [names |-> w.fs.names, size |-> size, mtime |-> mtime]
  <2> DEFINE g == w.fs
  <2>1. g \in FileSystems  BY <1>1
  <2>2. /\ fs = [g EXCEPT !.size[i] = g.size[i] - 1, !.mtime[i] = g.mtime[i] + 1]
        /\ size = [g.size EXCEPT ![i] = g.size[i] - 1] /\ mtime = [g.mtime EXCEPT ![i] = g.mtime[i] + 1]
    OBVIOUS
  <2> HIDE DEF g, fs, size, mtime
  <2>3. g = [names |-> g.names, size |-> g.size, mtime |-> g.mtime]  BY <2>1 DEF FileSystems
  <2>4. fs = [[g EXCEPT !.size = size] EXCEPT !.mtime = mtime]  BY <2>2, <2>3
  <2>5. fs = [names |-> g.names, size |-> size, mtime |-> mtime]  BY <2>3, <2>4
  <2> QED  BY <2>5 DEF g
<1>4. v = [w EXCEPT !.fs = fs]
  <2>1. DOMAIN w = {"nc", "part", "fs", "err"}  BY <1>1 DEF Shape
  <2> QED  BY <2>1, <1>2
<1> HIDE DEF v, fs
<1>5. size \in [Inodes -> Nat]
  <2>1. w.fs.size[i] - 1 \in Nat
    <3>1. w.fs.size[i] \in Nat /\ w.fs.size[i] > 0  BY <1>1, <1>2
    <3> QED  BY <3>1
  <2> QED  BY <2>1, <1>2
<1>6. mtime \in [Inodes -> Int]
  <2>1. w.fs.mtime[i] + 1 \in Int
    <3>1. w.fs.mtime[i] \in Int  BY <1>1, <1>2
    <3> QED  BY <3>1
  <2> QED  BY <2>1, <1>2
<1> HIDE DEF size, mtime
<1>7. fs \in FileSystems  BY <1>2, <1>3, <1>5, <1>6 DEF FileSystems
<1>8. Kept(w, v) /\ v.nc = w.nc  BY <1>1, <1>4, <1>7, FsKeeps
<1>9. ServerInv(v, got, asked) /\ Waits(w, v, got, asked)  BY <1>8, KeptSound
<1> QED  BY <1>9 DEF v

-----------------------------------------------------------------------------
(* The client.                                                             *)
LEMMA LastHeadOf ==
  ASSUME IsSeq(client.got), NEW s, HeadsOf(s) = HeadsOf(client.got), NEW h, LastHeadIs(s, h)
  PROVE  LastHead = h
<1> DEFINE g == client.got
           T == {0} \cup HeadsOf(s)
           m == Len(g)
<1>1. m \in Nat  BY SeqLen
<1>2. LastHead = Max(T)
  <2>1. Heads = HeadsOf(g)  BY DEF Heads, HeadsOf
  <2> QED  BY <2>1 DEF LastHead
<1>3. T \subseteq 0..m /\ T # {}
  <2>1. HeadsOf(g) \subseteq 1..m  BY DEF HeadsOf
  <2> QED  BY <2>1, <1>1
<1>4. h \in HeadsOf(s) /\ \A j \in h + 1..Len(s) : s[j][1] # "head"  BY DEF LastHeadIs
<1>5. h \in Nat /\ h >= 1 /\ h \in T
  <2>1. h \in 1..m  BY <1>4 DEF HeadsOf
  <2> QED  BY <2>1, <1>1, <1>4
<1>6. Max(T) \in T /\ \A k \in T : Max(T) >= k
  <2> HIDE DEF T, m
  <2> QED  BY <1>1, <1>3, MaxIn
<1> DEFINE top == Max(T)
<1>7. top \in 0..m /\ top >= h  BY <1>3, <1>5, <1>6
<1>8. top # 0  BY <1>1, <1>5, <1>7
<1>9. top \in HeadsOf(s)  BY <1>6, <1>8
<1> HIDE DEF top
<1>10. top \in 1..Len(s) /\ s[top][1] = "head"  BY <1>9 DEF HeadsOf
<1>11. ~(top \in h + 1..Len(s))  BY <1>4, <1>10
<1>12. h \in 1..Len(s)  BY <1>4 DEF HeadsOf
<1>13. top = h  BY <1>1, <1>5, <1>7, <1>10, <1>11, <1>12
<1> QED  BY <1>2, <1>13 DEF top

(* Everything the client has asked for is answered, and all of it is there. *)
LEMMA AllAnswered ==
  ASSUME NEW w, IsSeq(client.got), client.asked \in Nat, ServerInv(w, client.got, client.asked), Answered
  PROVE  LET s == Stream(w, client.got)
         IN  /\ Cardinality(HeadsOf(s)) = client.asked
             /\ Done(s) /\ ~Busy(w)
<1> DEFINE g == client.got
           asked == client.asked
           s == Stream(w, g)
<1>1. /\ Shape(w) /\ RangesOK(s) /\ Counted(w, s, asked) /\ IsSeq(w.nc.send)
  BY DEF ServerInv, Shape
<1>2. Cardinality(HeadsOf(g)) = asked
  <2>1. Heads = HeadsOf(g)  BY DEF Heads, HeadsOf
  <2> QED  BY <2>1 DEF Answered
<1>3. /\ HeadsOf(g) \subseteq HeadsOf(s)
      /\ Cardinality(HeadsOf(g)) <= Cardinality(HeadsOf(s))
      /\ Cardinality(HeadsOf(g)) = Cardinality(HeadsOf(s)) => HeadsOf(g) = HeadsOf(s)
      /\ \A k \in 1..Len(g) : s[k] = g[k]
  <2>1. \A t : IsSeq(t) =>
          /\ HeadsOf(g) \subseteq HeadsOf(g \o t)
          /\ Cardinality(HeadsOf(g)) <= Cardinality(HeadsOf(g \o t))
          /\ Cardinality(HeadsOf(g)) = Cardinality(HeadsOf(g \o t)) => HeadsOf(g) = HeadsOf(g \o t)
          /\ \A k \in 1..Len(g) : (g \o t)[k] = g[k]
    BY Arrived
  <2> QED  BY <2>1, <1>1 DEF Stream
<1>4. IsSeq(s) /\ Len(s) = Len(g) + Len(w.nc.send) /\ Len(g) \in Nat /\ Len(w.nc.send) \in Nat
  <2>1. \A t : IsSeq(t) => IsSeq(g \o t) /\ Len(g \o t) = Len(g) + Len(t)  BY Joined
  <2> QED  BY <2>1, <1>1, SeqLen DEF Stream
<1>a. Len(s) \in Nat /\ Len(g) <= Len(s)
  <2> DEFINE a == Len(g)
             b == Len(w.nc.send)
             c == Len(s)
  <2>1. a \in Nat /\ b \in Nat /\ c = a + b  BY <1>4
  <2> HIDE DEF a, b, c
  <2>2. c \in Nat /\ a <= c  BY <2>1
  <2> QED  BY <2>2 DEF a, c
<1> HIDE DEF s
<1>5. Cardinality(HeadsOf(s)) = asked /\ HeadsOf(s) = HeadsOf(g)
  <2>1. Cardinality(HeadsOf(s)) \in Nat  BY <1>4, HeadsFinite
  <2>2. Cardinality(HeadsOf(s)) <= asked  BY <1>1 DEF Counted
  <2> QED  BY <2>1, <2>2, <1>2, <1>3
<1>6. ASSUME NEW h, LastHeadIs(s, h)
      PROVE  /\ h \in 1..Len(g) /\ s[h][3] # UntilClose /\ Len(g) - h >= s[h][3]
  <2>1. LastHead = h  BY <1>5, <1>6, LastHeadOf
  <2>2. h \in HeadsOf(g)  BY <1>5, <1>6 DEF LastHeadIs
  <2>3. h \in 1..Len(g)  BY <2>2 DEF HeadsOf
  <2>4. h # 0  BY <2>3, <1>4
  <2>5. g[h][3] # UntilClose /\ Len(g) - h >= g[h][3]  BY <2>1, <2>4 DEF Answered
  <2>6. s[h] = g[h]  BY <2>3, <1>3
  <2> QED  BY <2>3, <2>5, <2>6
<1>7. Done(s)
  <2> SUFFICES ASSUME NEW h \in HeadsOf(s), LastHeadIs(s, h), IsFileReply(s[h])
               PROVE  Len(s) - h = s[h][3]
    BY DEF Done
  <2> DEFINE n == Len(s)
             m == Len(g)
             cl == s[h][3]
  <2>1. h \in 1..m /\ m - h >= cl  BY <1>6
  <2>2. cl \in Nat  BY <1>1 DEF RangesOK
  <2>3. n \in Nat /\ m \in Nat /\ m <= n  BY <1>4, <1>a
  <2>4. \A j \in h + 1..n : s[j][1] # "head"  BY DEF LastHeadIs
  <2>5. \A j \in h + 1..n : (\A k \in h + 1..j - 1 : s[k][1] # "head") =>
           IF s[j][1] = "head" THEN j - h - 1 = cl
           ELSE j - h <= cl /\ s[j] = <<"unit", s[h][5], s[h][6] + (j - h) - 1>>
    BY <1>1 DEF RangesOK
  <2> HIDE DEF n, m, cl
  <2>6. h \in Nat /\ h >= 1  BY <2>1, <2>3
  <2>7. n - h <= cl
    <3>1. CASE n <= h  BY <3>1, <2>2, <2>3, <2>6
    <3>2. CASE n > h
      <4>1. n \in h + 1..n  BY <3>2, <2>3, <2>6
      <4>2. \A k \in h + 1..n - 1 : k \in h + 1..n  BY <2>3, <2>6
      <4>3. \A k \in h + 1..n - 1 : s[k][1] # "head"  BY <4>2, <2>4
      <4> QED  BY <4>1, <4>3, <2>4, <2>5
    <3> QED  BY <3>1, <3>2, <2>3, <2>6
  <2>8. n - h = cl  BY <2>1, <2>2, <2>3, <2>6, <2>7
  <2> QED  BY <2>8 DEF n, cl
<1>8. ~Busy(w)
  <2> SUFFICES ASSUME Busy(w)  PROVE FALSE
    OBVIOUS
  <2>1. Cardinality(HeadsOf(s)) < asked \/ EndsOpen(s)  BY <1>1 DEF Counted
  <2>2. EndsOpen(s)  BY <2>1, <1>5
  <2> QED  BY <2>2, <1>6 DEF EndsOpen
<1> QED  BY <1>5, <1>7, <1>8 DEF s

(* The next request.                                                       *)
LEMMA ClientSendsSound ==
  ASSUME NEW w, IsSeq(client.got), client.asked \in Nat, ServerInv(w, client.got, client.asked), Answered,
         NEW wire, Waiting(w, wire, Stream(w, client.got), client.asked), w.nc.open
  PROVE  /\ wire = <<>> /\ ServerInv(w, client.got, client.asked + 1)
         /\ \A x : Waiting(w, x, Stream(w, client.got), client.asked + 1)
<1> DEFINE s == Stream(w, client.got)
           asked == client.asked
<1>1. Cardinality(HeadsOf(s)) = asked /\ Done(s) /\ ~Busy(w)  BY AllAnswered
<1>2. IsSeq(s)
  <2>1. IsSeq(w.nc.send)  BY DEF ServerInv, Shape
  <2> QED  BY <2>1, Joined DEF Stream
<1>3. wire = <<>> /\ Requests(w.nc.recv) = {}  BY <1>1 DEF Waiting
<1>4. asked + 1 \in Nat /\ Cardinality(HeadsOf(s)) <= asked + 1 /\ Cardinality(HeadsOf(s)) < asked + 1
  BY <1>1
<1>5. Counted(w, s, asked + 1)  BY <1>1, <1>2, <1>4, NotBusyCounted
<1>6. ServerInv(w, client.got, asked + 1)  BY <1>5 DEF ServerInv
<1>7. \A x : Waiting(w, x, s, asked + 1)  BY <1>1, <1>3, <1>4 DEF Waiting
<1> QED  BY <1>3, <1>6, <1>7

(* There is a partner for a request that needs one.                        *)
LEMMA NextPartnerIs ==
  ASSUME NEW recv, HeadEnd(recv) # 0, WithinBound(recv), NeedsPartner(srv, Parsed(recv))
  PROVE  NextPartner \in Partners
<1> DEFINE T == FreePartners(srv) \cup {MaxPartners + 1}
<1>1. FreePartners(srv) # {} /\ FreePartners(srv) \subseteq Partners  BY DEF WithinBound, FreePartners
<1>2. MaxPartners \in Nat  BY ConstantsOK
<1>3. T \subseteq Nat /\ T # {}
  <2>1. Partners \subseteq Nat /\ MaxPartners + 1 \in Nat  BY <1>2 DEF Partners
  <2> QED  BY <2>1, <1>1
<1>4. NextPartner = Min(T)  BY DEF NextPartner
<1> HIDE DEF T
<1>5. Min(T) \in T /\ \A m \in T : Min(T) <= m  BY <1>3, MinIn
<1>6. PICK f \in FreePartners(srv) : f \in 1..MaxPartners  BY <1>1 DEF Partners
<1>7. Min(T) <= f  BY <1>5, <1>6 DEF T
<1>8. Min(T) # MaxPartners + 1
  <2>1. Min(T) \in Nat  BY <1>3, <1>5
  <2> QED  BY <2>1, <1>2, <1>6, <1>7
<1> QED  BY <1>1, <1>4, <1>5, <1>8 DEF T

-----------------------------------------------------------------------------
(* The start.                                                              *)
LEMMA NothingSaid ==
  /\ HeadsOf(<<>>) = {} /\ RangesOK(<<>>) /\ Done(<<>>) /\ Cardinality(HeadsOf(<<>>)) = 0
  /\ Requests(<<>>) = {}
<1>1. HeadsOf(<<>>) = {} /\ Requests(<<>>) = {}  BY DEF HeadsOf, Requests
<1>2. Cardinality(HeadsOf(<<>>)) = 0  BY <1>1, FS_EmptySet
<1> QED  BY <1>1, <1>2 DEF RangesOK, Done

LEMMA NewConnIs ==
  /\ DOMAIN NewConn.file = DOMAIN NoFile /\ NewConn.open = TRUE /\ NewConn.file = NoFile
  /\ NewConn.send = <<>> /\ NewConn.recv = <<>> /\ NewConn.rcvd = 0
  /\ NewConn.cgi = 0 /\ NewConn.linked = 0
BY DEF NewConn

LEMMA InitSound ==
  ASSUME Init
  PROVE  FilesInv
<1>1. /\ srv = [nc |-> NewConn, part |-> [i \in Partners |-> NoPartner], fs |-> InitFs, err |-> "none"]
      /\ \E s \in Scripts, e \in BOOLEAN :
           client = [todo |-> s, wire |-> <<>>, got |-> <<>>, asked |-> 0, gone |-> FALSE, eager |-> e]
  BY DEF Init
<1>2. /\ DOMAIN srv = {"nc", "part", "fs", "err"} /\ srv.nc = NewConn /\ srv.fs = InitFs /\ srv.err = "none"
      /\ DOMAIN srv.part = Partners /\ \A i \in Partners : srv.part[i] = NoPartner
  BY <1>1
<1>3. NoPartner.link = FALSE /\ NoPartner.open = FALSE /\ NoPartner.recv = <<>> /\ NoPartner.said = 0
  BY DEF NoPartner
<1>4. client.got = <<>> /\ client.asked = 0 /\ client.wire = <<>> /\ ClientShape(client)
  <2>1. PICK s \in Scripts, e \in BOOLEAN :
          client = [todo |-> s, wire |-> <<>>, got |-> <<>>, asked |-> 0, gone |-> FALSE, eager |-> e]
    BY <1>1
  <2>2. /\ DOMAIN client = {"todo", "wire", "got", "asked", "gone", "eager"}
        /\ client.todo = s /\ client.got = <<>> /\ client.asked = 0 /\ client.wire = <<>> /\ client.eager = e
    BY <2>1
  <2>3. s \in Seq(DOMAIN Request)  BY FilesAssumption
  <2>4. IsSeq(<<>>) /\ 0 \in Nat  BY NoSeq
  <2>5. client.eager \in BOOLEAN  BY <2>1, <2>2, Zenon
  <2> QED  BY <2>2, <2>3, <2>4, <2>5 DEF ClientShape
<1>5. Shape(srv)
  <2>1. PartOK(NoPartner)
    <3>1. NoPartner.link \in BOOLEAN /\ NoPartner.open \in BOOLEAN  BY <1>3, Zenon
    <3>2. IsSeq(NoPartner.recv)  BY <1>3, NoSeq
    <3>3. NoPartner.said \in Nat  BY <1>3
    <3> QED  BY <3>1, <3>2, <3>3 DEF PartOK
  <2>2. NewConn.open \in BOOLEAN  BY NewConnIs, Zenon
  <2>3. IsSeq(NewConn.send)  BY NewConnIs, NoSeq
  <2>4. NewConn.recv \in Seq({"request", "body"} \X DOMAIN Request)
    <3>1. <<>> \in Seq({"request", "body"} \X DOMAIN Request)  OBVIOUS
    <3> QED  BY <3>1, NewConnIs
  <2>5. NewConn.rcvd \in Nat  BY NewConnIs
  <2>6. InitFs \in FileSystems  BY FilesAssumption
  <2> QED  BY <2>1, <2>2, <2>3, <2>4, <2>5, <2>6, <1>2, NewConnIs DEF Shape, PartOK
<1>6. Linked(srv)
  <2>1. \A j \in Partners : j # 0  BY DEF Partners
  <2>2. \A j \in Partners : ~srv.part[j].link  BY <1>2, <1>3
  <2> QED  BY <2>1, <2>2, <1>2, NewConnIs DEF Linked
<1>7. Stream(srv, client.got) = <<>>
  <2>1. <<>> \o <<>> = <<>>  BY Nothing, NoSeq
  <2> QED  BY <2>1, <1>2, <1>4, NewConnIs DEF Stream
<1>8. ServerInv(srv, client.got, client.asked)
  <2>1. FileOK(srv) /\ FileSent(srv, <<>>)  BY <1>2, NewConnIs, NoFileOK
  <2>2. OneRequest(srv.nc.recv)  BY <1>2, NewConnIs, NothingSaid DEF OneRequest
  <2>3. Closed(srv)  BY <1>2, NewConnIs DEF Closed
  <2>4. Counted(srv, <<>>, client.asked)
    <3>1. ~Busy(srv)  BY <1>2, NewConnIs DEF Busy
    <3>2. Cardinality(HeadsOf(<<>>)) <= 0  BY NothingSaid
    <3> QED  BY <3>1, <3>2, <1>4, NoSeq, NotBusyCounted
  <2> QED  BY <2>1, <2>2, <2>3, <2>4, <1>5, <1>6, <1>7, NothingSaid DEF ServerInv
<1>9. \A s : Waiting(srv, client.wire, s, client.asked)
  BY <1>2, <1>4, NewConnIs, NothingSaid DEF Waiting
<1> QED  BY <1>4, <1>8, <1>9 DEF FilesInv

-----------------------------------------------------------------------------
(* The steps.                                                              *)
LEMMA ServerStep ==
  ASSUME FilesInv, client' = client,
         ~client.eager => ServerInv(srv', client.got, client.asked) /\ Waits(srv, srv', client.got, client.asked)
  PROVE  FilesInv'
BY DEF FilesInv, Waits

LEMMA FilesStep ==
  ASSUME FilesInv, [Next]_vars
  PROVE  FilesInv'
<1> DEFINE got == client.got
           asked == client.asked
<1>1. /\ ClientShape(client) /\ (~client.eager => IsSeq(got)) /\ asked \in Nat
      /\ DOMAIN client = {"todo", "wire", "got", "asked", "gone", "eager"}
  BY DEF FilesInv, ClientShape
<1>2. ASSUME ~client.eager
      PROVE  ServerInv(srv, got, asked) /\ Waiting(srv, client.wire, Stream(srv, got), asked)
  BY <1>2 DEF FilesInv
<1>3. CASE ClientSends
  <2>1. /\ client.todo # <<>> /\ srv.nc.open /\ (client.eager \/ Answered)
        /\ client' = [client EXCEPT !.todo = Tail(@), !.wire = @ \o Units(client.todo[1]), !.asked = @ + 1]
        /\ srv' = srv
    BY <1>3 DEF ClientSends
  <2>2. /\ DOMAIN client' = DOMAIN client /\ client'.todo = Tail(client.todo)
        /\ client'.wire = client.wire \o Units(client.todo[1]) /\ client'.asked = asked + 1
        /\ client'.got = got /\ client'.eager = client.eager
    BY <2>1, <1>1
  <2>3. client.todo \in Seq(DOMAIN Request) /\ client.eager \in BOOLEAN  BY <1>1 DEF ClientShape
  <2>4. Tail(client.todo) \in Seq(DOMAIN Request) /\ client.todo[1] \in DOMAIN Request
    <3>1. client.todo[1] = Head(client.todo)  BY <2>1, <2>3
    <3> QED  BY <3>1, <2>1, <2>3, HeadTailProperties
  <2>5. asked + 1 \in Nat  BY <1>1
  <2>6. ASSUME ~client.eager
        PROVE  /\ client'.wire = Units(client.todo[1]) /\ ServerInv(srv, got, asked + 1)
               /\ \A x : Waiting(srv, x, Stream(srv, got), asked + 1)
    <3>1. client.wire = <<>> /\ ServerInv(srv, got, asked + 1)
          /\ \A x : Waiting(srv, x, Stream(srv, got), asked + 1)
      BY <2>1, <2>6, <1>1, <1>2, ClientSendsSound
    <3>2. IsSeq(Units(client.todo[1]))
      <4>1. Units(client.todo[1]) \in Buffers  BY <2>4, UnitsOne
      <4> QED  BY <4>1, SeqIn DEF Buffers
    <3>3. <<>> \o Units(client.todo[1]) = Units(client.todo[1])  BY <3>2, Nothing
    <3> QED  BY <3>1, <3>3, <2>2
  <2>7. ClientShape(client')  BY <2>2, <2>3, <2>4, <2>5, <2>6, <1>1 DEF ClientShape
  <2>8. ASSUME ~client'.eager
        PROVE  ServerInv(srv', client'.got, client'.asked)
               /\ Waiting(srv', client'.wire, Stream(srv', client'.got), client'.asked)
    BY <2>1, <2>2, <2>6, <2>8
  <2> QED  BY <2>7, <2>8 DEF FilesInv
<1>4. CASE ClientLeaves
  <2>1. client' = [client EXCEPT !.gone = TRUE] /\ srv' = srv  BY <1>4 DEF ClientLeaves
  <2>2. /\ DOMAIN client' = DOMAIN client /\ client'.todo = client.todo /\ client'.wire = client.wire
        /\ client'.asked = asked /\ client'.got = got /\ client'.eager = client.eager
    BY <2>1, <1>1
  <2>3. ClientShape(client')  BY <2>2, <1>1 DEF ClientShape
  <2> QED  BY <2>1, <2>2, <2>3, <1>2 DEF FilesInv
<1>5. CASE Cut
  <2>1. PICK i \in Cuttable :
          /\ srv.fs.size[i] > 0
          /\ srv' = [srv EXCEPT !.fs.size[i] = @ - 1, !.fs.mtime[i] = @ + 1]
    BY <1>5 DEF Cut
  <2>2. client' = client  BY <1>5 DEF Cut
  <2>3. ~client.eager => ServerInv(srv', got, asked) /\ Waits(srv, srv', got, asked)
    BY <2>1, <1>2, CutSound
  <2> QED  BY <2>2, <2>3, ServerStep
<1>6. CASE Recv
  <2>1. /\ Alive /\ client.wire # <<>> /\ WithinBound(srv.nc.recv \o client.wire)
        /\ srv' = HttpRecv(srv, client.wire, NextPartner)
        /\ client' = [client EXCEPT !.wire = <<>>]
    BY <1>6 DEF Recv
  <2>2. /\ DOMAIN client' = DOMAIN client /\ client'.todo = client.todo /\ client'.wire = <<>>
        /\ client'.asked = asked /\ client'.got = got /\ client'.eager = client.eager
    BY <2>1, <1>1
  <2>3. ClientShape(client')  BY <2>2, <1>1 DEF ClientShape
  <2>4. ASSUME ~client.eager
        PROVE  ServerInv(srv', got, asked) /\ Waiting(srv', <<>>, Stream(srv', got), asked)
    <3>1. PICK q \in DOMAIN Request : client.wire = Units(q)  BY <2>1, <2>4, <1>1 DEF ClientShape
    <3>2. ServerInv(srv, got, asked) /\ Waiting(srv, Units(q), Stream(srv, got), asked) /\ srv.nc.open
      BY <3>1, <2>1, <2>4, <1>2 DEF Alive
    <3>3. HeadEnd(srv.nc.recv \o Units(q)) # 0
      <4>1. Requests(srv.nc.recv) = {}  BY <3>1, <3>2, <2>1 DEF Waiting
      <4>2. srv.nc.recv \in Buffers  BY <3>2 DEF ServerInv, Shape, Buffers
      <4>3. HeadEnd(srv.nc.recv \o Units(q)) = Len(srv.nc.recv) + 1  BY <4>1, <4>2, BufferJoined
      <4>4. Len(srv.nc.recv) \in Nat  BY <4>2, SeqIn DEF Buffers
      <4> QED  BY <4>3, <4>4
    <3>4. NeedsPartner(srv, Parsed(srv.nc.recv \o Units(q))) => NextPartner \in Partners
      BY <3>1, <3>3, <2>1, NextPartnerIs
    <3> DEFINE v == HttpRecv(srv, Units(q), NextPartner)
    <3>5. ServerInv(v, got, asked) /\ Waiting(v, <<>>, Stream(v, got), asked)
      BY <3>2, <3>4, <2>4, <1>1, RecvSound
    <3>6. srv' = v  BY <3>1, <2>1
    <3> HIDE DEF v
    <3> QED  BY <3>5, <3>6
  <2> QED  BY <2>2, <2>3, <2>4 DEF FilesInv
<1>7. CASE SendOut
  <2>1. PICK n \in {1, Len(srv.nc.send)} :
          /\ n <= Len(srv.nc.send) /\ n > 0
          /\ client' = [client EXCEPT !.got = @ \o SubSeq(srv.nc.send, 1, n)]
          /\ srv' = Transferred([srv EXCEPT !.nc.send = mbuf_remove(@, n)])
    BY <1>7 DEF SendOut
  <2>2. Alive  BY <1>7 DEF SendOut
  <2>3. /\ DOMAIN client' = DOMAIN client /\ client'.todo = client.todo /\ client'.wire = client.wire
        /\ client'.asked = asked /\ client'.eager = client.eager
        /\ client'.got = got \o SubSeq(srv.nc.send, 1, n)
    BY <2>1, <1>1
  <2>4. ASSUME ~client.eager
        PROVE  /\ IsSeq(client'.got) /\ ServerInv(srv', client'.got, asked)
               /\ Waiting(srv', client'.wire, Stream(srv', client'.got), asked)
    <3>1. ServerInv(srv, got, asked) /\ Waiting(srv, client.wire, Stream(srv, got), asked) /\ srv.nc.open
      BY <2>2, <2>4, <1>2 DEF Alive
    <3>2. n \in 1..Len(srv.nc.send)
      <4>1. IsSeq(srv.nc.send)  BY <3>1 DEF ServerInv, Shape
      <4>2. Len(srv.nc.send) \in Nat  BY <4>1, SeqLen
      <4> QED  BY <4>2, <2>1
    <3> DEFINE to == got \o SubSeq(srv.nc.send, 1, n)
               v == Transferred([srv EXCEPT !.nc.send = mbuf_remove(@, n)])
    <3>3. /\ IsSeq(to) /\ ServerInv(v, to, asked)
          /\ \A wire : Waiting(srv, wire, Stream(srv, got), asked) => Waiting(v, wire, Stream(v, to), asked)
      BY <3>1, <3>2, <2>4, <1>1, SendOutSound
    <3>4. srv' = v /\ client'.got = to  BY <2>1, <2>3
    <3> HIDE DEF v, to
    <3> QED  BY <3>1, <3>3, <3>4, <2>3
  <2>5. ClientShape(client')  BY <2>3, <2>4, <1>1 DEF ClientShape
  <2> QED  BY <2>3, <2>4, <2>5 DEF FilesInv
<1>8. CASE Poll
  <2>1. Alive /\ srv' = Transferred(srv) /\ client' = client  BY <1>8 DEF Poll
  <2>2. ~client.eager => ServerInv(srv', got, asked) /\ Waits(srv, srv', got, asked)
    BY <2>1, <1>1, <1>2, TransferStep DEF Alive
  <2> QED  BY <2>1, <2>2, ServerStep
<1>9. CASE Eof
  <2>1. Alive /\ srv' = Flag(srv, "close_immediately") /\ client' = client  BY <1>9 DEF Eof
  <2>2. ASSUME ~client.eager  PROVE ServerInv(srv', got, asked) /\ Waits(srv, srv', got, asked)
    <3>1. ServerInv(srv, got, asked) /\ Shape(srv) /\ srv.nc.open  BY <2>1, <2>2, <1>2 DEF ServerInv, Alive
    <3>2. Kept(srv, srv') /\ srv'.nc.send = srv.nc.send  BY <3>1, <2>1, FlagKeeps
    <3>3. srv'.nc.open  BY <3>1, <3>2 DEF Kept
    <3> QED  BY <3>1, <3>2, <3>3, KeptSound
  <2> QED  BY <2>1, <2>2, ServerStep
<1>10. CASE CloseClient
  <2>1. /\ Alive /\ WithinBound(srv.nc.recv) /\ srv' = HttpClose(srv, NextPartner) /\ client' = client
    BY <1>10 DEF CloseClient
  <2>2. ASSUME ~client.eager  PROVE ServerInv(srv', got, asked) /\ Waits(srv, srv', got, asked)
    <3>1. ServerInv(srv, got, asked) /\ srv.nc.open /\ Waiting(srv, client.wire, Stream(srv, got), asked)
      BY <2>1, <2>2, <1>2 DEF Alive
    <3>2. HeadEnd(srv.nc.recv) # 0 /\ NeedsPartner(srv, Parsed(srv.nc.recv)) => NextPartner \in Partners
      BY <2>1, NextPartnerIs
    <3> DEFINE v == HttpClose(srv, NextPartner)
    <3>3. ServerInv(v, got, asked) /\ \A wire, s : Waiting(v, wire, s, asked)
      BY <3>1, <3>2, <2>2, <1>1, CloseSound
    <3> HIDE DEF v
    <3> QED  BY <3>3, <2>1 DEF v, Waits
  <2> QED  BY <2>1, <2>2, ServerStep
<1>11. ASSUME NEW i \in Partners, PartnerStep(i)  PROVE FilesInv'
  <2>1. CASE ~client.eager
    <3>1. /\ ServerInv(srv', got, asked) /\ Waits(srv, srv', got, asked) /\ client' = client
      BY <2>1, <1>1, <1>2, <1>11, PartnerStepSound
    <3> QED  BY <3>1, ServerStep
  <2>2. CASE client.eager
    <3>1. client' = client
      BY <1>11 DEF PartnerStep, CgiSays, CgiEnds, BackendFails, BackendConnects, BackendReplies,
                   BackendEnds, ClosePartner
    <3> QED  BY <2>2, <3>1, ServerStep
  <2> QED  BY <2>1, <2>2
<1>12. CASE UNCHANGED vars
  BY <1>12 DEF vars, FilesInv
<1> QED  BY <1>3, <1>4, <1>5, <1>6, <1>7, <1>8, <1>9, <1>10, <1>11, <1>12 DEF Next

(* For a client that waits for each answer, whatever the site, the         *)
(* requests, the order of the steps and the moment anyone goes away, the   *)
(* conditions FilesInv names hold between the steps of the server.         *)
THEOREM FilesInvHolds == Spec => []FilesInv
<1>1. Init => FilesInv  BY InitSound
<1>2. FilesInv /\ [Next]_vars => FilesInv'  BY FilesStep
<1> QED  BY <1>1, <1>2, PTL DEF Spec

LEMMA DanglesNot ==
  ASSUME FilesInv
  PROVE  NothingDangles
<1>1. CASE client.eager  BY <1>1 DEF NothingDangles
<1>2. CASE ~client.eager
  <2>1. Shape(srv) /\ Linked(srv)  BY <1>2 DEF FilesInv, ServerInv
  <2>2. srv.nc.cgi \in Partners \cup {0} /\ srv.nc.linked \in Partners \cup {0}  BY <2>1 DEF Shape
  <2>3. srv.err = "none"  BY <2>1 DEF Linked
  <2>4. \A i \in Partners : srv.part[i].link => srv.nc.open /\ i \in {srv.nc.cgi, srv.nc.linked}
    BY <2>1 DEF Linked
  <2>5. \A i \in Partners : srv.nc.cgi = i \/ srv.nc.linked = i => srv.part[i].link /\ srv.part[i].open
    BY <2>1 DEF Linked
  <2> QED  BY <2>2, <2>3, <2>4, <2>5 DEF NothingDangles
<1> QED  BY <1>1, <1>2

(* The connection of a client that waits for each answer and the process   *)
(* or backend that answers know each other as long as both are there, and  *)
(* none is used after it is gone (mg_cgi_ev_handler,                       *)
(* mg_reverse_proxy_handler, mg_http_conn_destructor).                     *)
THEOREM NothingDanglesHolds == Spec => []NothingDangles
<1>1. FilesInv => NothingDangles  BY DanglesNot
<1> QED  BY <1>1, FilesInvHolds, PTL

-----------------------------------------------------------------------------
(* What stands behind the head got[h], up to the next one.                 *)
LEMMA BodyIs ==
  ASSUME IsSeq(client.got), NEW h \in HeadsOf(client.got)
  PROVE  \E last \in h..Len(client.got) :
           /\ IsSeq(BodyOf(h)) /\ Len(BodyOf(h)) = last - h
           /\ \A k \in 1..last - h : BodyOf(h)[k] = client.got[h + k]
           /\ \A j \in h + 1..last : client.got[j][1] # "head"
           /\ last < Len(client.got) => client.got[last + 1][1] = "head"
<1> DEFINE g == client.got
           n == Len(g)
           later == {j \in h + 1..n : g[j][1] = "head"}
           last == IF later = {} THEN n ELSE Min(later) - 1
           body == SubSeq(g, h + 1, last)
<1>1. n \in Nat  BY SeqLen
<1>2. h \in 1..n  BY DEF HeadsOf
<1>3. BodyOf(h) = body  BY DEF BodyOf
<1>g. IsSeq(g)  OBVIOUS
<1> HIDE DEF g, n, body
<1>4. /\ last \in h..n
      /\ \A j \in h + 1..last : g[j][1] # "head"
      /\ last < n => g[last + 1][1] = "head"
  <2>1. CASE later = {}
    <3>1. last = n  BY <2>1
    <3>2. \A j \in h + 1..n : g[j][1] # "head"  BY <2>1
    <3> HIDE DEF last
    <3> QED  BY <3>1, <3>2, <1>1, <1>2
  <2>2. CASE later # {}
    <3>0. h \in Nat  BY <1>1, <1>2
    <3>1. later \subseteq Nat  BY <1>1, <3>0
    <3>2. Min(later) \in later /\ \A j \in later : Min(later) <= j
      <4> HIDE DEF later
      <4> QED  BY <2>2, <3>1, MinIn
    <3> DEFINE m == Min(later)
    <3>3. m \in h + 1..n /\ g[m][1] = "head"  BY <3>2
    <3>4. \A j \in h + 1..n : g[j][1] = "head" => m <= j  BY <3>2
    <3>5. last = m - 1  BY <2>2
    <3> HIDE DEF m, last
    <3>6. \A j \in h + 1..m - 1 : g[j][1] # "head"  BY <3>0, <3>3, <3>4, <1>1
    <3>7. last \in h..n /\ last + 1 = m  BY <3>0, <3>3, <3>5, <1>1
    <3> QED  BY <3>3, <3>5, <3>6, <3>7
  <2> QED  BY <2>1, <2>2
<1> HIDE DEF last
<1>5. IsSeq(body) /\ Len(body) = last - h /\ \A k \in 1..last - h : body[k] = g[h + k]
  <2> DEFINE a == SubSeq(g, 1, last)
  <2>1. last \in 0..n  BY <1>1, <1>2, <1>4
  <2>2. IsSeq(g) /\ last \in 0..Len(g)  BY <2>1, <1>g DEF n
  <2>3. PICK S : g \in Seq(S)  BY <2>2 DEF IsSeq
  <2>4. h + 1 \in 1..n + 1 /\ h + 1 \in Int /\ last \in Int  BY <1>1, <1>2, <1>4
  <2>5. \A k \in h + 1..last : g[k] \in S
    <3>1. \A k \in 1..n : g[k] \in S  BY <2>3, ElementOfSeq DEF n
    <3> QED  BY <3>1, <1>1, <1>2, <1>4
  <2>6. body \in Seq(S) /\ Len(body) = (IF h + 1 <= last THEN last - (h + 1) + 1 ELSE 0)
        /\ \A k \in 1..last - (h + 1) + 1 : body[k] = g[(h + 1) + k - 1]
    BY <2>4, <2>5, SubSeqProperties DEF body
  <2>7. IsSeq(body)  BY <2>6, SeqIn
  <2>8. Len(body) = last - h  BY <2>6, <1>1, <1>2, <1>4
  <2>9. ASSUME NEW k \in 1..last - h  PROVE body[k] = g[h + k]
    <3>1. k \in 1..last - (h + 1) + 1 /\ (h + 1) + k - 1 = h + k  BY <1>1, <1>2, <1>4
    <3> QED  BY <3>1, <2>6
  <2> QED  BY <2>7, <2>8, <2>9
<1> QED  BY <1>3, <1>4, <1>5 DEF g, n

LEMMA RangesAsAsked ==
  ASSUME FilesInv
  PROVE  RangeAsAsked
<1> SUFFICES ASSUME ~client.eager, NEW h \in 1..Len(client.got), IsFileReply(client.got[h])
             PROVE  LET head == client.got[h]
                        body == BodyOf(h)
                    IN  /\ Len(body) <= head[3]
                        /\ \A k \in 1..Len(body) : body[k] = <<"unit", head[5], head[6] + k - 1>>
                        /\ h + Len(body) < Len(client.got) => Len(body) = head[3]
  BY DEF RangeAsAsked
<1> DEFINE g == client.got
           n == Len(g)
           cl == g[h][3]
           body == BodyOf(h)
           unit(k) == <<"unit", g[h][5], g[h][6] + k - 1>>
<1>1. IsSeq(g) /\ ServerInv(srv, g, client.asked)  BY DEF FilesInv, ClientShape
<1>2. RangesOK(g)
  <2>1. RangesOK(Stream(srv, g)) /\ IsSeq(srv.nc.send)  BY <1>1 DEF ServerInv, Shape
  <2>2. \A t : IsSeq(t) => (RangesOK(g \o t) => RangesOK(g))  BY <1>1, Arrived
  <2> QED  BY <2>1, <2>2 DEF Stream
<1>3. h \in HeadsOf(g)  BY DEF HeadsOf, IsFileReply
<1>4. n \in Nat /\ h \in 1..n  BY <1>1, SeqLen
<1>5. PICK last \in h..n :
        /\ IsSeq(body) /\ Len(body) = last - h
        /\ \A k \in 1..last - h : body[k] = g[h + k]
        /\ \A j \in h + 1..last : g[j][1] # "head"
        /\ last < n => g[last + 1][1] = "head"
  BY <1>1, <1>3, BodyIs
<1>6. cl \in Nat
      /\ \A j \in h + 1..n : (\A k \in h + 1..j - 1 : g[k][1] # "head") =>
           IF g[j][1] = "head" THEN j - h - 1 = cl
           ELSE j - h <= cl /\ g[j] = <<"unit", g[h][5], g[h][6] + (j - h) - 1>>
  BY <1>2, <1>3 DEF RangesOK
<1> HIDE DEF g, n, cl, body
<1>7. h \in Nat /\ last \in Nat /\ h <= last /\ last <= n  BY <1>4, <1>5
<1>8. ASSUME NEW j \in h + 1..last  PROVE j - h <= cl /\ g[j] = unit(j - h)
  <2>1. j \in h + 1..n /\ \A k \in h + 1..j - 1 : k \in h + 1..last  BY <1>4, <1>7
  <2>2. \A k \in h + 1..j - 1 : g[k][1] # "head"  BY <2>1, <1>5
  <2>3. g[j][1] # "head"  BY <1>5
  <2> QED  BY <2>1, <2>2, <2>3, <1>6
<1> HIDE DEF unit
<1>9. last - h <= cl
  <2>1. CASE last = h  BY <2>1, <1>6, <1>7
  <2>2. CASE last # h
    <3>1. last \in h + 1..last  BY <2>2, <1>7
    <3> QED  BY <3>1, <1>8
  <2> QED  BY <2>1, <2>2
<1>10. ASSUME NEW k \in 1..last - h  PROVE body[k] = unit(k)
  <2>0. k \in Nat /\ k >= 1 /\ k <= last - h  BY <1>7
  <2>1. h + k \in h + 1..last /\ (h + k) - h = k  BY <2>0, <1>7
  <2>2. g[h + k] = unit((h + k) - h)  BY <2>1, <1>8
  <2> QED  BY <2>1, <2>2, <1>5
<1>11. ASSUME last < n  PROVE last - h = cl
  <2>1. last + 1 \in h + 1..n /\ g[last + 1][1] = "head" /\ (last + 1) - 1 = last /\ (last + 1) - h - 1 = last - h
    BY <1>5, <1>7, <1>11, <1>4
  <2>2. \A k \in h + 1..(last + 1) - 1 : g[k][1] # "head"  BY <2>1, <1>5
  <2> QED  BY <2>1, <2>2, <1>6
<1>12. h + (last - h) = last  BY <1>7
<1> QED  BY <1>5, <1>9, <1>10, <1>11, <1>12 DEF g, n, cl, body, unit

(* An answer that is a file is what its head says, the bytes of the range  *)
(* in their order and no more, complete before the next answer starts,     *)
(* however the pieces were read, sent and polled for                       *)
(* (mg_http_transfer_file_data, mg_http_serve_file).                       *)
THEOREM RangeAsAskedHolds == Spec => []RangeAsAsked
<1>1. FilesInv => RangeAsAsked  BY RangesAsAsked
<1> QED  BY <1>1, FilesInvHolds, PTL

-----------------------------------------------------------------------------
(* From w to v nothing is said of a file that was stored, no file is       *)
(* opened, and nothing is written unless one was open.                     *)
Silent(t) == IsSeq(t) /\ \A k \in 1..Len(t) : ~IsPutReply(t[k])
Quiet(w, v) ==
  /\ Shape(v) /\ (w.nc.file = NoFile => v.nc.file = NoFile /\ v.fs = w.fs)
  /\ \E t : Silent(t) /\ v.nc.send = w.nc.send \o t

LEMMA SilentNothing ==
  Silent(<<>>)
<1>1. IsSeq(<<>>) /\ Len(<<>>) = 0  BY NoSeq
<1> QED  BY <1>1 DEF Silent

LEMMA SilentTwice ==
  ASSUME NEW a, Silent(a), NEW b, Silent(b)
  PROVE  Silent(a \o b)
<1> DEFINE u == a \o b
<1>1. IsSeq(a) /\ IsSeq(b)  BY DEF Silent
<1>2. Len(a) \in Nat /\ Len(b) \in Nat  BY <1>1, SeqLen
<1>3. IsSeq(u) /\ Len(u) = Len(a) + Len(b)
      /\ \A k \in 1..Len(a) + Len(b) : u[k] = IF k <= Len(a) THEN a[k] ELSE b[k - Len(a)]
  BY <1>1, Joined
<1> HIDE DEF u
<1>4. ASSUME NEW k \in 1..Len(u)  PROVE ~IsPutReply(u[k])
  <2>1. k \in 1..Len(a) + Len(b)  BY <1>3
  <2>2. CASE k <= Len(a)
    <3>1. k \in 1..Len(a)  BY <2>1, <2>2, <1>2
    <3>2. u[k] = a[k]  BY <2>1, <2>2, <1>3
    <3> QED  BY <3>1, <3>2 DEF Silent
  <2>3. CASE ~(k <= Len(a))
    <3>1. k - Len(a) \in 1..Len(b)  BY <2>1, <2>3, <1>2
    <3>2. u[k] = b[k - Len(a)]  BY <2>1, <2>3, <1>3
    <3> QED  BY <3>1, <3>2 DEF Silent
  <2> QED  BY <2>2, <2>3
<1> QED  BY <1>3, <1>4 DEF Silent, u

(* What is no head says nothing of a file that was stored.                 *)
LEMMA SilentRest ==
  ASSUME NEW t, IsRest(t)
  PROVE  Silent(t)
BY DEF IsRest, Silent, IsPutReply

LEMMA QuietSame ==
  ASSUME NEW w, Shape(w), NEW v, Shape(v),
         v.nc.send = w.nc.send, v.nc.file = w.nc.file, v.fs = w.fs
  PROVE  Quiet(w, v)
<1>1. IsSeq(w.nc.send)  BY DEF Shape
<1>2. w.nc.send \o <<>> = w.nc.send  BY <1>1, Nothing
<1>3. \E t : Silent(t) /\ v.nc.send = w.nc.send \o t  BY <1>2, SilentNothing
<1> QED  BY <1>3 DEF Quiet

LEMMA QuietTwice ==
  ASSUME NEW w, Shape(w), NEW x, Quiet(w, x), NEW v, Quiet(x, v)
  PROVE  Quiet(w, v)
<1>1. PICK a : Silent(a) /\ x.nc.send = w.nc.send \o a  BY DEF Quiet
<1>2. PICK b : Silent(b) /\ v.nc.send = x.nc.send \o b  BY DEF Quiet
<1>3. IsSeq(w.nc.send) /\ IsSeq(a) /\ IsSeq(b)  BY <1>1, <1>2 DEF Shape, Silent
<1>4. (w.nc.send \o a) \o b = w.nc.send \o (a \o b)
  <2>1. \A c : IsSeq(c) => (c \o a) \o b = c \o (a \o b)  BY ONLY <1>3, JoinedTwice
  <2> QED  BY <2>1, <1>3
<1>5. Silent(a \o b)  BY <1>1, <1>2, SilentTwice
<1>6. v.nc.send = w.nc.send \o (a \o b)  BY <1>1, <1>2, <1>4
<1>7. \E t : Silent(t) /\ v.nc.send = w.nc.send \o t  BY <1>5, <1>6
<1> QED  BY <1>7 DEF Quiet

LEMMA QuietSend ==
  ASSUME NEW w, Shape(w), NEW t, Silent(t)
  PROVE  Quiet(w, mg_send(w, t))
<1>1. /\ Kept(w, mg_send(w, t)) /\ mg_send(w, t).nc.send = w.nc.send \o t
      /\ mg_send(w, t).fs = w.fs
  BY SendKeeps DEF Silent
<1> DEFINE v == mg_send(w, t)
<1> HIDE DEF v
<1>2. Kept(w, v) /\ v.nc.send = w.nc.send \o t /\ v.fs = w.fs  BY <1>1 DEF v
<1>3. Quiet(w, v)  BY <1>2 DEF Kept, Quiet
<1> QED  BY <1>3 DEF v

LEMMA QuietFlag ==
  ASSUME NEW w, Shape(w), NEW f, f # "parse_headers"
  PROVE  Quiet(w, Flag(w, f))
<1> DEFINE v == Flag(w, f)
<1>1. Kept(w, v) /\ v.nc.send = w.nc.send /\ v.fs = w.fs  BY FlagKeeps
<1> HIDE DEF v
<1>2. Quiet(w, v)  BY <1>1, QuietSame DEF Kept
<1> QED  BY <1>2 DEF v

LEMMA QuietPart ==
  ASSUME NEW w, Shape(w), NEW i \in Partners, NEW p, PartOK(p)
  PROVE  Quiet(w, [w EXCEPT !.part[i] = p])
<1> DEFINE v == [w EXCEPT !.part[i] = p]
<1>1. Shape(v) /\ v.nc = w.nc /\ v.fs = w.fs  BY PartSet
<1> HIDE DEF v
<1>2. Quiet(w, v)  BY <1>1, QuietSame
<1> QED  BY <1>2 DEF v

LEMMA QuietPartFlag ==
  ASSUME NEW w, Shape(w), NEW i \in Partners, NEW f
  PROVE  Quiet(w, PartFlag(w, i, f))
<1> DEFINE p == [w.part[i] EXCEPT !.flags = @ \cup {f}]
<1>1. PartFlag(w, i, f) = [w EXCEPT !.part[i] = p] /\ PartOK(p)  BY PartFlagIs
<1> HIDE DEF p
<1>2. Quiet(w, [w EXCEPT !.part[i] = p])  BY <1>1, QuietPart
<1> QED  BY <1>1, <1>2

LEMMA QuietLost ==
  ASSUME NEW w, Shape(w)
  PROVE  Quiet(w, Lost(w))
<1> DEFINE v == Lost(w)
<1>1. DOMAIN v = DOMAIN w /\ v.nc = w.nc /\ v.fs = w.fs /\ v.part = w.part  BY DEF Lost, Shape
<1> HIDE DEF v
<1>2. Shape(v)  BY <1>1 DEF Shape
<1>3. Quiet(w, v)  BY <1>1, <1>2, QuietSame
<1> QED  BY <1>3 DEF v

LEMMA QuietError ==
  ASSUME NEW w, Shape(w), NEW r, NEW status
  PROVE  Quiet(w, mg_http_send_error(w, r, status))
<1> DEFINE x == <<"head", status, UntilClose, r.name, None, 0>>
           a == mg_send(w, <<x>>)
           v == mg_http_send_error(w, r, status)
<1>1. v = Flag(a, "send_and_close")  BY DEF mg_http_send_error, Reply
<1>2. x[3] = UntilClose  OBVIOUS
<1> HIDE DEF x, a, v
<1>3. ~IsPutReply(x)  BY <1>2 DEF IsPutReply, UntilClose
<1>4. Silent(<<x>>)
  <2>1. IsSeq(<<x>>) /\ Len(<<x>>) = 1 /\ <<x>>[1] = x  BY OneSeq
  <2> QED  BY <2>1, <1>3 DEF Silent
<1>5. Quiet(w, a)  BY <1>4, QuietSend DEF a
<1>6. Shape(a)  BY <1>5 DEF Quiet
<1>7. Quiet(a, Flag(a, "send_and_close"))  BY <1>6, QuietFlag
<1>8. Quiet(w, v)  BY <1>1, <1>5, <1>7, QuietTwice
<1> QED  BY <1>8 DEF v

(* What is held stays so as long as nothing happens to it.                 *)
LEMMA QuietHeld ==
  ASSUME NEW w, Shape(w), NEW got, IsSeq(got), NEW asked, Held(w, got, asked), NEW v, Quiet(w, v)
  PROVE  Held(v, got, asked)
<1> DEFINE s == Stream(w, got)
           u == Stream(v, got)
           m == Len(s)
<1>1. PICK t : Silent(t) /\ v.nc.send = w.nc.send \o t  BY DEF Quiet
<1>2. IsSeq(t)  BY <1>1 DEF Silent
<1>3. IsSeq(s) /\ u = s \o t
  <2>1. \A y : IsSeq(y) /\ v.nc.send = w.nc.send \o y =>
          IsSeq(Stream(w, got)) /\ Stream(v, got) = Stream(w, got) \o y
    BY ONLY Shape(w), IsSeq(got), StreamGrows
  <2> QED  BY <2>1, <1>1, <1>2
<1>4. m \in Nat /\ Len(t) \in Nat  BY <1>2, <1>3, SeqLen
<1>5. Len(u) = m + Len(t) /\ \A k \in 1..m + Len(t) : u[k] = IF k <= m THEN s[k] ELSE t[k - m]
  BY <1>2, <1>3, Joined
<1>w. Cardinality(HeadsOf(s)) = asked =>
        \A h \in HeadsOf(s) : LastHeadIs(s, h) /\ IsPutReply(s[h]) => Stored(w.fs, s[h][4]) /\ w.nc.file = NoFile
  BY DEF Held
<1> HIDE DEF s, u
<1>6. ASSUME Cardinality(HeadsOf(u)) = asked, NEW h \in HeadsOf(u), LastHeadIs(u, h), IsPutReply(u[h])
      PROVE  Stored(v.fs, u[h][4]) /\ v.nc.file = NoFile
  <2>1. h \in 1..m + Len(t)  BY <1>5 DEF HeadsOf
  <2>2. h <= m
    <3> SUFFICES ASSUME ~(h <= m)  PROVE FALSE
      OBVIOUS
    <3>1. h - m \in 1..Len(t)  BY <2>1, <1>4
    <3>2. u[h] = t[h - m]  BY <2>1, <1>5
    <3> QED  BY <3>1, <3>2, <1>1, <1>6 DEF Silent
  <2>3. \A k \in 1..Len(t) : t[k][1] # "head"
    <3> TAKE k \in 1..Len(t)
    <3>1. m + k \in 1..m + Len(t) /\ ~(m + k <= m) /\ (m + k) - m = k /\ m + k \in h + 1..m + Len(t)
      BY <2>1, <2>2, <1>4
    <3>2. u[m + k] = t[k]
      <4>1. u[m + k] = t[(m + k) - m]  BY <3>1, <1>5
      <4> QED  BY <4>1, <3>1
    <3>3. u[m + k][1] # "head"  BY <3>1, <1>5, <1>6 DEF LastHeadIs
    <3> QED  BY <3>2, <3>3
  <2>4. IsRest(t)  BY <2>3, <1>2 DEF IsRest
  <2>5. HeadsOf(u) = HeadsOf(s) /\ (LastHeadIs(u, h) <=> LastHeadIs(s, h)) /\ u[h] = s[h]
    <3>1. /\ HeadsOf(s \o t) = HeadsOf(s)
          /\ \A k \in HeadsOf(s) : (LastHeadIs(s \o t, k) <=> LastHeadIs(s, k)) /\ (s \o t)[k] = s[k]
      BY <2>4, <1>3, RestAppended
    <3> QED  BY <3>1, <1>3, <1>6
  <2>6. Stored(w.fs, s[h][4]) /\ w.nc.file = NoFile  BY <2>5, <1>6, <1>w
  <2>7. v.nc.file = NoFile /\ v.fs = w.fs  BY <2>6 DEF Quiet
  <2> QED  BY <2>5, <2>6, <2>7
<1> QED  BY <1>6 DEF Held, u

LEMMA TransferredQuiet ==
  ASSUME NEW w, Shape(w), FileOK(w)
  PROVE  Quiet(w, Transferred(w))
<1> DEFINE v == Transferred(w)
           f == w.nc.file
<1>1. CASE f.fp = None
  <2>1. v = w  BY <1>1 DEF Transferred
  <2> HIDE DEF v
  <2>2. Quiet(w, v)  BY <2>1, QuietSame
  <2> QED  BY <2>2 DEF v
<1>2. CASE f.fp # None
  <2>0. w.nc.file # NoFile  BY <1>2 DEF NoFile
  <2>1. /\ f.fp \in Inodes /\ f.sent \in Nat /\ f.cl \in Int /\ f.pos \in Int /\ f.sent < f.cl
        /\ f.type \in {"file", "put"} /\ DOMAIN f = DOMAIN NoFile
    BY <1>2 DEF FileOK, Shape
  <2>2. CASE f.type = "file"
    <3>1. v = SendPiece(w)  BY <1>2, <2>2 DEF Transferred, mg_http_transfer_file_data
    <3>2. Sending(w.nc.file, f.fp, f.cl, f.pos, f.sent)  BY <2>1, <2>2 DEF Sending
    <3>3. f.sent <= f.cl  BY <2>1
    <3> HIDE DEF v
    <3>4. \E n \in Nat : Near(w, v) /\ v.nc.send = w.nc.send \o UnitsOf(f.fp, f.pos, n)
      <4>1. \A i \in Inodes, cl \in Int, pos \in Int, sent \in Nat :
              sent <= cl /\ Sending(w.nc.file, i, cl, pos, sent) =>
                \E n \in Nat : Near(w, SendPiece(w)) /\ SendPiece(w).nc.send = w.nc.send \o UnitsOf(i, pos, n)
        BY ONLY Shape(w), SendPieceIs
      <4> HIDE DEF f
      <4> QED  BY <4>1, <3>1, <3>2, <3>3, <2>1
    <3>5. PICK n \in Nat : Near(w, v) /\ v.nc.send = w.nc.send \o UnitsOf(f.fp, f.pos, n)  BY <3>4
    <3>6. Silent(UnitsOf(f.fp, f.pos, n))  BY UnitsAre, SilentRest
    <3>7. Quiet(w, v)  BY <3>5, <3>6, <2>0 DEF Quiet, Near
    <3> QED  BY <3>7 DEF v
  <2>3. CASE f.type = "put"
    <3>1. v = StorePiece(w)  BY <1>2, <2>3 DEF Transferred, mg_http_transfer_file_data
    <3>2. Storing(w.nc.file)  BY <2>1, <2>3 DEF Storing
    <3> HIDE DEF v
    <3>3. Near(w, StorePiece(w)) /\ StorePiece(w).nc.send = w.nc.send  BY <3>2, StorePieceIs
    <3>4. Shape(v) /\ v.nc.send = w.nc.send  BY <3>1, <3>3 DEF Near
    <3>5. w.nc.send \o <<>> = w.nc.send  BY Nothing DEF Shape
    <3>6. Quiet(w, v)  BY <3>4, <3>5, <2>0, SilentNothing DEF Quiet
    <3> QED  BY <3>6 DEF v
  <2> QED  BY <2>1, <2>2, <2>3
<1> QED  BY <1>1, <1>2

(* MG_EV_SEND.                                                             *)
LEMMA SendOutHeld ==
  ASSUME NEW w, Shape(w), FileOK(w), NEW got, IsSeq(got), NEW asked, Held(w, got, asked),
         NEW n \in 1..Len(w.nc.send)
  PROVE  LET to == got \o SubSeq(w.nc.send, 1, n)
             v == Transferred([w EXCEPT !.nc.send = mbuf_remove(@, n)])
         IN  Held(v, to, asked)
<1> DEFINE a == SubSeq(w.nc.send, 1, n)
           b == SubSeq(w.nc.send, n + 1, Len(w.nc.send))
           to == got \o a
           x == [w EXCEPT !.nc.send = mbuf_remove(@, n)]
           v == Transferred(x)
<1>1. IsSeq(w.nc.send)  BY DEF Shape
<1>2. Len(w.nc.send) \in Nat  BY <1>1, SeqLen
<1>3. n \in 0..Len(w.nc.send) /\ n <= Len(w.nc.send)  BY <1>2
<1>4. IsSeq(a) /\ IsSeq(b) /\ a \o b = w.nc.send  BY <1>1, <1>3, Parted
<1>5. x = [w EXCEPT !.nc.send = b]  BY <1>3 DEF mbuf_remove
<1> HIDE DEF a, b, x
<1>6. Kept(w, x) /\ x.nc.send = b /\ x.fs = w.fs  BY <1>4, <1>5, SendSet
<1>7. IsSeq(to)  BY <1>4, Joined
<1>8. Stream(x, to) = Stream(w, got)
  <2>0. IsSeq(a) /\ IsSeq(b) /\ IsSeq(got)  BY <1>4
  <2>1. (got \o a) \o b = got \o (a \o b)
    <3>1. \A c : IsSeq(c) => (c \o a) \o b = c \o (a \o b)  BY ONLY <2>0, JoinedTwice
    <3> QED  BY <3>1, <2>0
  <2> QED  BY <2>1, <1>4, <1>6 DEF Stream
<1> HIDE DEF to
<1>9. Shape(x) /\ FileOK(x) /\ x.nc.file = w.nc.file  BY <1>6 DEF Kept, FileOK
<1>10. Held(x, to, asked)  BY <1>6, <1>8, <1>9, HeldSame
<1>11. Quiet(x, v)  BY <1>9, TransferredQuiet
<1> HIDE DEF v
<1>12. Held(v, to, asked)  BY <1>7, <1>9, <1>10, <1>11, QuietHeld
<1> QED  BY <1>12 DEF v, to, x, a

(* After the end of the connection what has arrived is held.               *)
LEMMA GoneHeld ==
  ASSUME NEW w, Shape(w), NEW got, IsSeq(got), NEW asked \in Nat, Held(w, got, asked),
         Cardinality(HeadsOf(Stream(w, got))) <= asked,
         NEW v, v.nc = GoneConn,
         Cardinality(HeadsOf(Stream(w, got))) = asked /\ w.nc.file = NoFile => v.fs = w.fs
  PROVE  Held(v, got, asked)
<1> DEFINE s == Stream(w, got)
<1>1. IsSeq(w.nc.send)  BY DEF Shape
<1>2. Stream(v, got) = got
  <2>1. v.nc.send = <<>>  BY GoneIs
  <2> QED  BY <2>1, Nothing DEF Stream
<1>3. /\ HeadsOf(got) \subseteq HeadsOf(s)
      /\ Cardinality(HeadsOf(got)) <= Cardinality(HeadsOf(s))
      /\ Cardinality(HeadsOf(got)) = Cardinality(HeadsOf(s)) => HeadsOf(got) = HeadsOf(s)
      /\ \A k \in 1..Len(got) : s[k] = got[k]
  <2>1. \A t : IsSeq(t) =>
          /\ HeadsOf(got) \subseteq HeadsOf(got \o t)
          /\ Cardinality(HeadsOf(got)) <= Cardinality(HeadsOf(got \o t))
          /\ Cardinality(HeadsOf(got)) = Cardinality(HeadsOf(got \o t)) => HeadsOf(got) = HeadsOf(got \o t)
          /\ \A k \in 1..Len(got) : (got \o t)[k] = got[k]
    BY Arrived
  <2> QED  BY <2>1, <1>1 DEF Stream
<1>4. IsSeq(s)  BY <1>1, Joined DEF Stream
<1>5. Cardinality(HeadsOf(s)) \in Nat /\ Cardinality(HeadsOf(got)) \in Nat  BY <1>4, HeadsFinite
<1>w. /\ Cardinality(HeadsOf(s)) <= asked
      /\ Cardinality(HeadsOf(s)) = asked /\ w.nc.file = NoFile => v.fs = w.fs
      /\ Cardinality(HeadsOf(s)) = asked =>
           \A h \in HeadsOf(s) : LastHeadIs(s, h) /\ IsPutReply(s[h]) => Stored(w.fs, s[h][4]) /\ w.nc.file = NoFile
  BY DEF Held
<1>6. Len(got) \in Nat  BY SeqLen
<1> HIDE DEF s
<1>7. ASSUME Cardinality(HeadsOf(got)) = asked, NEW h \in HeadsOf(got), LastHeadIs(got, h), IsPutReply(got[h])
      PROVE  Stored(v.fs, got[h][4]) /\ v.nc.file = NoFile
  <2>1. Cardinality(HeadsOf(s)) = asked /\ HeadsOf(s) = HeadsOf(got)  BY <1>3, <1>5, <1>w, <1>7
  <2>2. h \in 1..Len(got) /\ s[h] = got[h]  BY <1>3 DEF HeadsOf
  <2>3. ASSUME NEW j \in h + 1..Len(s), s[j][1] = "head"  PROVE FALSE
    <3>1. Len(s) \in Nat  BY <1>4, SeqLen
    <3>2. j \in 1..Len(s)  BY <3>1, <2>2, <1>6
    <3>3. j \in HeadsOf(got)  BY <3>2, <2>1, <2>3 DEF HeadsOf
    <3>4. j \in 1..Len(got) /\ got[j][1] = "head"  BY <3>3 DEF HeadsOf
    <3>5. j \in h + 1..Len(got)  BY <3>1, <3>2, <3>4, <2>2, <2>3, <1>6
    <3> QED  BY <3>4, <3>5, <1>7 DEF LastHeadIs
  <2>4. LastHeadIs(s, h)  BY <2>1, <2>3 DEF LastHeadIs
  <2>5. Stored(w.fs, s[h][4]) /\ w.nc.file = NoFile  BY <2>1, <2>2, <2>4, <1>7, <1>w
  <2>6. v.fs = w.fs  BY <2>1, <2>5, <1>w
  <2>7. v.nc.file = NoFile  BY GoneIs
  <2> QED  BY <2>2, <2>5, <2>6, <2>7
<1> QED  BY <1>2, <1>7 DEF Held

(* MG_EV_CLOSE: while a request is in the buffer, an answer is missing.     *)
LEMMA CloseHeld ==
  ASSUME NEW w, NEW got, IsSeq(got), NEW asked \in Nat, ServerInv(w, got, asked), w.nc.open,
         NEW x, Waiting(w, x, Stream(w, got), asked), Held(w, got, asked),
         NEW i, HeadEnd(w.nc.recv) # 0 /\ NeedsPartner(w, Parsed(w.nc.recv)) => i \in Partners
  PROVE  Held(HttpClose(w, i), got, asked)
<1> DEFINE v == HttpClose(w, i)
           s == Stream(w, got)
<1>1. v.nc = GoneConn /\ (HeadEnd(w.nc.recv) = 0 /\ w.nc.file = NoFile => v.fs = w.fs)  BY CloseSound
<1> HIDE DEF v
<1>2. Shape(w) /\ Cardinality(HeadsOf(s)) <= asked  BY DEF ServerInv, Counted
<1>3. Cardinality(HeadsOf(s)) = asked => HeadEnd(w.nc.recv) = 0
  <2> SUFFICES ASSUME Cardinality(HeadsOf(s)) = asked, HeadEnd(w.nc.recv) # 0  PROVE FALSE
    OBVIOUS
  <2>1. HeadEnd(w.nc.recv) \in Requests(w.nc.recv)  BY <1>2, HeadEndIs DEF Shape
  <2>2. Cardinality(HeadsOf(s)) < asked  BY <2>1 DEF Waiting
  <2> QED  BY <2>2
<1>4. Cardinality(HeadsOf(s)) = asked /\ w.nc.file = NoFile => v.fs = w.fs  BY <1>1, <1>3
<1>5. Held(v, got, asked)  BY <1>1, <1>2, <1>4, GoneHeld
<1> QED  BY <1>5 DEF v

-----------------------------------------------------------------------------
(* No partner says that a file was stored.                                 *)
LEMMA ForwardQuiet ==
  ASSUME NEW w, Shape(w), NEW i \in Partners, NEW t, IsRest(t)
  PROVE  Quiet(w, [mg_send(w, t) EXCEPT !.part[i].recv = <<>>])
<1> DEFINE x == mg_send(w, t)
           p == [x.part[i] EXCEPT !.recv = <<>>]
           v == [x EXCEPT !.part[i].recv = <<>>]
<1>1. Silent(t)  BY SilentRest
<1>2. Quiet(w, x)  BY <1>1, QuietSend
<1> HIDE DEF x
<1>3. Shape(x)  BY <1>2 DEF Quiet
<1>4. v = [x EXCEPT !.part[i] = p] /\ PartOK(p)  BY <1>3, PartRecvIs
<1> HIDE DEF p
<1>5. Quiet(x, [x EXCEPT !.part[i] = p])  BY <1>3, <1>4, QuietPart
<1>6. Quiet(x, v)  BY <1>4, <1>5
<1> HIDE DEF v
<1>7. Quiet(w, v)  BY <1>2, <1>6, QuietTwice
<1> QED  BY <1>7 DEF v, x

LEMMA HeadersReadQuiet ==
  ASSUME NEW w, Shape(w)
  PROVE  Quiet(w, HeadersRead(w))
<1> DEFINE v == [w EXCEPT !.nc.flags = @ \ {"parse_headers"}]
<1>1. Shape(v) /\ v.fs = w.fs /\ v.nc.file = w.nc.file /\ v.nc.send = w.nc.send
  <2>1. /\ Shape(v) /\ v.fs = w.fs /\ v.err = w.err /\ v.part = w.part /\ v.nc.flags = w.nc.flags \ {"parse_headers"}
        /\ v.nc.open = w.nc.open /\ v.nc.recv = w.nc.recv /\ v.nc.file = w.nc.file
        /\ v.nc.cgi = w.nc.cgi /\ v.nc.linked = w.nc.linked /\ v.nc.send = w.nc.send
    BY FlagsCut
  <2> HIDE DEF v
  <2> QED  BY <2>1
<1> HIDE DEF v
<1>2. Quiet(w, v)  BY <1>1, QuietSame
<1> QED  BY <1>2 DEF v, HeadersRead

(* An answer that lasts until the connection is closed.                    *)
LEMMA OpenHeadSilent ==
  ASSUME NEW x, x[3] = UntilClose
  PROVE  Silent(<<x>>) /\ \A y : y[1] # "head" => Silent(<<x, y>>)
<1>1. ~IsPutReply(x)  BY DEF IsPutReply, UntilClose
<1>2. IsSeq(<<x>>) /\ Len(<<x>>) = 1 /\ <<x>>[1] = x  BY OneSeq
<1>3. Silent(<<x>>)  BY <1>1, <1>2 DEF Silent
<1>4. ASSUME NEW y, y[1] # "head"  PROVE Silent(<<x, y>>)
  <2>1. IsSeq(<<x, y>>) /\ Len(<<x, y>>) = 2 /\ <<x, y>>[1] = x /\ <<x, y>>[2] = y  BY TwoSeq
  <2>2. ~IsPutReply(y)  BY <1>4 DEF IsPutReply
  <2>3. \A k \in 1..2 : k = 1 \/ k = 2  OBVIOUS
  <2> QED  BY <2>1, <2>2, <2>3, <1>1 DEF Silent
<1> QED  BY <1>3, <1>4

LEMMA CgiRecvQuiet ==
  ASSUME NEW w, Shape(w), NEW i \in Partners
  PROVE  Quiet(w, CgiRecv(w, i))
<1> DEFINE said == w.part[i].recv
           n == Len(said)
           t == [k \in 1..n |-> <<"text", said[k], i>>]
           forward(x) == [mg_send(x, t) EXCEPT !.part[i].recv = <<>>]
           bad == "bad" \in {said[k] : k \in 1..n}
           blank == "blank" \in {said[k] : k \in 1..n}
           s0 == mg_send(w, <<<<"head", 200, UntilClose, None, None, 0>>>>)
           e0 == mg_http_send_error(w, [name |-> None], 500)
           y0 == PartFlag(e0, i, "close_immediately")
           v == CgiRecv(w, i)
<1>1. IsRest(t)
  <2>1. n \in Nat
    <3>1. IsSeq(said)  BY DEF Shape
    <3> QED  BY <3>1, SeqLen
  <2> HIDE DEF n, said
  <2>2. t = [k \in 1..n |-> t[k]]  OBVIOUS
  <2>3. \A k \in 1..n : t[k][1] = "text"  OBVIOUS
  <2> HIDE DEF t
  <2>4. IsSeq(t) /\ Len(t) = n  BY <2>1, <2>2, Counting
  <2> QED  BY <2>3, <2>4 DEF IsRest
<1>2. v = IF ~w.part[i].link THEN PartFlag(w, i, "close_immediately")
          ELSE IF ~w.nc.open THEN Lost(w)
          ELSE IF "parse_headers" \notin w.nc.flags THEN forward(w)
          ELSE IF bad THEN forward(HeadersRead(y0))
          ELSE IF blank THEN forward(HeadersRead(s0)) ELSE w
  BY DEF CgiRecv, HeadersRead
<1> HIDE DEF v, bad, blank, t
<1>3. ASSUME NEW x, Quiet(w, x)  PROVE Quiet(w, forward(x))
  <2>1. Shape(x)  BY <1>3 DEF Quiet
  <2>2. Quiet(x, forward(x))
    <3>1. \A z : Shape(z) => Quiet(z, [mg_send(z, t) EXCEPT !.part[i].recv = <<>>])
      BY <1>1, ForwardQuiet
    <3> QED  BY <3>1, <2>1
  <2> HIDE DEF forward
  <2> QED  BY <2>1, <2>2, <1>3, QuietTwice
<1> HIDE DEF forward
<1>4. Quiet(w, PartFlag(w, i, "close_immediately"))  BY QuietPartFlag
<1>5. Quiet(w, Lost(w))  BY QuietLost
<1>6. Quiet(w, w)  BY QuietSame
<1>7. Quiet(w, HeadersRead(y0))
  <2>1. Quiet(w, e0)  BY QuietError
  <2> HIDE DEF e0
  <2>2. Shape(e0)  BY <2>1 DEF Quiet
  <2>3. Quiet(e0, y0)  BY <2>2, QuietPartFlag
  <2> HIDE DEF y0
  <2>4. Shape(y0)  BY <2>3 DEF Quiet
  <2>5. Quiet(y0, HeadersRead(y0))  BY <2>4, HeadersReadQuiet
  <2>6. Quiet(w, y0)  BY <2>1, <2>3, QuietTwice
  <2> QED  BY <2>5, <2>6, QuietTwice
<1>8. Quiet(w, HeadersRead(s0))
  <2> DEFINE head == <<"head", 200, UntilClose, None, None, 0>>
  <2>1. head[3] = UntilClose /\ s0 = mg_send(w, <<head>>)  OBVIOUS
  <2> HIDE DEF head, s0
  <2>2. Silent(<<head>>)  BY <2>1, OpenHeadSilent
  <2>3. Quiet(w, s0)  BY <2>1, <2>2, QuietSend
  <2>4. Shape(s0)  BY <2>3 DEF Quiet
  <2>5. Quiet(s0, HeadersRead(s0))  BY <2>4, HeadersReadQuiet
  <2> QED  BY <2>3, <2>5, QuietTwice
<1> HIDE DEF y0, s0
<1>9. Quiet(w, v)  BY <1>2, <1>3, <1>4, <1>5, <1>6, <1>7, <1>8
<1> QED  BY <1>9 DEF v

LEMMA RepliedQuiet ==
  ASSUME NEW w, Shape(w), NEW i \in Partners
  PROVE  Quiet(w, Replied(w, i))
<1> DEFINE p == [w.part[i] EXCEPT !.said = 2]
           y == [w EXCEPT !.part[i].said = 2]
           head == <<"head", 200, UntilClose, None, None, 0>>
           text == <<"text", "reply", i>>
           a == mg_send(y, <<head, text>>)
           b == Flag(a, "send_and_close")
           c == PartFlag(b, i, "close_immediately")
           v == Replied(w, i)
<1>1. v = IF ~w.part[i].link THEN y ELSE IF ~w.nc.open THEN Lost(y) ELSE c
  BY DEF Replied
<1>2. y = [w EXCEPT !.part[i] = p] /\ PartOK(p)  BY PartSaidIs
<1>3. head[3] = UntilClose /\ text[1] # "head"  OBVIOUS
<1> HIDE DEF v, p, head, text
<1>4. Quiet(w, [w EXCEPT !.part[i] = p])  BY <1>2, QuietPart
<1>5. Quiet(w, y)  BY <1>2, <1>4
<1> HIDE DEF y
<1>6. Shape(y)  BY <1>5 DEF Quiet
<1>7. Quiet(w, Lost(y))
  <2>1. Quiet(y, Lost(y))  BY <1>6, QuietLost
  <2> QED  BY <2>1, <1>5, QuietTwice
<1>8. Quiet(w, c)
  <2>1. Silent(<<head, text>>)  BY <1>3, OpenHeadSilent
  <2>2. Quiet(y, a)  BY <2>1, <1>6, QuietSend
  <2> HIDE DEF a
  <2>3. Shape(a)  BY <2>2 DEF Quiet
  <2>4. Quiet(a, b)  BY <2>3, QuietFlag
  <2> HIDE DEF b
  <2>5. Shape(b)  BY <2>4 DEF Quiet
  <2>6. Quiet(b, c)  BY <2>5, QuietPartFlag
  <2> HIDE DEF c
  <2>7. Quiet(w, a)  BY <2>2, <1>5, QuietTwice
  <2>8. Quiet(w, b)  BY <2>4, <2>7, QuietTwice
  <2> QED  BY <2>6, <2>8, QuietTwice
<1> HIDE DEF c
<1>9. Quiet(w, v)  BY <1>1, <1>5, <1>7, <1>8
<1> QED  BY <1>9 DEF v

LEMMA GoneQuiet ==
  ASSUME NEW w, Shape(w), NEW i \in Partners
  PROVE  Quiet(w, Gone(w, i))
<1> DEFINE p == [NoPartner EXCEPT !.kind = w.part[i].kind]
<1>1. PartOK(p)  BY GoneIsOK
<1>2. Gone(w, i) = [w EXCEPT !.part[i] = p]  BY DEF Gone
<1> HIDE DEF p
<1>3. Quiet(w, [w EXCEPT !.part[i] = p])  BY <1>1, QuietPart
<1> QED  BY <1>2, <1>3

LEMMA CgiClosesQuiet ==
  ASSUME NEW w, Shape(w), NEW i \in Partners
  PROVE  Quiet(w, CgiCloses(w, i))
<1> DEFINE a == mg_http_free_proto_data_cgi(w)
           b == Flag(a, "send_and_close")
           v == CgiCloses(w, i)
<1>1. v = IF ~w.part[i].link THEN Gone(w, i) ELSE IF ~w.nc.open THEN Lost(w) ELSE Gone(b, i)
  BY DEF CgiCloses
<1> HIDE DEF v
<1>2. Quiet(w, Gone(w, i)) /\ Quiet(w, Lost(w))  BY GoneQuiet, QuietLost
<1>3. Shape(a) /\ a.fs = w.fs /\ a.nc.file = w.nc.file /\ a.nc.send = w.nc.send  BY FreeCgi
<1> HIDE DEF a
<1>4. Quiet(w, a)  BY <1>3, QuietSame
<1>5. Quiet(a, b)  BY <1>3, QuietFlag
<1> HIDE DEF b
<1>6. Quiet(w, b) /\ Shape(b)
  <2>1. Quiet(w, b)  BY <1>4, <1>5, QuietTwice
  <2> QED  BY <2>1 DEF Quiet
<1>7. Quiet(b, Gone(b, i))  BY <1>6, GoneQuiet
<1>8. Quiet(w, Gone(b, i))  BY <1>6, <1>7, QuietTwice
<1>9. Quiet(w, v)  BY <1>1, <1>2, <1>8
<1> QED  BY <1>9 DEF v

LEMMA BackendClosesQuiet ==
  ASSUME NEW w, Shape(w), NEW i \in Partners
  PROVE  Quiet(w, BackendCloses(w, i))
<1> DEFINE a == Flag(w, "send_and_close")
           b == PartFlag(a, w.nc.linked, "send_and_close")
           c == IF w.nc.linked = 0 THEN a ELSE [b EXCEPT !.nc.linked = 0]
           v == BackendCloses(w, i)
<1>1. v = IF ~w.part[i].link THEN Gone(w, i) ELSE IF ~w.nc.open THEN Lost(w) ELSE Gone(c, i)
  BY DEF BackendCloses
<1> HIDE DEF v
<1>2. Quiet(w, Gone(w, i)) /\ Quiet(w, Lost(w))  BY GoneQuiet, QuietLost
<1>3. Quiet(w, a)  BY QuietFlag
<1>4. Shape(a)  BY <1>3 DEF Quiet
<1> HIDE DEF a
<1>5. Quiet(w, c)
  <2>1. CASE w.nc.linked = 0  BY <2>1, <1>3
  <2>2. CASE w.nc.linked # 0
    <3>1. w.nc.linked \in Partners  BY <2>2 DEF Shape
    <3>2. Quiet(a, b)  BY <3>1, <1>4, QuietPartFlag
    <3> HIDE DEF b
    <3>3. Shape(b)  BY <3>2 DEF Quiet
    <3>4. c = [b EXCEPT !.nc.linked = 0]  BY <2>2
    <3> HIDE DEF c
    <3>5. Shape(c) /\ c.fs = b.fs /\ c.nc.file = b.nc.file /\ c.nc.send = b.nc.send  BY <3>3, <3>4, LinkedSet
    <3>6. Quiet(b, c)  BY <3>3, <3>5, QuietSame
    <3>7. Quiet(w, b)  BY <3>2, <1>3, QuietTwice
    <3> QED  BY <3>6, <3>7, QuietTwice
  <2> QED  BY <2>1, <2>2
<1> HIDE DEF c
<1>6. Shape(c)  BY <1>5 DEF Quiet
<1>7. Quiet(c, Gone(c, i))  BY <1>6, GoneQuiet
<1>8. Quiet(w, Gone(c, i))  BY <1>5, <1>7, QuietTwice
<1>9. Quiet(w, v)  BY <1>1, <1>2, <1>8
<1> QED  BY <1>9 DEF v

LEMMA PartnerStepQuiet ==
  ASSUME NEW i \in Partners, PartnerStep(i), Shape(srv)
  PROVE  Quiet(srv, srv') /\ client' = client /\ cuts' = cuts
<1>1. CASE CgiSays(i)
  <2>1. PICK x \in {"piece", "blank", "bad"} :
          srv' = CgiRecv([srv EXCEPT !.part[i].recv = Append(@, x), !.part[i].said = @ + 1], i)
    BY <1>1 DEF CgiSays
  <2> DEFINE y == [srv EXCEPT !.part[i].recv = Append(@, x), !.part[i].said = @ + 1]
             p == [srv.part[i] EXCEPT !.recv = Append(@, x), !.said = @ + 1]
  <2>2. /\ y = [srv EXCEPT !.part[i] = p]
        /\ PartOK(p) /\ p.flags = srv.part[i].flags
        /\ p.link = srv.part[i].link /\ p.open = srv.part[i].open /\ p.kind = srv.part[i].kind
        /\ srv.part[i].said <= p.said
    BY PartMoreIs
  <2>3. srv' = CgiRecv(y, i)  BY <2>1
  <2> HIDE DEF p, y
  <2>4. Quiet(srv, [srv EXCEPT !.part[i] = p])  BY <2>2, QuietPart
  <2>5. Quiet(srv, y) /\ Shape(y)  BY <2>2, <2>4 DEF Quiet
  <2>6. Quiet(y, CgiRecv(y, i))  BY <2>5, CgiRecvQuiet
  <2>7. Quiet(srv, srv')  BY <2>3, <2>5, <2>6, QuietTwice
  <2> QED  BY <2>7, <1>1 DEF CgiSays
<1>2. CASE CgiEnds(i)
  <2>1. srv' = PartFlag(srv, i, "close_immediately")  BY <1>2 DEF CgiEnds
  <2>2. Quiet(srv, srv')  BY <2>1, QuietPartFlag
  <2> QED  BY <2>2, <1>2 DEF CgiEnds
<1>3. CASE BackendFails(i)
  <2> DEFINE y == PartFlag(srv, i, "close_immediately")
             e == mg_http_send_error(y, [name |-> None], 502)
  <2>1. srv' = IF ~srv.part[i].link THEN y ELSE IF ~srv.nc.open THEN Lost(y) ELSE e
    BY <1>3 DEF BackendFails
  <2>2. Quiet(srv, y)  BY QuietPartFlag
  <2>3. Shape(y)  BY <2>2 DEF Quiet
  <2> HIDE DEF y
  <2>4. Quiet(y, Lost(y)) /\ Quiet(y, e)  BY <2>3, QuietLost, QuietError
  <2> HIDE DEF e
  <2>5. Quiet(srv, Lost(y)) /\ Quiet(srv, e)  BY <2>2, <2>4, QuietTwice
  <2>6. Quiet(srv, srv')  BY <2>1, <2>2, <2>5
  <2> QED  BY <2>6, <1>3 DEF BackendFails
<1>4. CASE BackendConnects(i)
  <2> DEFINE p == [srv.part[i] EXCEPT !.said = 1]
  <2>1. srv' = [srv EXCEPT !.part[i].said = 1]  BY <1>4 DEF BackendConnects
  <2>2. [srv EXCEPT !.part[i].said = 1] = [srv EXCEPT !.part[i] = p] /\ PartOK(p)  BY PartSaidIs, 1 \in Nat
  <2> HIDE DEF p
  <2>3. Quiet(srv, [srv EXCEPT !.part[i] = p])  BY <2>2, QuietPart
  <2>4. Quiet(srv, srv')  BY <2>1, <2>2, <2>3
  <2> QED  BY <2>4, <1>4 DEF BackendConnects
<1>5. CASE BackendReplies(i)
  <2>1. srv' = Replied(srv, i)  BY <1>5 DEF BackendReplies, Replied
  <2>2. Quiet(srv, srv')  BY <2>1, RepliedQuiet
  <2> QED  BY <2>2, <1>5 DEF BackendReplies
<1>6. CASE BackendEnds(i)
  <2>1. srv' = PartFlag(srv, i, "close_immediately")  BY <1>6 DEF BackendEnds
  <2>2. Quiet(srv, srv')  BY <2>1, QuietPartFlag
  <2> QED  BY <2>2, <1>6 DEF BackendEnds
<1>7. CASE ClosePartner(i)
  <2>1. srv' = CgiCloses(srv, i) \/ srv' = BackendCloses(srv, i)  BY <1>7 DEF ClosePartner
  <2>2. Quiet(srv, CgiCloses(srv, i)) /\ Quiet(srv, BackendCloses(srv, i))
    BY CgiClosesQuiet, BackendClosesQuiet
  <2>3. Quiet(srv, srv')  BY <2>1, <2>2
  <2> QED  BY <2>3, <1>7 DEF ClosePartner
<1> QED  BY <1>1, <1>2, <1>3, <1>4, <1>5, <1>6, <1>7 DEF PartnerStep

-----------------------------------------------------------------------------
(* What the last answer says was stored.                                   *)
LEMMA StoredIsHeld ==
  StoredInv <=> (~client.eager /\ cuts = 0 => Held(srv, client.got, client.asked))
BY DEF StoredInv, Held

LEMMA StoredIsHeldNext ==
  StoredInv' <=> (~client'.eager /\ cuts' = 0 => Held(srv', client'.got, client'.asked))
BY DEF StoredInv, Held, Stream

LEMMA StoredInit ==
  ASSUME Init
  PROVE  StoredInv
<1>1. srv.nc = NewConn
  BY DEF Init
<1>2. client.got = <<>>
  <2>1. PICK s \in Scripts, e \in BOOLEAN :
          client = [todo |-> s, wire |-> <<>>, got |-> <<>>, asked |-> 0, gone |-> FALSE, eager |-> e]
    BY DEF Init
  <2> QED  BY <2>1
<1>3. Stream(srv, client.got) = <<>>
  <2>1. <<>> \o <<>> = <<>>  BY Nothing, NoSeq
  <2> QED  BY <2>1, <1>1, <1>2, NewConnIs DEF Stream
<1>4. HeadsOf(<<>>) = {}  BY NothingSaid
<1> QED  BY <1>3, <1>4 DEF StoredInv

LEMMA StoredStep ==
  ASSUME FilesInv, StoredInv, cuts \in Nat, [Next]_vars
  PROVE  StoredInv' /\ cuts' \in Nat
<1> DEFINE got == client.got
           asked == client.asked
<1>0. cuts' = cuts \/ cuts' = cuts + 1
  BY DEF Next, vars, ClientSends, ClientLeaves, Cut, Recv, SendOut, Poll, Eof, CloseClient, PartnerStep,
         CgiSays, CgiEnds, BackendFails, BackendConnects, BackendReplies, BackendEnds, ClosePartner
<1>1. cuts' \in Nat  BY <1>0
<1>2. client.eager \in BOOLEAN /\ client'.eager = client.eager
  <2>1. DOMAIN client = {"todo", "wire", "got", "asked", "gone", "eager"} /\ client.eager \in BOOLEAN
    BY DEF FilesInv, ClientShape
  <2>2. CASE client' = client  BY <2>1, <2>2
  <2>3. CASE ClientSends  BY <2>1, <2>3 DEF ClientSends
  <2>4. CASE ClientLeaves  BY <2>1, <2>4 DEF ClientLeaves
  <2>5. CASE Recv  BY <2>1, <2>5 DEF Recv
  <2>6. CASE SendOut  BY <2>1, <2>6 DEF SendOut
  <2>7. client' = client \/ ClientSends \/ ClientLeaves \/ Recv \/ SendOut
    BY DEF Next, vars, Cut, Poll, Eof, CloseClient, PartnerStep,
           CgiSays, CgiEnds, BackendFails, BackendConnects, BackendReplies, BackendEnds, ClosePartner
  <2> QED  BY <2>1, <2>2, <2>3, <2>4, <2>5, <2>6, <2>7
<1> SUFFICES ASSUME ~client.eager, cuts' = 0  PROVE Held(srv', client'.got, client'.asked)
  BY <1>1, <1>2, StoredIsHeldNext
<1>3. cuts = 0
  <2>1. cuts' = 0 /\ cuts \in Nat  OBVIOUS
  <2> QED  BY <2>1, <1>0
<1>4. /\ ServerInv(srv, got, asked) /\ Waiting(srv, client.wire, Stream(srv, got), asked)
      /\ ClientShape(client) /\ IsSeq(got) /\ asked \in Nat
      /\ Held(srv, got, asked) /\ Shape(srv) /\ FileOK(srv)
      /\ DOMAIN client = {"todo", "wire", "got", "asked", "gone", "eager"}
  BY <1>3, StoredIsHeld DEF FilesInv, ClientShape, ServerInv
<1>q. ASSUME Quiet(srv, srv'), client'.got = got, client'.asked = asked
      PROVE  Held(srv', client'.got, client'.asked)
  BY <1>q, <1>4, QuietHeld
<1>5. CASE ClientSends
  <2>1. client' = [client EXCEPT !.todo = Tail(@), !.wire = @ \o Units(client.todo[1]), !.asked = @ + 1]
        /\ srv' = srv
    BY <1>5 DEF ClientSends
  <2>2. client'.asked = asked + 1 /\ client'.got = got  BY <2>1, <1>4
  <2>3. IsSeq(Stream(srv, got))
    <3>1. IsSeq(srv.nc.send)  BY <1>4 DEF Shape
    <3> QED  BY <3>1, <1>4, Joined DEF Stream
  <2>4. Cardinality(HeadsOf(Stream(srv, got))) < asked + 1 /\ asked + 1 \in Nat
    <3>1. Cardinality(HeadsOf(Stream(srv, got))) \in Nat  BY <2>3, HeadsFinite
    <3>2. Cardinality(HeadsOf(Stream(srv, got))) <= asked  BY <1>4 DEF ServerInv, Counted
    <3> QED  BY <3>1, <3>2, <1>4
  <2>5. Held(srv, got, asked + 1)  BY <2>3, <2>4, HeldWaits
  <2> QED  BY <2>1, <2>2, <2>5
<1>6. CASE ClientLeaves
  <2>1. client' = [client EXCEPT !.gone = TRUE] /\ srv' = srv  BY <1>6 DEF ClientLeaves
  <2>2. client'.asked = asked /\ client'.got = got  BY <2>1, <1>4
  <2> QED  BY <2>1, <2>2, <1>4
<1>7. CASE Cut
  <2>1. cuts' = cuts + 1  BY <1>7 DEF Cut
  <2>2. cuts' = 0 /\ cuts = 0  BY <1>3
  <2> QED  BY <2>1, <2>2
<1>8. CASE Recv
  <2>1. /\ Alive /\ client.wire # <<>> /\ WithinBound(srv.nc.recv \o client.wire)
        /\ srv' = HttpRecv(srv, client.wire, NextPartner)
        /\ client' = [client EXCEPT !.wire = <<>>]
    BY <1>8 DEF Recv
  <2>2. client'.asked = asked /\ client'.got = got  BY <2>1, <1>4
  <2>3. PICK q \in DOMAIN Request : client.wire = Units(q)  BY <2>1, <1>4 DEF ClientShape
  <2>4. ServerInv(srv, got, asked) /\ Waiting(srv, Units(q), Stream(srv, got), asked) /\ srv.nc.open
    BY <2>3, <2>1, <1>4 DEF Alive
  <2>5. HeadEnd(srv.nc.recv \o Units(q)) # 0
    <3>1. Requests(srv.nc.recv) = {}  BY <2>1, <2>3, <2>4 DEF Waiting
    <3>2. srv.nc.recv \in Buffers  BY <1>4 DEF Shape, Buffers
    <3>3. HeadEnd(srv.nc.recv \o Units(q)) = Len(srv.nc.recv) + 1  BY <3>1, <3>2, BufferJoined
    <3>4. Len(srv.nc.recv) \in Nat  BY <3>2, SeqIn DEF Buffers
    <3> QED  BY <3>3, <3>4
  <2>6. NeedsPartner(srv, Parsed(srv.nc.recv \o Units(q))) => NextPartner \in Partners
    BY <2>1, <2>3, <2>5, NextPartnerIs
  <2> DEFINE v == HttpRecv(srv, Units(q), NextPartner)
  <2>7. Held(v, got, asked)  BY <2>4, <2>6, <1>4, RecvSound
  <2>8. srv' = v  BY <2>1, <2>3
  <2> HIDE DEF v
  <2> QED  BY <2>2, <2>7, <2>8
<1>9. CASE SendOut
  <2>1. PICK n \in {1, Len(srv.nc.send)} :
          /\ n <= Len(srv.nc.send) /\ n > 0
          /\ client' = [client EXCEPT !.got = @ \o SubSeq(srv.nc.send, 1, n)]
          /\ srv' = Transferred([srv EXCEPT !.nc.send = mbuf_remove(@, n)])
    BY <1>9 DEF SendOut
  <2>2. client'.asked = asked /\ client'.got = got \o SubSeq(srv.nc.send, 1, n)  BY <2>1, <1>4
  <2>3. n \in 1..Len(srv.nc.send)
    <3>1. IsSeq(srv.nc.send)  BY <1>4 DEF Shape
    <3>2. Len(srv.nc.send) \in Nat  BY <3>1, SeqLen
    <3> QED  BY <3>2, <2>1
  <2> DEFINE to == got \o SubSeq(srv.nc.send, 1, n)
             v == Transferred([srv EXCEPT !.nc.send = mbuf_remove(@, n)])
  <2>4. Held(v, to, asked)  BY <2>3, <1>4, SendOutHeld
  <2>5. srv' = v /\ client'.got = to  BY <2>1, <2>2
  <2> HIDE DEF v, to
  <2> QED  BY <2>2, <2>4, <2>5
<1>10. CASE Poll
  <2>1. srv' = Transferred(srv) /\ client' = client  BY <1>10 DEF Poll
  <2>2. Quiet(srv, srv')  BY <2>1, <1>4, TransferredQuiet
  <2> QED  BY <2>1, <2>2, <1>q
<1>11. CASE Eof
  <2>1. srv' = Flag(srv, "close_immediately") /\ client' = client  BY <1>11 DEF Eof
  <2>2. Quiet(srv, srv')  BY <2>1, <1>4, QuietFlag
  <2> QED  BY <2>1, <2>2, <1>q
<1>12. CASE CloseClient
  <2>1. /\ Alive /\ WithinBound(srv.nc.recv) /\ srv' = HttpClose(srv, NextPartner) /\ client' = client
    BY <1>12 DEF CloseClient
  <2>2. HeadEnd(srv.nc.recv) # 0 /\ NeedsPartner(srv, Parsed(srv.nc.recv)) => NextPartner \in Partners
    BY <2>1, NextPartnerIs
  <2>3. srv.nc.open  BY <2>1 DEF Alive
  <2> DEFINE v == HttpClose(srv, NextPartner)
  <2>4. Held(v, got, asked)  BY <2>2, <2>3, <1>4, CloseHeld
  <2>5. srv' = v  BY <2>1
  <2> HIDE DEF v
  <2> QED  BY <2>1, <2>4, <2>5
<1>13. ASSUME NEW i \in Partners, PartnerStep(i)  PROVE Held(srv', client'.got, client'.asked)
  <2>1. Quiet(srv, srv') /\ client' = client  BY <1>13, <1>4, PartnerStepQuiet
  <2> QED  BY <2>1, <1>q
<1>14. CASE UNCHANGED vars
  <2>1. srv' = srv /\ client' = client  BY <1>14 DEF vars
  <2> QED  BY <2>1, <1>4
<1> QED  BY <1>5, <1>6, <1>7, <1>8, <1>9, <1>10, <1>11, <1>12, <1>13, <1>14 DEF Next

(* Whatever a client that waits for each answer is told was stored is its  *)
(* own file, whole, and nothing is written before its next request, as     *)
(* long as no file is cut.                                                 *)
THEOREM StoredInvHolds == Spec => []StoredInv
<1> DEFINE I == FilesInv /\ StoredInv /\ cuts \in Nat
<1>1. Init => I
  <2>1. Init => cuts \in Nat  BY DEF Init
  <2> QED  BY <2>1, InitSound, StoredInit
<1>2. I /\ [Next]_vars => I'  BY FilesStep, StoredStep
<1>3. I => StoredInv  OBVIOUS
<1> HIDE DEF I
<1> QED  BY <1>1, <1>2, <1>3, PTL DEF Spec

LEMMA PutsStored ==
  ASSUME FilesInv, StoredInv
  PROVE  PutStored
<1> SUFFICES ASSUME ~client.eager, cuts = 0, Cardinality(Heads) = client.asked,
                    LastHead # 0, IsPutReply(client.got[LastHead])
             PROVE  Stored(srv.fs, client.got[LastHead][4])
  BY DEF PutStored
<1> DEFINE got == client.got
           s == Stream(srv, got)
           m == Len(got)
<1>1. IsSeq(got) /\ client.asked \in Nat /\ IsSeq(srv.nc.send) /\ Counted(srv, s, client.asked)
  BY DEF FilesInv, ClientShape, ServerInv, Shape
<1>2. Heads = HeadsOf(got)  BY DEF Heads, HeadsOf
<1>3. /\ Cardinality(HeadsOf(got)) <= Cardinality(HeadsOf(s))
      /\ Cardinality(HeadsOf(got)) = Cardinality(HeadsOf(s)) => HeadsOf(got) = HeadsOf(s)
      /\ \A k \in 1..m : s[k] = got[k]
  <2>1. \A t : IsSeq(t) =>
          /\ Cardinality(HeadsOf(got)) <= Cardinality(HeadsOf(got \o t))
          /\ Cardinality(HeadsOf(got)) = Cardinality(HeadsOf(got \o t)) => HeadsOf(got) = HeadsOf(got \o t)
          /\ \A k \in 1..Len(got) : (got \o t)[k] = got[k]
    BY <1>1, Arrived
  <2> QED  BY <2>1, <1>1 DEF Stream
<1>4. IsSeq(s)  BY <1>1, Joined DEF Stream
<1>6. m \in Nat /\ Len(s) \in Nat  BY <1>1, <1>4, SeqLen
<1>w. Cardinality(HeadsOf(s)) = client.asked =>
        \A h \in HeadsOf(s) :
          LastHeadIs(s, h) /\ IsPutReply(s[h]) => Stored(srv.fs, s[h][4]) /\ srv.nc.file = NoFile
  BY DEF StoredInv
<1>a. Cardinality(HeadsOf(got)) = client.asked  BY <1>2
<1> HIDE DEF s
<1>5. Cardinality(HeadsOf(s)) = client.asked /\ HeadsOf(s) = HeadsOf(got)
  <2>1. Cardinality(HeadsOf(s)) \in Nat  BY <1>4, HeadsFinite
  <2>2. Cardinality(HeadsOf(s)) <= client.asked  BY <1>1 DEF Counted
  <2> QED  BY <2>1, <2>2, <1>1, <1>3, <1>a
<1> DEFINE T == {0} \cup HeadsOf(got)
           h == LastHead
<1>7. h \in HeadsOf(got) /\ \A k \in HeadsOf(got) : h >= k
  <2>1. h = Max(T)  BY <1>2 DEF LastHead
  <2>2. T \subseteq 0..m /\ T # {}
    <3>1. HeadsOf(got) \subseteq 1..m  BY DEF HeadsOf
    <3> QED  BY <3>1, <1>6
  <2> HIDE DEF m
  <2>3. Max(T) \in T /\ \A k \in T : Max(T) >= k
    <3> HIDE DEF T
    <3> QED  BY <1>6, <2>2, MaxIn
  <2> QED  BY <2>1, <2>3
<1> HIDE DEF h
<1>8. h \in 1..m  BY <1>7 DEF HeadsOf
<1>9. ASSUME NEW j \in h + 1..Len(s), s[j][1] = "head"  PROVE FALSE
  <2>1. j \in 1..Len(s) /\ j > h  BY <1>6, <1>8
  <2>2. j \in HeadsOf(got)  BY <2>1, <1>5, <1>9 DEF HeadsOf
  <2> QED  BY <2>1, <2>2, <1>6, <1>7, <1>8
<1>10. LastHeadIs(s, h)  BY <1>5, <1>7, <1>9 DEF LastHeadIs
<1>11. s[h] = got[h]  BY <1>3, <1>8
<1>12. h \in HeadsOf(s) /\ IsPutReply(s[h])  BY <1>5, <1>7, <1>11 DEF h
<1>13. Stored(srv.fs, s[h][4])  BY <1>5, <1>10, <1>12, <1>w
<1> QED  BY <1>11, <1>13 DEF h

(* What a client that waits for each answer is sent is the range it asked  *)
(* for, and what it is told was stored is the file it sent, and nothing of *)
(* an older one (mg_http_serve_file, mg_handle_put,                        *)
(* mg_http_transfer_file_data).                                            *)
THEOREM FilesAsSentHolds == Spec => []FilesAsSent
<1>1. FilesInv /\ StoredInv => FilesAsSent  BY RangesAsAsked, PutsStored DEF FilesAsSent
<1> QED  BY <1>1, FilesInvHolds, StoredInvHolds, PTL
=============================================================================
