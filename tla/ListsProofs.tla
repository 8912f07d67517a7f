---------------------------- MODULE ListsProofs ------------------------------
(***************************************************************************)
(* For every set of variables and numbers, and any number of cells and     *)
(* expressions: no chain of cells is a ring, the operators return what     *)
(* they are meant to, and nobody's list loses or changes an element.       *)
(***************************************************************************)
EXTENDS Lists, SequenceTheorems, WellFoundedInduction, TLAPS

-----------------------------------------------------------------------------
(* Induction, from the least element of a set of numbers.                  *)
LEMMA LeastElement ==
  ASSUME NEW T, T \subseteq Nat, T # {}
  PROVE  \E n \in T : \A m \in T : n <= m
<1> DEFINE R == {ss \in Nat \X Nat : ss[1] < ss[2]}
<1>1. IsWellFoundedOn(R, Nat)
  BY NatLessThanWellFounded DEF OpToRel
<1> HIDE DEF R
<1>2. PICK n \in T : \A m \in T : ~ (<<m, n>> \in R)
  BY <1>1, WFMin
<1>3. ASSUME NEW m \in T PROVE n <= m
  <2>1. m \in Nat /\ n \in Nat
    OBVIOUS
  <2>2. m < n => <<m, n>> \in R
    BY <2>1 DEF R
  <2> QED BY <1>2, <2>1, <2>2
<1> QED BY <1>3

LEMMA SetInduction ==
  ASSUME NEW S, 0 \in S, \A n \in Nat : n \in S => n + 1 \in S
  PROVE  Nat \subseteq S
<1>1. SUFFICES ASSUME Nat \ S # {} PROVE FALSE
  OBVIOUS
<1>2. PICK n \in Nat \ S : \A m \in Nat \ S : n <= m
  BY <1>1, LeastElement
<1>3. n # 0
  OBVIOUS
<1>4. n - 1 \in Nat /\ n - 1 \in S
  BY <1>2, <1>3
<1> QED BY <1>4, (n - 1) + 1 = n

-----------------------------------------------------------------------------
(* Paths. Chain finds the path from a cell to its end, the only one there  *)
(* is, when the cells can be numbered downwards.                           *)
Cdrs == [Cells -> Cells \cup {Nil}]

Ranks(d, r) ==
  r \in [Cells -> Cells] /\ \A c \in Cells : d[c] # Nil => r[d[c]] < r[c]

IsPath(d, c, t) ==
  /\ t \in Seq(Cells) /\ Len(t) >= 1 /\ t[1] = c /\ d[t[Len(t)]] = Nil
  /\ \A i \in 1..(Len(t) - 1) : d[t[i]] = t[i + 1]

LEMMA Constants ==
  /\ MaxCells \in Nat /\ MaxCells >= 1 /\ MaxOps \in Nat /\ Nil \notin Nat /\ Nil \notin Items
  /\ \A c \in Cells : c \in Nat /\ c # Nil /\ c <= MaxCells
  BY ListsAssumption DEF Cells

(* Sequences with the same elements are the same.                          *)
LEMMA SameSequence ==
  ASSUME NEW T, NEW s \in Seq(T), NEW u \in Seq(T), Len(s) = Len(u),
         \A i \in 1..Len(s) : s[i] = u[i]
  PROVE  s = u
  OBVIOUS

(* Numbers fall along a path: it visits no cell twice and is no longer     *)
(* than there are cells.                                                   *)
LEMMA PathFalls ==
  ASSUME NEW d \in Cdrs, NEW r, Ranks(d, r), NEW c, NEW t, IsPath(d, c, t)
  PROVE  /\ \A i, j \in 1..Len(t) : i < j => r[t[j]] < r[t[i]]
         /\ \A i, j \in 1..Len(t) : t[i] = t[j] => i = j
         /\ Len(t) <= MaxCells + 1
<1> USE DEF IsPath, Ranks
<1>1. \A i \in 1..Len(t) : t[i] \in Cells /\ r[t[i]] \in Nat /\ r[t[i]] <= MaxCells
  <2>1. \A x \in Cells : r[x] \in Nat /\ r[x] <= MaxCells
    BY Constants
  <2>2. \A i \in 1..Len(t) : t[i] \in Cells
    OBVIOUS
  <2> QED BY <2>1, <2>2
<1>2. ASSUME NEW i \in 1..(Len(t) - 1) PROVE r[t[i + 1]] < r[t[i]]
  <2>1. t[i] \in Cells /\ t[i + 1] \in Cells
    BY <1>1
  <2>2. d[t[i]] = t[i + 1] /\ d[t[i]] # Nil
    BY <2>1, Constants
  <2> QED BY <2>1, <2>2
<1> DEFINE S == {n \in Nat : \A i, j \in 1..Len(t) : j = i + n + 1 => r[t[j]] + n < r[t[i]]}
<1>3. 0 \in S
  BY <1>1, <1>2
<1>4. ASSUME NEW n \in Nat, n \in S PROVE n + 1 \in S
  <2>1. ASSUME NEW i \in 1..Len(t), NEW j \in 1..Len(t), j = i + (n + 1) + 1
        PROVE  r[t[j]] + (n + 1) < r[t[i]]
    <3>1. j - 1 \in 1..Len(t) /\ j - 1 = i + n + 1 /\ j - 1 \in 1..(Len(t) - 1)
      BY <2>1
    <3>2. r[t[j - 1]] + n < r[t[i]]
      BY <1>4, <3>1
    <3>3. r[t[j]] < r[t[j - 1]]
      BY <1>2, <3>1
    <3>4. r[t[i]] \in Nat /\ r[t[j]] \in Nat /\ r[t[j - 1]] \in Nat
      BY <1>1, <3>1
    <3>5. \A x, y, z, m \in Nat : x < y /\ y + m < z => x + (m + 1) < z
      OBVIOUS
    <3> QED BY ONLY <3>2, <3>3, <3>4, <3>5, n \in Nat
  <2> QED BY <2>1
<1> HIDE DEF S
<1>5. Nat \subseteq S
  BY <1>3, <1>4, SetInduction
<1>6. ASSUME NEW i \in 1..Len(t), NEW j \in 1..Len(t), i < j
      PROVE  r[t[j]] < r[t[i]] /\ r[t[j]] + ((j - i) - 1) < r[t[i]]
  <2>1. (j - i) - 1 \in Nat /\ j = i + ((j - i) - 1) + 1
    BY <1>6
  <2>2. r[t[j]] + ((j - i) - 1) < r[t[i]]
    BY <1>5, <2>1 DEF S
  <2> QED BY <1>1, <2>1, <2>2
<1>7. ASSUME NEW i \in 1..Len(t), NEW j \in 1..Len(t), t[i] = t[j] PROVE i = j
  <2>1. i < j \/ j < i \/ i = j
    OBVIOUS
  <2> QED BY <1>1, <1>6, <1>7, <2>1
<1>8. Len(t) <= MaxCells + 1
  <2>1. CASE Len(t) = 1
    BY <2>1, Constants
  <2>2. CASE Len(t) # 1
    <3>1. 1 \in 1..Len(t) /\ Len(t) \in 1..Len(t) /\ 1 < Len(t)
      <4>1. Len(t) \in Nat /\ Len(t) >= 1
        OBVIOUS
      <4>2. \A n \in Nat : n >= 1 /\ n # 1 => 1 \in 1..n /\ n \in 1..n /\ 1 < n
        OBVIOUS
      <4> QED BY ONLY <2>2, <4>1, <4>2
    <3>2. r[t[Len(t)]] + ((Len(t) - 1) - 1) < r[t[1]]
      BY <1>6, <3>1
    <3> QED BY <1>1, <3>1, <3>2, Constants
  <2> QED BY <2>1, <2>2
<1> QED BY <1>6, <1>7, <1>8

(* There is a path from every cell.                                        *)
LEMMA PathExists ==
  ASSUME NEW d \in Cdrs, NEW r, Ranks(d, r), NEW c \in Cells
  PROVE  \E t : IsPath(d, c, t)
<1> DEFINE S == {n \in Nat : \A x \in Cells : r[x] < n => \E t : IsPath(d, x, t)}
<1>1. \A x \in Cells : r[x] \in Nat
  BY Constants DEF Ranks
<1>2. 0 \in S
  BY <1>1
<1>3. ASSUME NEW n \in Nat, n \in S PROVE n + 1 \in S
  <2>1. ASSUME NEW x \in Cells, r[x] < n + 1 PROVE \E t : IsPath(d, x, t)
    <3>1. CASE d[x] = Nil
      <4>1. IsPath(d, x, <<x>>)
        BY <3>1 DEF IsPath
      <4> QED BY <4>1
    <3>2. CASE d[x] # Nil
      <4>1. d[x] \in Cells /\ r[d[x]] < n
        BY <1>1, <2>1, <3>2 DEF Ranks, Cdrs
      <4>2. PICK t : IsPath(d, d[x], t)
        BY <1>3, <4>1
      <4> DEFINE u == <<x>> \o t
      <4>3. t \in Seq(Cells) /\ Len(t) \in Nat /\ Len(t) >= 1
        BY <4>2 DEF IsPath
      <4>4. u \in Seq(Cells) /\ Len(u) = Len(t) + 1 /\ u[1] = x
        BY <4>3
      <4>5. \A i \in 1..Len(t) : u[i + 1] = t[i]
        BY <4>3
      <4> HIDE DEF u
      <4>6. ASSUME NEW i \in 1..(Len(u) - 1) PROVE d[u[i]] = u[i + 1]
        <5>1. CASE i = 1
          BY <4>2, <4>3, <4>4, <4>5, <5>1 DEF IsPath
        <5>2. CASE i # 1
          <6>1. i - 1 \in 1..(Len(t) - 1) /\ (i - 1) + 1 = i /\ i \in 1..Len(t)
            BY <4>3, <4>4, <5>2
          <6>2. u[i] = t[i - 1] /\ u[i + 1] = t[i]
            BY <4>3, <4>5, <6>1
          <6> QED BY <4>2, <6>1, <6>2 DEF IsPath
        <5> QED BY <5>1, <5>2
      <4>7. d[u[Len(u)]] = Nil
        <5>1. u[Len(t) + 1] = t[Len(t)]
          BY <4>3, <4>5
        <5> QED BY <4>2, <4>4, <5>1 DEF IsPath
      <4>8. IsPath(d, x, u)
        BY <4>3, <4>4, <4>6, <4>7 DEF IsPath
      <4> QED BY <4>8
    <3> QED BY <3>1, <3>2
  <2> QED BY <2>1
<1> HIDE DEF S
<1>4. r[c] + 1 \in S
  BY <1>1, <1>2, <1>3, SetInduction
<1> QED BY <1>1, <1>4 DEF S

(* What ChainIn computes, cell by cell.                                    *)
LEMMA PathIsChain ==
  ASSUME NEW d \in Cdrs, NEW c \in Cells, NEW t, IsPath(d, c, t), Len(t) <= MaxCells + 1
  PROVE  ChainIn(d, c) = t
<1> DEFINE longer == [u \in Seq(Cells) |-> IF d[Last(u)] = Nil THEN u ELSE Append(u, d[Last(u)])]
           Walk(s) == s = [k \in Cells |-> IF k = 0 THEN <<c>> ELSE longer[s[k - 1]]]
           s == CHOOSE s : Walk(s)
           h == [k \in Cells |-> IF k < Len(t) THEN SubSeq(t, 1, k + 1) ELSE t]
           g == [k \in Cells |-> IF k = 0 THEN <<c>> ELSE longer[h[k - 1]]]
<1>1. t \in Seq(Cells) /\ Len(t) \in Nat /\ Len(t) >= 1 /\ t[1] = c
  BY DEF IsPath
<1>2. ASSUME NEW k \in Cells PROVE h[k] = g[k]
  <2>1. CASE k = 0
    <3>1. h[k] = SubSeq(t, 1, 1) /\ g[k] = <<c>>
      BY <1>1, <2>1
    <3>2. SubSeq(t, 1, 1) = <<t[1]>>
      <4>1. /\ SubSeq(t, 1, 1) \in Seq(Cells) /\ Len(SubSeq(t, 1, 1)) = 1
            /\ SubSeq(t, 1, 1)[1] = t[1]
        BY <1>1
      <4>2. /\ <<t[1]>> \in Seq(Cells) /\ Len(<<t[1]>>) = 1
            /\ <<t[1]>>[1] = t[1]
        BY <1>1
      <4>3. \A i \in 1..1 : SubSeq(t, 1, 1)[i] = <<t[1]>>[i]
        BY <4>1, <4>2
      <4> QED BY ONLY <4>1, <4>2, <4>3, SameSequence
    <3> QED BY <1>1, <3>1, <3>2
  <2>2. CASE k # 0
    <3>1. k - 1 \in Cells /\ k \in Nat /\ k >= 1
      BY <2>2, Constants DEF Cells
    <3>2. CASE k < Len(t)
      <4>1. h[k - 1] = SubSeq(t, 1, k) /\ h[k] = SubSeq(t, 1, k + 1)
        BY <3>1, <3>2
      <4>2. Last(SubSeq(t, 1, k)) = t[k] /\ k \in 1..(Len(t) - 1)
        BY <1>1, <3>1, <3>2 DEF Last
      <4>3. d[t[k]] = t[k + 1] /\ t[k + 1] \in Cells /\ d[t[k]] # Nil
        <5>1. t[k + 1] \in Cells
          BY <1>1, <4>2
        <5> QED BY <4>2, <5>1, Constants DEF IsPath
      <4>4. Append(SubSeq(t, 1, k), t[k + 1]) = SubSeq(t, 1, k + 1) /\ SubSeq(t, 1, k) \in Seq(Cells)
        BY <1>1, <4>2
      <4> QED BY <2>2, <4>1, <4>2, <4>3, <4>4
    <3>3. CASE k = Len(t)
      <4>1. h[k - 1] = SubSeq(t, 1, k) /\ SubSeq(t, 1, k) = t /\ h[k] = t
        BY <1>1, <3>1, <3>3
      <4>2. Last(t) = t[k] /\ d[t[k]] = Nil
        BY <3>3 DEF Last, IsPath
      <4> QED BY <1>1, <2>2, <4>1, <4>2
    <3>4. CASE k > Len(t)
      <4>1. h[k - 1] = t /\ h[k] = t
        BY <1>1, <3>1, <3>4
      <4>2. d[Last(t)] = Nil
        BY DEF Last, IsPath
      <4> QED BY <1>1, <2>2, <4>1, <4>2
    <3> QED BY <1>1, <3>1, <3>2, <3>3, <3>4
  <2> QED BY <2>1, <2>2
<1>3. h = g
  BY <1>2
<1>4. Walk(h)
  BY <1>3
<1> HIDE DEF h, g, longer
<1> HIDE DEF Walk
<1>5. Walk(s)
  BY <1>4
<1> HIDE DEF s
<1> DEFINE S == {k \in Nat : k \in Cells => s[k] = h[k]}
<1>6. 0 \in S
  <2>1. 0 \in Cells
    BY Constants DEF Cells
  <2>2. s[0] = <<c>>
    BY <1>5, <2>1 DEF Walk
  <2>3. h[0] = <<c>>
    BY <1>4, <2>1 DEF Walk
  <2> QED BY <2>2, <2>3
<1>7. ASSUME NEW k \in Nat, k \in S PROVE k + 1 \in S
  <2>1. SUFFICES ASSUME k + 1 \in Cells PROVE s[k + 1] = h[k + 1]
    OBVIOUS
  <2>2. k \in Cells /\ (k + 1) - 1 = k /\ k + 1 # 0
    BY <2>1, Constants DEF Cells
  <2>3. s[k] = h[k]
    BY <1>7, <2>2
  <2>4. s[k + 1] = longer[s[k]]
    BY <1>5, <2>1, <2>2 DEF Walk
  <2>5. h[k + 1] = longer[h[k]]
    BY <1>4, <2>1, <2>2 DEF Walk
  <2> QED BY <2>3, <2>4, <2>5
<1> HIDE DEF S
<1>8. MaxCells \in Cells /\ MaxCells \in Nat
  BY Constants DEF Cells
<1>9. s[MaxCells] = h[MaxCells]
  <2>1. MaxCells \in S
    BY <1>6, <1>7, <1>8, SetInduction
  <2> QED BY <1>8, <2>1 DEF S
<1>10. h[MaxCells] = t
  <2>1. MaxCells < Len(t) => SubSeq(t, 1, MaxCells + 1) = t
    BY <1>1, <1>8
  <2> QED BY <1>8, <2>1 DEF h
<1>11. c # Nil
  BY Constants
<1> QED BY <1>9, <1>10, <1>11 DEF ChainIn, s, Walk, longer

LEMMA ChainIsPath ==
  ASSUME NEW d \in Cdrs, NEW r, Ranks(d, r), NEW c \in Cells
  PROVE  /\ IsPath(d, c, ChainIn(d, c))
         /\ \A t : IsPath(d, c, t) => ChainIn(d, c) = t
<1>1. ASSUME NEW t, IsPath(d, c, t) PROVE ChainIn(d, c) = t
  <2>1. Len(t) <= MaxCells + 1
    BY <1>1, PathFalls
  <2> QED BY <1>1, <2>1, PathIsChain
<1>2. PICK t : IsPath(d, c, t)
  BY PathExists
<1> QED BY <1>1, <1>2

LEMMA NoChain == \A d : ChainIn(d, Nil) = <<>>
  BY DEF ChainIn

LEMMA NextCdrs ==
  ASSUME TypeOK
  PROVE  cdr \in Cdrs /\ Ref \subseteq Cells /\ top \in Nat /\ NullVal \in Ref /\ Source \in Ref
  BY Constants DEF TypeOK, Cdrs, Ref, Cells, NullVal, Source

LEMMA HasRanks ==
  ASSUME TypeOK, Ranked
  PROVE  \E r \in [Cells -> Ref] : Ranks(cdr, r)
<1>1. PICK r \in [Cells -> Ref] : \A c \in Cells : cdr[c] # Nil => r[cdr[c]] < r[c]
  BY DEF Ranked
<1>2. Ranks(cdr, r)
  BY <1>1, NextCdrs DEF Ranks
<1> QED BY <1>2

(* The chain from a cell in use: it begins there, every cell leads to the  *)
(* next, the last one to none, and no cell is there twice.                 *)
LEMMA ChainFacts ==
  ASSUME TypeOK, Ranked, NEW c \in Ref
  PROVE  /\ Chain(c) \in Seq(Ref) /\ Len(Chain(c)) \in Nat /\ Len(Chain(c)) >= 1
         /\ Chain(c)[1] = c /\ cdr[Chain(c)[Len(Chain(c))]] = Nil
         /\ \A i \in 1..(Len(Chain(c)) - 1) : cdr[Chain(c)[i]] = Chain(c)[i + 1]
         /\ \A i, j \in 1..Len(Chain(c)) : Chain(c)[i] = Chain(c)[j] => i = j
         /\ IsPath(cdr, c, Chain(c))
<1> DEFINE t == Chain(c)
<1>1. cdr \in Cdrs /\ Ref \subseteq Cells /\ c \in Cells
  BY NextCdrs
<1>2. PICK r : Ranks(cdr, r)
  BY HasRanks
<1>3. IsPath(cdr, c, t)
  BY <1>1, <1>2, ChainIsPath DEF Chain
<1>4. \A i, j \in 1..Len(t) : t[i] = t[j] => i = j
  BY <1>1, <1>2, <1>3, PathFalls
<1> HIDE DEF t
<1>5. t \in Seq(Cells) /\ Len(t) \in Nat /\ Len(t) >= 1
  BY <1>3 DEF IsPath
<1>6. ASSUME NEW i \in 1..Len(t) PROVE t[i] \in Ref
  <2>1. CASE i = 1
    BY <1>3, <2>1 DEF IsPath
  <2>2. CASE i # 1
    <3>1. i - 1 \in 1..(Len(t) - 1) /\ (i - 1) + 1 = i
      BY <1>5, <2>2
    <3>2. t[i - 1] \in Cells /\ t[i] \in Cells
      BY <1>5, <3>1
    <3>3. cdr[t[i - 1]] = t[i]
      BY <1>3, <3>1 DEF IsPath
    <3>4. cdr[t[i - 1]] \in Ref \cup {Nil}
      BY <3>2 DEF TypeOK
    <3> QED BY <3>2, <3>3, <3>4, Constants
  <2> QED BY <2>1, <2>2
<1>7. t \in Seq(Ref)
  BY <1>5, <1>6
<1> QED BY <1>3, <1>4, <1>5, <1>7 DEF t, IsPath

-----------------------------------------------------------------------------
(* A new cell leaves every chain as it is ..                               *)
Grown ==
  /\ top' = top + 1 /\ top' \in Cells \ {NullVal} /\ top' \notin Ref /\ Ref' = Ref \cup {top'}
  /\ car' \in [Cells -> Values] /\ cdr' \in [Cells -> Ref' \cup {Nil}]
  /\ \A c \in Cells : c > top' => car'[c] = Nil /\ cdr'[c] = Nil
  /\ \A c \in Ref : car'[c] = car[c]
  /\ Ranked'

LEMMA NewNumber ==
  ASSUME TypeOK, Room(1)
  PROVE  /\ top + 1 \in Cells \ {NullVal} /\ top + 1 \notin Ref
         /\ 0..(top + 1) = Ref \cup {top + 1}
         /\ \A c \in Cells : c > top + 1 => c > top /\ c # top + 1
         /\ \A x \in Ref : x < top + 1 /\ x \in Nat
  BY Constants DEF TypeOK, Room, Ref, Cells, NullVal

LEMMA ConsGrows ==
  ASSUME TypeOK, Ranked, NEW a \in Values, NEW d \in Ref \cup {Nil}, NewCell(a, d)
  PROVE  Grown /\ car'[top'] = a
<1> DEFINE n == top + 1
<1>1. /\ n \in Cells \ {NullVal} /\ n \notin Ref /\ 0..n = Ref \cup {n}
      /\ \A c \in Cells : c > n => c > top /\ c # n
      /\ \A x \in Ref : x < n /\ x \in Nat
  BY NewNumber DEF NewCell
<1> HIDE DEF n
<1>2. top' = n /\ car' = [car EXCEPT ![n] = a] /\ cdr' = [cdr EXCEPT ![n] = d]
  BY DEF NewCell, n
<1>3. Ref' = Ref \cup {n} /\ Ref \subseteq Cells
  BY <1>1, <1>2, NextCdrs DEF Ref
<1>4. car' \in [Cells -> Values] /\ cdr' \in [Cells -> Ref' \cup {Nil}]
  BY <1>2, <1>3 DEF TypeOK
<1>5. car'[n] = a /\ cdr'[n] = d
  BY <1>1, <1>2 DEF TypeOK
<1>6. \A c \in Cells : c # n => car'[c] = car[c] /\ cdr'[c] = cdr[c]
  BY <1>2 DEF TypeOK
<1>7. \A c \in Cells : c > n => car'[c] = Nil /\ cdr'[c] = Nil
  BY <1>1, <1>6 DEF TypeOK
<1>8. \A c \in Ref : car'[c] = car[c]
  BY <1>1, <1>3, <1>6
<1>9. Ranked'
  <2>1. PICK r \in [Cells -> Ref] : \A c \in Cells : cdr[c] # Nil => r[cdr[c]] < r[c]
    BY DEF Ranked
  <2> DEFINE q == [r EXCEPT ![n] = n]
  <2>2. q \in [Cells -> Ref'] /\ q[n] = n /\ \A c \in Cells : c # n => q[c] = r[c]
    BY <1>1, <1>3
  <2>3. ASSUME NEW c \in Cells, cdr'[c] # Nil PROVE q[cdr'[c]] < q[c]
    <3>1. CASE c = n
      <4>1. d \in Ref /\ d # n /\ d \in Cells /\ r[d] \in Ref
        BY <1>1, <1>3, <1>5, <2>3, <3>1
      <4> HIDE DEF q
      <4> QED BY <1>1, <1>5, <2>2, <3>1, <4>1
    <3>2. CASE c # n
      <4>1. cdr'[c] = cdr[c] /\ cdr[c] \in Ref /\ cdr[c] # n /\ cdr[c] \in Cells
        BY <1>1, <1>3, <1>6, <2>3, <3>2 DEF TypeOK
      <4> HIDE DEF q
      <4> QED BY <2>1, <2>2, <2>3, <3>2, <4>1
    <3> QED BY <3>1, <3>2
  <2> HIDE DEF q
  <2>4. \E w \in [Cells -> Ref'] : \A c \in Cells : cdr'[c] # Nil => w[cdr'[c]] < w[c]
    BY <2>2, <2>3
  <2> QED BY <2>4 DEF Ranked
<1> QED BY <1>1, <1>2, <1>3, <1>4, <1>5, <1>7, <1>8, <1>9 DEF Grown, n

LEMMA ConsChains ==
  ASSUME TypeOK, Ranked, NEW a \in Values, NEW d \in Ref \cup {Nil}, NewCell(a, d)
  PROVE  /\ \A c \in Ref : ChainIn(cdr', c) = Chain(c)
         /\ ChainIn(cdr', top') = <<top'>> \o Chain(d)
<1>1. Grown
  BY ConsGrows
<1> DEFINE n == top'
<1>2. /\ n \in Cells /\ n \notin Ref /\ Ref \subseteq Cells
      /\ cdr'[n] = d /\ \A c \in Ref : cdr'[c] = cdr[c]
  BY <1>1, NextCdrs, NewNumber DEF Grown, NewCell, TypeOK
<1>3. cdr' \in Cdrs /\ \E r : Ranks(cdr', r)
  <2>1. cdr' \in [Cells -> Ref' \cup {Nil}] /\ Ref' \subseteq Cells
    BY <1>1, NextCdrs DEF Grown
  <2>2. PICK r \in [Cells -> Ref'] : \A c \in Cells : cdr'[c] # Nil => r[cdr'[c]] < r[c]
    BY <1>1 DEF Grown, Ranked
  <2>3. Ranks(cdr', r)
    BY <2>1, <2>2 DEF Ranks
  <2> QED BY <2>1, <2>3 DEF Cdrs
<1>4. ASSUME NEW c \in Ref PROVE IsPath(cdr', c, Chain(c)) /\ ChainIn(cdr', c) = Chain(c)
  <2> DEFINE t == Chain(c)
  <2>1. /\ t \in Seq(Ref) /\ Len(t) \in Nat /\ Len(t) >= 1 /\ t[1] = c
        /\ cdr[t[Len(t)]] = Nil /\ \A i \in 1..(Len(t) - 1) : cdr[t[i]] = t[i + 1]
    BY ChainFacts
  <2> HIDE DEF t
  <2>2. \A i \in 1..Len(t) : t[i] \in Ref
    BY <2>1
  <2>3. Len(t) \in 1..Len(t) /\ \A i \in 1..(Len(t) - 1) : i \in 1..Len(t)
    BY <2>1
  <2>4. t \in Seq(Cells)
    BY <1>2, <2>1, <2>2
  <2>5. IsPath(cdr', c, t)
    BY <1>2, <2>1, <2>2, <2>3, <2>4 DEF IsPath
  <2> QED BY <1>2, <1>3, <2>5, ChainIsPath DEF t
<1>5. IsPath(cdr', n, <<n>> \o Chain(d))
  <2>1. CASE d = Nil
    <3>1. <<n>> \o Chain(d) = <<n>>
      <4>1. Chain(d) = <<>>
        BY <2>1, NoChain DEF Chain
      <4>2. <<n>> \in Seq(Cells)
        BY <1>2
      <4> QED BY <4>1, <4>2, ConcatEmptySeq
    <3>2. IsPath(cdr', n, <<n>>)
      BY <1>2, <2>1 DEF IsPath
    <3> QED BY <3>1, <3>2
  <2>2. CASE d # Nil
    <3> DEFINE t == Chain(d)
               u == <<n>> \o t
    <3>1. IsPath(cdr', d, t)
      BY <1>4, <2>2
    <3> HIDE DEF t
    <3>2. t \in Seq(Cells) /\ Len(t) \in Nat /\ Len(t) >= 1
      BY <3>1 DEF IsPath
    <3>3. /\ u \in Seq(Cells) /\ Len(u) = Len(t) + 1 /\ u[1] = n
          /\ \A i \in 1..Len(t) : u[i + 1] = t[i]
      BY <1>2, <3>2
    <3> HIDE DEF u
    <3>4. ASSUME NEW i \in 1..(Len(u) - 1) PROVE cdr'[u[i]] = u[i + 1]
      <4>1. CASE i = 1
        <5>1. 1 \in 1..Len(t) /\ t[1] = d
          BY <3>1, <3>2 DEF IsPath
        <5>2. u[1 + 1] = d
          BY <3>3, <5>1
        <5> QED BY <1>2, <3>3, <4>1, <5>2
      <4>2. CASE i # 1
        <5>1. i - 1 \in 1..(Len(t) - 1) /\ (i - 1) + 1 = i /\ i \in 1..Len(t)
          BY <3>2, <3>3, <4>2
        <5>2. u[i] = t[i - 1] /\ u[i + 1] = t[i]
          BY <3>2, <3>3, <5>1
        <5> QED BY <3>1, <5>1, <5>2 DEF IsPath
      <4> QED BY <4>1, <4>2
    <3>5. cdr'[u[Len(u)]] = Nil
      <4>1. u[Len(t) + 1] = t[Len(t)]
        BY <3>2, <3>3
      <4> QED BY <3>1, <3>3, <4>1 DEF IsPath
    <3>6. IsPath(cdr', n, u)
      BY <3>2, <3>3, <3>4, <3>5 DEF IsPath
    <3> QED BY <3>6 DEF u, t
  <2> QED BY <2>1, <2>2
<1> HIDE DEF n
<1>6. ChainIn(cdr', n) = <<n>> \o Chain(d)
  BY <1>2, <1>3, <1>5, ChainIsPath
<1> QED BY <1>4, <1>6 DEF n

(* .. and one put after a last cell adds itself to the chains that end     *)
(* there (list_ops.c:61).                                                  *)
LEMMA LastGrows ==
  ASSUME TypeOK, Ranked, NEW p \in Ref, NEW a \in Values, cdr[p] = Nil, NewLast(p, a)
  PROVE  Grown /\ car'[top'] = a
<1> DEFINE n == top + 1
<1>1. /\ n \in Cells \ {NullVal} /\ n \notin Ref /\ 0..n = Ref \cup {n} /\ 0 \in 0..n
      /\ \A c \in Cells : c > n => c > top /\ c # n
      /\ \A x \in Ref : x < n /\ x \in Nat /\ x + 1 \in 0..n
  BY NewNumber DEF NewLast, TypeOK, Ref, Cells
<1> HIDE DEF n
<1>2. top' = n /\ car' = [car EXCEPT ![n] = a] /\ cdr' = [cdr EXCEPT ![n] = Nil, ![p] = n]
  BY DEF NewLast, n
<1>3. Ref' = Ref \cup {n} /\ Ref' = 0..n /\ Ref \subseteq Cells /\ p # n /\ p \in Cells
  BY <1>1, <1>2, NextCdrs DEF Ref
<1>4. car' \in [Cells -> Values] /\ cdr' \in [Cells -> Ref' \cup {Nil}]
  BY <1>1, <1>2, <1>3 DEF TypeOK, Values
<1>5. car'[n] = a /\ cdr'[n] = Nil /\ cdr'[p] = n
  BY <1>1, <1>2, <1>3 DEF TypeOK
<1>6. \A c \in Cells : /\ c # n => car'[c] = car[c]
                       /\ c # n /\ c # p => cdr'[c] = cdr[c]
  BY <1>2 DEF TypeOK
<1>7. \A c \in Cells : c > n => car'[c] = Nil /\ cdr'[c] = Nil
  <2>1. \A c \in Cells : c > n => c # p
    BY <1>1, <1>3 DEF Cells
  <2> QED BY <1>1, <1>6, <2>1 DEF TypeOK
<1>8. \A c \in Ref : car'[c] = car[c]
  BY <1>1, <1>3, <1>6
<1>9. Ranked'
  <2>1. PICK r \in [Cells -> Ref] : \A c \in Cells : cdr[c] # Nil => r[cdr[c]] < r[c]
    BY DEF Ranked
  <2> DEFINE q == [c \in Cells |-> IF c = n THEN 0 ELSE r[c] + 1]
  <2>2. \A c \in Cells : r[c] \in Ref /\ r[c] \in Nat /\ r[c] + 1 \in Ref'
    BY <1>1, <1>3, <2>1
  <2>3. 0 \in Ref'
    BY <1>1, <1>3
  <2>4. q \in [Cells -> Ref']
    BY <2>2, <2>3
  <2>5. q[n] = 0 /\ \A c \in Cells : c # n => q[c] = r[c] + 1
    BY <1>1
  <2> HIDE DEF q
  <2>6. ASSUME NEW c \in Cells, cdr'[c] # Nil PROVE q[cdr'[c]] < q[c]
    <3>1. c # n
      BY <1>5, <2>6
    <3>2. CASE c = p
      BY <1>5, <2>2, <2>5, <3>1, <3>2
    <3>3. CASE c # p
      <4>1. cdr'[c] = cdr[c] /\ cdr[c] \in Ref /\ cdr[c] # n /\ cdr[c] \in Cells
        BY <1>1, <1>3, <1>6, <2>6, <3>1, <3>3 DEF TypeOK
      <4>2. r[cdr[c]] < r[c]
        BY <2>1, <2>6, <4>1
      <4> QED BY <2>2, <2>5, <3>1, <4>1, <4>2
    <3> QED BY <3>2, <3>3
  <2>7. \E w \in [Cells -> Ref'] : \A c \in Cells : cdr'[c] # Nil => w[cdr'[c]] < w[c]
    BY <2>4, <2>6
  <2> QED BY <2>7 DEF Ranked
<1> QED BY <1>1, <1>2, <1>3, <1>4, <1>5, <1>7, <1>8, <1>9 DEF Grown, n

LEMMA EndIsLast ==
  ASSUME TypeOK, Ranked, NEW c \in Ref, NEW p \in Range(Chain(c)), cdr[p] = Nil
  PROVE  p = Chain(c)[Len(Chain(c))]
<1> DEFINE t == Chain(c)
<1>1. /\ t \in Seq(Ref) /\ Len(t) \in Nat /\ Len(t) >= 1
      /\ \A i \in 1..(Len(t) - 1) : cdr[t[i]] = t[i + 1]
  BY ChainFacts
<1> HIDE DEF t
<1>2. PICK i \in 1..Len(t) : p = t[i]
  BY <1>1 DEF Range, t
<1>3. CASE i = Len(t)
  BY <1>2, <1>3 DEF t
<1>4. CASE i # Len(t)
  <2>1. i \in 1..(Len(t) - 1) /\ i + 1 \in 1..Len(t)
    BY <1>1, <1>4
  <2>2. t[i + 1] \in Ref /\ t[i + 1] # Nil
    BY <1>1, <2>1, Constants, NextCdrs
  <2> QED BY <1>1, <1>2, <2>1, <2>2
<1> QED BY <1>3, <1>4

LEMMA LastChains ==
  ASSUME TypeOK, Ranked, NEW p \in Ref, NEW a \in Values, cdr[p] = Nil, NewLast(p, a)
  PROVE  /\ \A c \in Ref : ChainIn(cdr', c) = IF p \in Range(Chain(c))
                                              THEN Append(Chain(c), top') ELSE Chain(c)
         /\ ChainIn(cdr', top') = <<top'>>
<1>1. Grown
  BY LastGrows
<1> DEFINE n == top'
<1>2. /\ n \in Cells /\ n \notin Ref /\ Ref \subseteq Cells
      /\ cdr'[n] = Nil /\ cdr'[p] = n /\ \A c \in Ref : c # p => cdr'[c] = cdr[c]
  BY <1>1, NextCdrs, NewNumber DEF Grown, NewLast, TypeOK
<1>3. cdr' \in Cdrs /\ \E r : Ranks(cdr', r)
  <2>1. cdr' \in [Cells -> Ref' \cup {Nil}] /\ Ref' \subseteq Cells
    BY <1>1, NextCdrs DEF Grown
  <2>2. PICK r \in [Cells -> Ref'] : \A c \in Cells : cdr'[c] # Nil => r[cdr'[c]] < r[c]
    BY <1>1 DEF Grown, Ranked
  <2>3. Ranks(cdr', r)
    BY <2>1, <2>2 DEF Ranks
  <2> QED BY <2>1, <2>3 DEF Cdrs
<1> HIDE DEF n
<1>4. ASSUME NEW c \in Ref
      PROVE  ChainIn(cdr', c) = IF p \in Range(Chain(c)) THEN Append(Chain(c), n) ELSE Chain(c)
  <2> DEFINE t == Chain(c)
             u == IF p \in Range(t) THEN Append(t, n) ELSE t
  <2>1. /\ t \in Seq(Ref) /\ Len(t) \in Nat /\ Len(t) >= 1 /\ t[1] = c
        /\ cdr[t[Len(t)]] = Nil /\ \A i \in 1..(Len(t) - 1) : cdr[t[i]] = t[i + 1]
        /\ \A i, j \in 1..Len(t) : t[i] = t[j] => i = j
    BY ChainFacts
  <2>2. p \in Range(t) => p = t[Len(t)]
    BY EndIsLast
  <2> HIDE DEF t
  <2>3. \A i \in 1..Len(t) : t[i] \in Ref
    BY <2>1
  <2>4. Len(t) \in 1..Len(t) /\ \A i \in 1..(Len(t) - 1) : i \in 1..Len(t) /\ i # Len(t)
    BY <2>1
  <2>5. t \in Seq(Cells)
    BY <1>2, <2>1, <2>3
  <2>6. \A i \in 1..(Len(t) - 1) : cdr'[t[i]] = t[i + 1]
    <3>1. ASSUME NEW i \in 1..(Len(t) - 1) PROVE t[i] # p
      <4>1. i + 1 \in 1..Len(t)
        BY <2>1, <3>1
      <4>2. t[i + 1] \in Ref /\ t[i + 1] # Nil
        BY <2>3, <4>1, <1>2, Constants
      <4> QED BY <2>1, <4>2
    <3> QED BY <1>2, <2>1, <2>3, <2>4, <3>1
  <2>7. CASE p \in Range(t)
    <3>1. /\ Append(t, n) \in Seq(Cells) /\ Len(Append(t, n)) = Len(t) + 1
          /\ \A i \in 1..Len(t) : Append(t, n)[i] = t[i]
          /\ Append(t, n)[Len(t) + 1] = n
      BY <1>2, <2>1, <2>5
    <3> DEFINE v == Append(t, n)
    <3> HIDE DEF v
    <3>2. ASSUME NEW i \in 1..(Len(v) - 1) PROVE cdr'[v[i]] = v[i + 1]
      <4>1. CASE i = Len(t)
        BY <1>2, <2>2, <2>4, <2>7, <3>1, <4>1 DEF v
      <4>2. CASE i # Len(t)
        <5>1. i \in 1..(Len(t) - 1) /\ i \in 1..Len(t) /\ i + 1 \in 1..Len(t)
          BY <2>1, <3>1, <4>2 DEF v
        <5> QED BY <2>6, <3>1, <5>1 DEF v
      <4> QED BY <4>1, <4>2
    <3>3. v \in Seq(Cells) /\ Len(v) >= 1 /\ v[1] = c /\ cdr'[v[Len(v)]] = Nil
      BY <1>2, <2>1, <3>1 DEF v
    <3>4. IsPath(cdr', c, v)
      BY <3>2, <3>3 DEF IsPath
    <3> QED BY <1>2, <1>3, <2>7, <3>4, ChainIsPath DEF v, t
  <2>8. CASE p \notin Range(t)
    <3>1. t[Len(t)] \in Range(t) /\ t[Len(t)] \in Ref
      BY <2>1, <2>3, <2>4 DEF Range
    <3>2. cdr'[t[Len(t)]] = Nil
      BY <1>2, <2>1, <2>8, <3>1
    <3>3. IsPath(cdr', c, t)
      BY <2>1, <2>5, <2>6, <3>2 DEF IsPath
    <3> QED BY <1>2, <1>3, <2>8, <3>3, ChainIsPath DEF t
  <2> QED BY <2>7, <2>8 DEF t
<1>5. ChainIn(cdr', n) = <<n>>
  <2>1. IsPath(cdr', n, <<n>>)
    BY <1>2 DEF IsPath
  <2> QED BY <1>2, <1>3, <2>1, ChainIsPath
<1> QED BY <1>4, <1>5 DEF n

-----------------------------------------------------------------------------
(* What a list says, before and after.                                     *)
LEMMA ChainType ==
  ASSUME TypeOK, Ranked, NEW c \in Ref \cup {Nil}
  PROVE  /\ Chain(c) \in Seq(Ref) /\ Len(Chain(c)) \in Nat
         /\ \A i \in 1..Len(Chain(c)) : Chain(c)[i] \in Ref /\ Chain(c)[i] \in Cells
         /\ Range(Chain(c)) \subseteq Ref
         /\ Range(Chain(c)) = {Chain(c)[i] : i \in 1..Len(Chain(c))}
<1>1. Chain(c) \in Seq(Ref)
  <2>1. CASE c = Nil
    <3>1. Chain(c) = <<>>
      BY <2>1, NoChain DEF Chain
    <3> QED BY <3>1
  <2>2. CASE c # Nil
    BY <2>2, ChainFacts
  <2> QED BY <2>1, <2>2
<1> DEFINE t == Chain(c)
<1>2. t \in Seq(Ref)
  BY <1>1
<1> HIDE DEF t
<1>3. Len(t) \in Nat /\ \A i \in 1..Len(t) : t[i] \in Ref /\ t[i] \in Cells
  BY <1>2, NextCdrs
<1>4. DOMAIN t = 1..Len(t)
  BY <1>2
<1>5. Range(t) \subseteq Ref /\ Range(t) = {t[i] : i \in 1..Len(t)}
  BY <1>3, <1>4 DEF Range
<1> QED BY <1>2, <1>3, <1>5 DEF t

LEMMA ElementsType ==
  ASSUME TypeOK, Ranked, NEW c \in Ref
  PROVE  /\ Elements(c) \in Seq(Values)
         /\ c # NullVal => /\ Len(Elements(c)) = Len(Chain(c))
                           /\ \A i \in 1..Len(Chain(c)) : Elements(c)[i] = car[Chain(c)[i]]
<1> DEFINE t == Chain(c)
           e == [i \in 1..Len(t) |-> car[t[i]]]
<1>1. Len(t) \in Nat /\ \A i \in 1..Len(t) : t[i] \in Cells
  BY ChainType
<1>2. Elements(c) = IF c = NullVal THEN <<>> ELSE e
  BY DEF Elements, ElementsIn, Chain
<1> HIDE DEF t
<1>3. \A i \in 1..Len(t) : car[t[i]] \in Values
  BY <1>1 DEF TypeOK
<1>4. e \in Seq(Values) /\ Len(e) = Len(t) /\ \A i \in 1..Len(t) : e[i] = car[t[i]]
  BY <1>1, <1>3
<1> HIDE DEF e
<1> QED BY <1>2, <1>4 DEF t

LEMMA ElementsKept ==
  ASSUME TypeOK, Ranked, Grown, NEW c \in Ref, ChainIn(cdr', c) = Chain(c)
  PROVE  ElementsIn(car', cdr', c) = Elements(c)
<1> DEFINE t == Chain(c)
<1>1. Len(t) \in Nat /\ \A i \in 1..Len(t) : t[i] \in Ref
  BY ChainType
<1>2. /\ Elements(c) = IF c = NullVal THEN <<>> ELSE [i \in 1..Len(t) |-> car[t[i]]]
      /\ ElementsIn(car', cdr', c) =
           IF c = NullVal THEN <<>> ELSE [i \in 1..Len(t) |-> car'[t[i]]]
  BY DEF Elements, ElementsIn, Chain
<1> HIDE DEF t
<1>3. \A i \in 1..Len(t) : car'[t[i]] = car[t[i]]
  BY <1>1 DEF Grown
<1>4. [i \in 1..Len(t) |-> car[t[i]]] = [i \in 1..Len(t) |-> car'[t[i]]]
  BY <1>3
<1> QED BY <1>2, <1>4

LEMMA ElementsAdded ==
  ASSUME TypeOK, Ranked, Grown, NEW c \in Ref, c # NullVal,
         ChainIn(cdr', c) = Append(Chain(c), top')
  PROVE  ElementsIn(car', cdr', c) = Append(Elements(c), car'[top'])
<1> DEFINE t == Chain(c)
           e == Elements(c)
           u == Append(t, top')
           f == [i \in 1..Len(u) |-> car'[u[i]]]
<1>1. t \in Seq(Ref) /\ Len(t) \in Nat /\ \A i \in 1..Len(t) : t[i] \in Ref
  BY ChainType
<1>2. e \in Seq(Values) /\ Len(e) = Len(t) /\ \A i \in 1..Len(t) : e[i] = car[t[i]]
  BY ElementsType
<1>3. ElementsIn(car', cdr', c) = f
  BY DEF ElementsIn
<1> HIDE DEF t, e
<1>4. /\ Len(u) = Len(t) + 1 /\ u[Len(t) + 1] = top'
      /\ \A i \in 1..Len(t) : u[i] = t[i]
  BY <1>1
<1> HIDE DEF u
<1>5. car'[top'] \in Values /\ \A i \in 1..Len(t) : car'[t[i]] = car[t[i]]
  BY <1>1 DEF Grown
<1> DEFINE g == Append(e, car'[top'])
<1>6. /\ g \in Seq(Values) /\ Len(g) = Len(t) + 1 /\ g[Len(t) + 1] = car'[top']
      /\ \A i \in 1..Len(t) : g[i] = e[i]
  BY <1>2, <1>5
<1> HIDE DEF g
<1>7. ASSUME NEW i \in 1..(Len(t) + 1) PROVE f[i] = g[i] /\ f[i] \in Values
  <2>1. CASE i = Len(t) + 1
    BY <1>4, <1>5, <1>6, <2>1
  <2>2. CASE i # Len(t) + 1
    <3>1. i \in 1..Len(t)
      BY <1>1, <2>2
    <3>2. f[i] = car[t[i]] /\ g[i] = car[t[i]]
      BY <1>2, <1>4, <1>5, <1>6, <3>1
    <3>3. g[i] \in Values
      BY <1>1, <1>6
    <3> QED BY <3>2, <3>3
  <2> QED BY <2>1, <2>2
<1>8. f \in Seq(Values) /\ Len(f) = Len(t) + 1
  BY <1>1, <1>4, <1>7
<1> HIDE DEF f
<1>9. f = g
  BY <1>6, <1>7, <1>8, SameSequence
<1> QED BY <1>3, <1>9 DEF g, e

(* A loop over a list goes from cell to cell.                              *)
LEMMA ChainFrom ==
  ASSUME TypeOK, Ranked, NEW c \in Ref
  PROVE  Chain(c) = <<c>> \o Chain(cdr[c])
<1>1. c \in Cells /\ cdr[c] \in Ref \cup {Nil} /\ cdr \in Cdrs /\ Ref \subseteq Cells
  BY NextCdrs DEF TypeOK
<1> DEFINE t == Chain(cdr[c])
           u == <<c>> \o t
<1>2. t \in Seq(Ref) /\ Len(t) \in Nat /\ \A i \in 1..Len(t) : t[i] \in Cells
  BY <1>1, ChainType
<1>3. CASE cdr[c] = Nil
  <2>1. t = <<>>
    BY <1>3, NoChain DEF Chain
  <2>2. <<c>> \in Seq(Cells)
    BY <1>1
  <2>3. u = <<c>>
    BY <2>1, <2>2, ConcatEmptySeq
  <2>4. IsPath(cdr, c, <<c>>)
    BY <1>1, <1>3 DEF IsPath
  <2> QED BY <1>1, <2>3, <2>4, ChainIsPath, HasRanks DEF Chain
<1>4. CASE cdr[c] # Nil
  <2>1. IsPath(cdr, cdr[c], t)
    BY <1>1, <1>4, ChainFacts
  <2> HIDE DEF t
  <2>2. t \in Seq(Cells) /\ Len(t) >= 1
    BY <2>1 DEF IsPath
  <2>3. /\ u \in Seq(Cells) /\ Len(u) = Len(t) + 1 /\ u[1] = c
        /\ \A i \in 1..Len(t) : u[i + 1] = t[i]
    BY <1>1, <1>2, <2>2
  <2> HIDE DEF u
  <2>4. ASSUME NEW i \in 1..(Len(u) - 1) PROVE cdr[u[i]] = u[i + 1]
    <3>1. CASE i = 1
      <4>1. 1 \in 1..Len(t) /\ t[1] = cdr[c]
        BY <1>2, <2>1, <2>2 DEF IsPath
      <4>2. u[1 + 1] = cdr[c]
        BY <2>3, <4>1
      <4> QED BY <2>3, <3>1, <4>2
    <3>2. CASE i # 1
      <4>1. i - 1 \in 1..(Len(t) - 1) /\ (i - 1) + 1 = i /\ i \in 1..Len(t)
        BY <1>2, <2>3, <3>2
      <4>2. u[i] = t[i - 1] /\ u[i + 1] = t[i]
        BY <1>2, <2>3, <4>1
      <4> QED BY <2>1, <4>1, <4>2 DEF IsPath
    <3> QED BY <3>1, <3>2
  <2>5. cdr[u[Len(u)]] = Nil
    <3>1. u[Len(t) + 1] = t[Len(t)]
      BY <1>2, <2>2, <2>3
    <3> QED BY <2>1, <2>3, <3>1 DEF IsPath
  <2>6. IsPath(cdr, c, u)
    BY <2>2, <2>3, <2>4, <2>5, <1>2 DEF IsPath
  <2> QED BY <1>1, <2>6, ChainIsPath, HasRanks DEF Chain, u, t
<1> QED BY <1>3, <1>4

-----------------------------------------------------------------------------
(* Cells of one's own: nobody else's chain gets there, and a new cell can  *)
(* be one of them.                                                         *)
LEMMA ApartChain ==
  ASSUME TypeOK, Ranked, NEW F, Apart(F), NEW c \in (Ref \cup {Nil}) \ F
  PROVE  Range(Chain(c)) \cap F = {}
<1> DEFINE t == Chain(c)
<1>1. Len(t) \in Nat /\ \A i \in 1..Len(t) : t[i] \in Cells
  BY ChainType
<1>2. Range(t) = {t[i] : i \in 1..Len(t)}
  BY ChainType
<1>3. CASE c = Nil
  <2>1. t = <<>>
    BY <1>3, NoChain DEF Chain
  <2> QED BY <1>2, <2>1
<1>4. CASE c # Nil
  <2>1. t[1] = c /\ \A i \in 1..(Len(t) - 1) : cdr[t[i]] = t[i + 1]
    BY <1>4, ChainFacts
  <2> HIDE DEF t
  <2> DEFINE S == {n \in Nat : n + 1 \in 1..Len(t) => t[n + 1] \notin F}
  <2>2. 0 \in S
    BY <2>1
  <2>3. ASSUME NEW n \in Nat, n \in S PROVE n + 1 \in S
    <3>1. SUFFICES ASSUME (n + 1) + 1 \in 1..Len(t) PROVE t[(n + 1) + 1] \notin F
      OBVIOUS
    <3>2. n + 1 \in 1..(Len(t) - 1) /\ n + 1 \in 1..Len(t)
      BY <1>1, <3>1
    <3>3. t[n + 1] \notin F /\ t[n + 1] \in Cells /\ cdr[t[n + 1]] = t[(n + 1) + 1]
      BY <1>1, <2>1, <2>3, <3>2
    <3> QED BY <3>3 DEF Apart
  <2> HIDE DEF S
  <2>4. Nat \subseteq S
    BY <2>2, <2>3, SetInduction
  <2>5. ASSUME NEW i \in 1..Len(t) PROVE t[i] \notin F
    <3>1. i - 1 \in Nat /\ (i - 1) + 1 = i
      OBVIOUS
    <3> QED BY <2>4, <3>1 DEF S
  <2> QED BY <1>2, <2>5 DEF t
<1> QED BY <1>3, <1>4

LEMMA ApartCons ==
  ASSUME TypeOK, Ranked, NEW F, Apart(F), NEW a \in Values, NEW d \in Ref \cup {Nil},
         NewCell(a, d), UNCHANGED var, NEW n, n = top'
  PROVE  Apart(F \cup {n})'
<1>1. Grown
  BY ConsGrows
<1>2. \A c \in Cells : c # top' => cdr'[c] = cdr[c] /\ cdr[c] # top'
  BY <1>1, Constants DEF NewCell, TypeOK, Grown, Cells
<1>3. top' \notin {NullVal, Source}
  BY <1>1, NextCdrs DEF Grown
<1>4. \A y \in Names : var'[y] \notin F \cup {n}
  BY <1>1, Constants DEF Apart, TypeOK, Grown, Cells
<1>5. F \cup {n} \subseteq Ref' \ {NullVal, Source}
  BY <1>1, <1>3 DEF Grown, Apart
<1>6. \A c \in Cells : cdr'[c] \in F \cup {n} => c \in F \cup {n}
  BY <1>2 DEF Apart
<1> QED BY <1>1, <1>4, <1>5, <1>6 DEF Apart, Grown

LEMMA ApartLast ==
  ASSUME TypeOK, Ranked, NEW F, Apart(F), NEW a \in Values, NEW p \in F,
         cdr[p] = Nil, NewLast(p, a), UNCHANGED var, NEW n, n = top'
  PROVE  Apart(F \cup {n})'
<1>1. p \in Ref
  BY DEF Apart
<1>2. Grown
  BY <1>1, LastGrows
<1>3. \A c \in Cells : c # top' /\ c # p => cdr'[c] = cdr[c] /\ cdr[c] # top'
  BY <1>2, Constants DEF NewLast, TypeOK, Grown, Cells
<1>4. top' \notin {NullVal, Source}
  BY <1>2, NextCdrs DEF Grown
<1>5. \A y \in Names : var'[y] \notin F \cup {n}
  BY <1>2, Constants DEF Apart, TypeOK, Grown, Cells
<1>6. F \cup {n} \subseteq Ref' \ {NullVal, Source}
  BY <1>2, <1>4 DEF Grown, Apart
<1>7. \A c \in Cells : cdr'[c] \in F \cup {n} => c \in F \cup {n}
  BY <1>3 DEF Apart
<1> QED BY <1>2, <1>5, <1>6, <1>7 DEF Apart, Grown

-----------------------------------------------------------------------------
(* The invariant holds at first, and every step keeps it.                  *)
LEMMA InitHolds == Init => ListsInv
<1> SUFFICES ASSUME Init PROVE ListsInv
  OBVIOUS
<1> USE DEF Init
<1>1. /\ Source \in Cells \ {NullVal} /\ NullVal \in Ref /\ Source \in Ref /\ Ref \subseteq Cells
      /\ \A c \in Cells : c > top => c # Source
  BY Constants DEF Cells, Ref, Source, NullVal
<1>2. \A c \in Cells : cdr[c] = Nil
  OBVIOUS
<1>3. TypeOK
  BY <1>1 DEF TypeOK, Values
<1>4. Ranked
  <2>1. [c \in Cells |-> NullVal] \in [Cells -> Ref]
    BY <1>1
  <2> QED BY <1>2, <2>1 DEF Ranked
<1>5. run.op = "idle" /\ done.op = "none"
  BY DEF Idle, Nothing
<1> QED BY <1>3, <1>4, <1>5 DEF ListsInv, NoneEnded, AppendInv, CopyInv, ReverseInv, ReverseIsFresh,
                                AppendAddsLast

(* The types, when cells are made or not.                                  *)
LEMMA TypeGrows ==
  ASSUME TypeOK, Grown, var' \in [Names -> Ref' \cup {Nil}],
         run' \in ({Idle} \cup Appending \cup Copying \cup Reversing)'
  PROVE  TypeOK'
  BY DEF TypeOK, Grown

LEMMA TypeStays ==
  ASSUME TypeOK, Ranked, UNCHANGED heap, var' \in [Names -> Ref \cup {Nil}],
         run' \in {Idle} \cup Appending \cup Copying \cup Reversing
  PROVE  TypeOK' /\ Ranked' /\ Ref' = Ref
<1>1. Ref' = Ref
  BY DEF heap, Ref
<1> QED BY <1>1 DEF TypeOK, heap, Ranked, Appending, Copying, Reversing

LEMMA Quiet ==
  ASSUME TypeOK', Ranked', run' = Idle, done'.op \notin {"reverse", "append"}
  PROVE  ListsInv'
<1>1. run'.op = "idle"
  BY DEF Idle
<1> QED BY <1>1 DEF ListsInv, NoneEnded, AppendInv, CopyInv, ReverseInv, ReverseIsFresh,
            AppendAddsLast

LEMMA SetStep ==
  ASSUME ListsInv, NEW x \in Names, NEW v \in Ref, bl_oper_set(x, v)
  PROVE  ListsInv'
<1>1. UNCHANGED heap /\ run' = Idle /\ done' = Nothing /\ var' = [var EXCEPT ![x] = v]
  BY DEF bl_oper_set, Finish
<1>2. TypeOK' /\ Ranked'
  BY <1>1, TypeStays DEF ListsInv, TypeOK
<1> QED BY <1>1, <1>2, Quiet DEF Nothing

LEMMA MadeStep ==
  ASSUME ListsInv, Ready, NEW x \in Names, NEW a \in Items, NEW d \in Ref \cup {Nil},
         NewCell(a, d), Finish(x, top + 1, Nothing)
  PROVE  ListsInv'
<1>1. Grown
  BY ConsGrows DEF ListsInv, Values
<1>2. run' = Idle /\ done' = Nothing /\ var' = [var EXCEPT ![x] = top']
  BY <1>1 DEF Finish, Grown
<1>3. var' \in [Names -> Ref' \cup {Nil}]
  BY <1>1, <1>2 DEF Grown, ListsInv, TypeOK
<1>4. TypeOK' /\ Ranked'
  BY <1>1, <1>2, <1>3, TypeGrows DEF ListsInv, Grown
<1> QED BY <1>2, <1>4, Quiet DEF Nothing

LEMMA StartAppend ==
  ASSUME ListsInv, NEW x \in Names, NEW y \in Names, NEW i \in Items, bl_oper_append(x, y, i)
  PROVE  ListsInv'
<1> DEFINE c == var[y]
           r == [op |-> "append", x |-> x, list |-> c, at |-> c, v |-> i, was |-> Elements(c)]
<1>1. c \in Ref /\ UNCHANGED <<heap, var>> /\ run' = r /\ done' = Nothing
  BY DEF bl_oper_append, Start, ListsInv, TypeOK
<1> HIDE DEF c
<1>2. Elements(c) \in Seq(Values)
  BY <1>1, ElementsType DEF ListsInv
<1>3. r \in Appending
  BY <1>1, <1>2 DEF Appending
<1>4. TypeOK' /\ Ranked'
  BY <1>1, <1>3, TypeStays DEF ListsInv, TypeOK
<1>5. c \in Range(Chain(c))
  <2>1. Len(Chain(c)) >= 1 /\ Chain(c)[1] = c /\ Len(Chain(c)) \in Nat
    BY <1>1, ChainFacts DEF ListsInv
  <2>2. Range(Chain(c)) = {Chain(c)[k] : k \in 1..Len(Chain(c))}
    BY <1>1, ChainType DEF ListsInv
  <2> QED BY <2>1, <2>2
<1>6. AppendInv'
  BY <1>1, <1>5 DEF AppendInv, heap, Chain, Elements
<1> QED BY <1>1, <1>4, <1>6 DEF ListsInv, NoneEnded, CopyInv, ReverseInv, ReverseIsFresh,
                                AppendAddsLast, Nothing

LEMMA StartCopy ==
  ASSUME ListsInv, NEW x \in Names, NEW y \in Names, NEW next \in {"reverse", "rest"},
         var[y] # Nil,
         Start([op |-> "copy", next |-> next, x |-> x, list |-> var[y],
                was |-> Elements(var[y]), at |-> var[y], first |-> Nil, last |-> Nil])
  PROVE  ListsInv'
<1>c. PICK c \in Ref : c = var[y]
  BY DEF ListsInv, TypeOK
<1> DEFINE r == [op |-> "copy", next |-> next, x |-> x, list |-> c, was |-> Elements(c),
                 at |-> c, first |-> Nil, last |-> Nil]
<1>1. UNCHANGED <<heap, var>> /\ run' = r /\ done' = Nothing
  BY <1>c DEF Start
<1>2. Elements(c) \in Seq(Values)
  BY <1>1, ElementsType DEF ListsInv
<1>3. r \in Copying
  BY <1>1, <1>2 DEF Copying
<1>4. TypeOK' /\ Ranked'
  BY <1>1, <1>3, TypeStays DEF ListsInv, TypeOK
<1>5. Len(Chain(c)) >= 1 /\ Chain(c)[1] = c /\ Len(Chain(c)) \in Nat
  BY <1>1, ChainFacts DEF ListsInv
<1>6. Chain(c)' = Chain(c) /\ Chain(Nil)' = <<>> /\ Elements(c)' = Elements(c)
  BY <1>1, NoChain DEF heap, Chain, Elements
<1>7. CopyInv'
  <2>1. Range(<<>>) = {} /\ Len(<<>>) = 0
    BY DEF Range
  <2>3. run'.first = Nil /\ run'.list = c /\ run'.was = Elements(c) /\ run'.at = c
        /\ run'.last = Nil
    BY <1>1
  <2>4. Chain(run.first)' = <<>> /\ Chain(run.list)' = Chain(c) /\ Elements(run.list)' = Elements(c)
    BY <1>1, <1>6, <2>3, NoChain DEF Chain, Elements, heap
  <2>5. Apart(Range(Chain(run.first)))'
    BY <2>1, <2>4 DEF Apart
  <2> QED BY <1>5, <2>1, <2>3, <2>4, <2>5 DEF CopyInv
<1> QED BY <1>1, <1>4, <1>7 DEF ListsInv, NoneEnded, AppendInv, ReverseInv, ReverseIsFresh,
                                AppendAddsLast, Nothing

LEMMA StayStep ==
  ASSUME ListsInv, UNCHANGED <<heap, var, run>>, done' \in {done, Nothing}
  PROVE  ListsInv'
<1>1. TypeOK' /\ Ranked' /\ Ref' = Ref
  BY TypeStays DEF ListsInv, TypeOK
<1>2. AppendInv' /\ CopyInv' /\ ReverseInv'
  BY <1>1 DEF ListsInv, AppendInv, CopyInv, ReverseInv, Apart, Chain, Elements, ElementOf, heap
<1>3. NoneEnded' /\ ReverseIsFresh' /\ AppendAddsLast'
  <2>1. CASE done' = Nothing
    BY <2>1 DEF NoneEnded, ReverseIsFresh, AppendAddsLast, Nothing
  <2>2. CASE done' = done
    BY <2>2 DEF ListsInv, NoneEnded, ReverseIsFresh, AppendAddsLast, Chain, Elements, heap
  <2> QED BY <2>1, <2>2
<1> QED BY <1>1, <1>2, <1>3 DEF ListsInv

LEMMA RunShape ==
  ASSUME TypeOK
  PROVE  /\ run.op = "append" => run \in Appending
         /\ run.op = "copy" => run \in Copying
         /\ run.op = "reverse" => run \in Reversing
         /\ run = Idle => run.op = "idle"
  BY DEF TypeOK, Idle, Appending, Copying, Reversing

(* A step of the walk to the last cell.                                    *)
LEMMA WalkStep ==
  ASSUME ListsInv, AppendWalk
  PROVE  ListsInv'
<1>1. run \in Appending /\ run.op = "append"
  BY RunShape DEF ListsInv, AppendWalk, Running
<1>2. cdr[run.at] # Nil /\ run' = [run EXCEPT !.at = cdr[run.at]]
      /\ UNCHANGED <<heap, var, done>>
  BY DEF AppendWalk
<1>3. run.at \in Ref /\ run.at \in Cells /\ run.list \in Ref /\ cdr[run.at] \in Ref
  BY <1>1, <1>2, NextCdrs DEF Appending, ListsInv, TypeOK
<1>4. /\ run' \in Appending /\ run'.at = cdr[run.at] /\ run'.list = run.list
      /\ run'.was = run.was /\ run'.op = "append"
  BY <1>1, <1>2, <1>3 DEF Appending
<1>5. TypeOK' /\ Ranked'
  BY <1>2, <1>4, TypeStays DEF ListsInv, TypeOK
<1>6. cdr[run.at] \in Range(Chain(run.list))
  <2> DEFINE t == Chain(run.list)
  <2>1. /\ Len(t) \in Nat /\ cdr[t[Len(t)]] = Nil
        /\ \A i \in 1..(Len(t) - 1) : cdr[t[i]] = t[i + 1]
    BY <1>3, ChainFacts DEF ListsInv
  <2>2. Range(t) = {t[i] : i \in 1..Len(t)}
    BY <1>3, ChainType DEF ListsInv
  <2>3. run.at \in Range(t)
    BY <1>1 DEF ListsInv, AppendInv
  <2> HIDE DEF t
  <2>4. PICK i \in 1..Len(t) : run.at = t[i]
    BY <2>2, <2>3
  <2>5. i # Len(t)
    BY <1>2, <2>1, <2>4
  <2>6. i \in 1..(Len(t) - 1) /\ i + 1 \in 1..Len(t)
    BY <2>1, <2>5
  <2>7. cdr[run.at] = t[i + 1]
    BY <2>1, <2>4, <2>6
  <2> QED BY <2>2, <2>6, <2>7 DEF t
<1>7. AppendInv'
  <2>1. Chain(run.list)' = Chain(run.list) /\ Elements(run.list)' = Elements(run.list)
    BY <1>2, <1>4 DEF Chain, Elements, heap
  <2> QED BY <1>1, <1>4, <1>6, <2>1 DEF ListsInv, AppendInv
<1>8. NoneEnded' /\ ReverseIsFresh' /\ AppendAddsLast'
  BY <1>1, <1>2 DEF ListsInv, NoneEnded, ReverseIsFresh, AppendAddsLast, Nothing
<1> QED BY <1>4, <1>5, <1>7, <1>8 DEF ListsInv, CopyInv, ReverseInv

(* The walk is over: the element is the last one of the list now.          *)
LEMMA AppendStep ==
  ASSUME ListsInv, bl_list_append
  PROVE  ListsInv'
<1>1. run \in Appending /\ run.op = "append"
  BY RunShape DEF ListsInv, bl_list_append, Running
<1>2. PICK c \in Ref, p \in Ref, x \in Names, i \in Items :
         c = run.list /\ p = run.at /\ x = run.x /\ i = run.v
  BY <1>1 DEF Appending
<1>3. /\ cdr[p] = Nil /\ NewLast(p, i) /\ var' = [var EXCEPT ![x] = c]
      /\ done' = [op |-> "append", x |-> x, list |-> c, was |-> run.was, v |-> i]
      /\ run' = Idle
  BY <1>2 DEF bl_list_append, Finish, Appended
<1>4. i \in Values /\ TypeOK /\ Ranked
  BY DEF Values, ListsInv
<1>5. Grown /\ car'[top'] = i
  BY <1>3, <1>4, LastGrows
<1>6. var' \in [Names -> Ref' \cup {Nil}] /\ c \in Ref'
  BY <1>3, <1>4, <1>5 DEF TypeOK, Grown
<1>7. TypeOK' /\ Ranked'
  BY <1>3, <1>4, <1>5, <1>6, TypeGrows DEF Grown
<1>8. p \in Range(Chain(c)) /\ run.was = Elements(c)
  BY <1>1, <1>2 DEF ListsInv, AppendInv
<1>9. ChainIn(cdr', c) = Append(Chain(c), top')
  BY <1>3, <1>4, <1>8, LastChains
<1>10. AppendAddsLast'
  <2>1. done'.op = "append" /\ done'.list = c /\ done'.was = Elements(c) /\ done'.v = i
        /\ done'.x = x /\ var'[x] = c
    BY <1>3, <1>4, <1>8 DEF TypeOK
  <2>2. ASSUME NullVal \notin Range(ChainIn(cdr', c))
        PROVE  ElementsIn(car', cdr', c) = Append(Elements(c), i)
    <3>1. c # NullVal
      <4>1. Chain(c) \in Seq(Ref) /\ Len(Chain(c)) >= 1 /\ Chain(c)[1] = c
        BY <1>4, ChainFacts
      <4>2. top' \in Cells
        BY <1>5 DEF Grown
      <4>3. 1 \in DOMAIN Append(Chain(c), top') /\ Append(Chain(c), top')[1] = c
        BY <4>1, <4>2
      <4> QED BY <1>9, <2>2, <4>3 DEF Range
    <3> QED BY <1>4, <1>5, <1>9, <3>1, ElementsAdded
  <2> QED BY <2>1, <2>2 DEF AppendAddsLast, Chain, Elements
<1>11. run'.op = "idle" /\ done'.op = "append"
  BY <1>3 DEF Idle
<1> QED BY <1>7, <1>10, <1>11 DEF ListsInv, NoneEnded, AppendInv, CopyInv, ReverseInv, ReverseIsFresh

-----------------------------------------------------------------------------
(* What the copy has come to.                                              *)
LEMMA CopyFacts ==
  ASSUME ListsInv, run.op = "copy"
  PROVE  /\ run \in Copying /\ run.list \in Ref /\ run.list \in Cells
         /\ run.at \in Ref => run.at \in Cells
         /\ run.first = Nil <=> Chain(run.first) = <<>>
         /\ run.first # Nil => Chain(run.first)[1] = run.first
         /\ run.first = Nil <=> run.last = Nil
         /\ run.last # Nil => /\ run.last \in Range(Chain(run.first)) /\ run.last \in Ref
                              /\ cdr[run.last] = Nil
         /\ run.at = Nil => Len(Chain(run.first)) = Len(Chain(run.list)) /\ run.first # Nil
<1> DEFINE old == Chain(run.list)
           new == Chain(run.first)
<1>1. run \in Copying /\ TypeOK /\ Ranked /\ Ref \subseteq Cells
  BY RunShape, NextCdrs DEF ListsInv
<1>2. run.list \in Ref /\ run.first \in Ref \cup {Nil} /\ run.at \in Ref \cup {Nil}
      /\ run.last \in Ref \cup {Nil}
  BY <1>1 DEF Copying
<1>3. /\ Len(new) <= Len(old)
      /\ run.at = IF Len(new) = Len(old) THEN Nil ELSE old[Len(new) + 1]
      /\ run.last = IF new = <<>> THEN Nil ELSE Last(new)
  BY DEF ListsInv, CopyInv
<1>4. /\ Len(old) \in Nat /\ Len(old) >= 1 /\ \A i \in 1..Len(old) : old[i] \in Ref
  BY <1>1, <1>2, ChainFacts, ChainType
<1>5. /\ Len(new) \in Nat /\ new \in Seq(Ref) /\ \A i \in 1..Len(new) : new[i] \in Ref
      /\ Range(new) = {new[i] : i \in 1..Len(new)}
  BY <1>1, <1>2, ChainType
<1>6. run.first = Nil => new = <<>>
  BY NoChain DEF Chain
<1>7. run.first # Nil => Len(new) >= 1 /\ new[1] = run.first /\ cdr[new[Len(new)]] = Nil
  BY <1>1, <1>2, ChainFacts
<1>8. Nil \notin Ref
  BY <1>1, Constants
<1> HIDE DEF old, new
<1>9. run.first = Nil <=> new = <<>>
  BY <1>5, <1>6, <1>7
<1>10. run.first # Nil => /\ run.last = new[Len(new)] /\ Len(new) \in 1..Len(new)
                          /\ run.last \in Range(new) /\ run.last \in Ref
  BY <1>3, <1>5, <1>7, <1>9 DEF Last
<1>11. run.at = Nil => Len(new) = Len(old) /\ run.first # Nil
  <2>1. ASSUME Len(new) # Len(old) PROVE run.at # Nil
    <3>1. Len(new) + 1 \in 1..Len(old)
      BY <1>3, <1>4, <1>5, <2>1
    <3> QED BY <1>3, <1>4, <1>8, <2>1, <3>1
  <2>2. new = <<>> => Len(new) = 0
    OBVIOUS
  <2> QED BY <1>4, <1>9, <2>1, <2>2
<1>12. run.first = Nil <=> run.last = Nil
  BY <1>3, <1>8, <1>9, <1>10
<1> QED BY <1>1, <1>2, <1>7, <1>9, <1>10, <1>11, <1>12 DEF new, old

(* The copy is rest's: its second cell, or None.                           *)
LEMMA RestStep ==
  ASSUME ListsInv, run.op = "copy", run.next = "rest", NEW c \in Ref, AfterCopy(c)
  PROVE  ListsInv'
<1>1. PICK x \in Names : x = run.x
  BY CopyFacts DEF Copying
<1> DEFINE v == IF cdr[c] = Nil THEN NullVal ELSE cdr[c]
<1>2. v \in Ref
  BY NextCdrs DEF ListsInv, TypeOK
<1>3. /\ UNCHANGED heap /\ run' = Idle /\ var' = [var EXCEPT ![x] = v]
      /\ done'.op = "rest"
  BY <1>1 DEF AfterCopy, Finish, How
<1> HIDE DEF v
<1>4. TypeOK' /\ Ranked'
  BY <1>2, <1>3, TypeStays DEF ListsInv, TypeOK
<1> QED BY <1>3, <1>4, Quiet

(* Elements that are all there are copied as they are.                     *)
LEMMA WasNumbers ==
  ASSUME ListsInv, run.op = "copy", run.list # NullVal, Range(run.was) \subseteq Items
  PROVE  /\ Copied(run.list) /\ Len(run.was) = Len(Chain(run.list))
         /\ \A i \in 1..Len(run.was) : /\ run.was[i] = car[Chain(run.list)[i]]
                                       /\ run.was[i] = ElementOf(Chain(run.list)[i])
<1>1. TypeOK /\ Ranked /\ run.list \in Ref /\ run.was = Elements(run.list)
  BY CopyFacts DEF ListsInv, CopyInv
<1>2. PICK c \in Ref : c = run.list
  BY <1>1
<1> DEFINE e == Elements(c)
           t == Chain(c)
<1>3. e \in Seq(Values) /\ Len(e) = Len(t) /\ \A i \in 1..Len(t) : e[i] = car[t[i]]
  BY <1>1, <1>2, ElementsType
<1>4. Len(t) \in Nat /\ Len(t) >= 1 /\ t[1] = c
  BY <1>1, ChainFacts
<1>5. Range(e) \subseteq Items
  BY <1>1, <1>2
<1> HIDE DEF e, t
<1>6. ASSUME NEW i \in 1..Len(t) PROVE e[i] \in Items /\ e[i] # Nil
  <2>1. i \in DOMAIN e
    BY <1>3
  <2> QED BY <1>5, <2>1, Constants DEF Range
<1>7. Copied(c)
  <2>1. 1 \in 1..Len(t)
    BY <1>4
  <2> QED BY <1>2, <1>3, <1>4, <1>6, <2>1 DEF Copied
<1>8. \A i \in 1..Len(t) : e[i] = ElementOf(t[i])
  BY <1>3, <1>6 DEF ElementOf
<1> QED BY <1>1, <1>2, <1>3, <1>7, <1>8 DEF e, t

(* The copy is to be reversed.                                             *)
LEMMA TurnStep ==
  ASSUME ListsInv, run.op = "copy", run.next # "rest", NEW c \in Ref, AfterCopy(c),
         Copied(run.list) => run.at = Nil /\ c = run.first
  PROVE  ListsInv'
<1>1. run \in Copying /\ TypeOK /\ Ranked
  BY CopyFacts DEF ListsInv
<1> DEFINE r == [op |-> "reverse", x |-> run.x, list |-> run.list, was |-> run.was,
                 at |-> c, acc |-> Nil]
<1>2. run' = r /\ UNCHANGED <<heap, var, done>>
  BY DEF AfterCopy
<1>3. r \in Reversing
  BY <1>1 DEF Copying, Reversing
<1>4. /\ run'.op = "reverse" /\ run'.list = run.list /\ run'.was = run.was
      /\ run'.at = c /\ run'.acc = Nil
  BY <1>2
<1>5. TypeOK' /\ Ranked'
  BY <1>1, <1>2, <1>3, TypeStays DEF TypeOK
<1> HIDE DEF r
<1>6. Chain(run.acc)' = <<>> /\ Chain(run.at)' = Chain(c)
  BY <1>2, <1>4, NoChain DEF Chain, heap
<1>7. Range(<<>>) = {} /\ Len(<<>>) = 0
  BY DEF Range
<1>8. c # Nil
  BY <1>1, Constants, NextCdrs
<1>9. Apart(Range(Chain(run.acc)))'
  BY <1>6, <1>7 DEF Apart
<1>10. ASSUME run.list # NullVal, Range(run.was) \subseteq Items
       PROVE  /\ Len(run.was) = 0 + Len(Chain(c))
              /\ \A i \in 1..Len(Chain(c)) : car[Chain(c)[i]] = run.was[0 + i]
  <2>1. /\ Copied(run.list) /\ Len(run.was) = Len(Chain(run.list))
        /\ \A i \in 1..Len(run.was) : run.was[i] = ElementOf(Chain(run.list)[i])
    BY <1>10, WasNumbers
  <2>2. c = run.first /\ run.at = Nil /\ Len(Chain(c)) = Len(Chain(run.list))
    BY <2>1, CopyFacts
  <2>3. \A i \in 1..Len(Chain(c)) : car[Chain(c)[i]] = ElementOf(Chain(run.list)[i])
    BY <2>2 DEF ListsInv, CopyInv
  <2>4. Len(Chain(c)) \in Nat
    BY <1>1, ChainFacts
  <2> QED BY <2>1, <2>2, <2>3, <2>4
<1>11. ReverseInv'
  <2>1. car' = car
    BY <1>2 DEF heap
  <2> QED BY <1>4, <1>6, <1>7, <1>8, <1>9, <1>10, <2>1 DEF ReverseInv
<1>12. NoneEnded' /\ ReverseIsFresh' /\ AppendAddsLast'
  BY <1>2 DEF ListsInv, NoneEnded, ReverseIsFresh, AppendAddsLast, Nothing
<1> QED BY <1>4, <1>5, <1>11, <1>12 DEF ListsInv, AppendInv, CopyInv

(* One more cell of the copy.                                              *)
LEMMA CellStep ==
  ASSUME ListsInv, run.op = "copy", CopyCell
  PROVE  ListsInv'
<1>1. /\ run \in Copying /\ TypeOK /\ Ranked /\ Nil \notin Ref
      /\ run.at \in Ref /\ run.at \in Cells
  <2>1. run.at # Nil
    BY DEF CopyCell
  <2> QED BY <2>1, CopyFacts, Constants, NextCdrs DEF ListsInv, Copying
<1>2. PICK c \in Ref, at \in Ref, first \in Ref \cup {Nil}, last \in Ref \cup {Nil} :
         c = run.list /\ at = run.at /\ first = run.first /\ last = run.last
  BY <1>1 DEF Copying
<1>n. PICK n, a, old, new :
         n = top' /\ a = ElementOf(at) /\ old = Chain(c) /\ new = Chain(first)
  OBVIOUS
<1> DEFINE next == IF first = Nil THEN n ELSE first
<1>3. /\ IF last = Nil THEN NewCell(a, Nil) ELSE NewLast(last, a)
      /\ UNCHANGED <<var, done>>
      /\ run' = [run EXCEPT !.at = cdr[at], !.last = top + 1,
                            !.first = IF first = Nil THEN top + 1 ELSE first]
  BY <1>1, <1>2, <1>n DEF CopyCell, Copying
<1>4. a \in Values
  BY <1>1, <1>2, <1>n DEF ElementOf, TypeOK, Values
<1>5. /\ Apart(Range(new)) /\ c \notin Range(new) /\ run.was = Elements(c)
      /\ Len(new) <= Len(old)
      /\ at = IF Len(new) = Len(old) THEN Nil ELSE old[Len(new) + 1]
      /\ last = IF new = <<>> THEN Nil ELSE Last(new)
      /\ \A i \in 1..Len(new) : car[new[i]] = ElementOf(old[i])
  BY <1>2, <1>n DEF ListsInv, CopyInv
<1>6. /\ first = Nil <=> new = <<>>
      /\ first = Nil <=> last = Nil
      /\ last # Nil => last \in Range(new) /\ last \in Ref /\ cdr[last] = Nil
  BY <1>2, <1>n, CopyFacts
<1>7. /\ new \in Seq(Ref) /\ Len(new) \in Nat /\ Range(new) = {new[i] : i \in 1..Len(new)}
      /\ \A i \in 1..Len(new) : new[i] \in Ref
      /\ old \in Seq(Ref) /\ Len(old) \in Nat /\ Len(old) >= 1
      /\ \A i \in 1..Len(old) : old[i] \in Ref
      /\ cdr[old[Len(old)]] = Nil
      /\ \A i \in 1..(Len(old) - 1) : cdr[old[i]] = old[i + 1]
  <2>1. /\ Chain(first) \in Seq(Ref) /\ Len(Chain(first)) \in Nat
        /\ \A i \in 1..Len(Chain(first)) : Chain(first)[i] \in Ref
        /\ Range(Chain(first)) = {Chain(first)[i] : i \in 1..Len(Chain(first))}
    BY <1>1, ChainType
  <2>2. \A i \in 1..Len(Chain(c)) : Chain(c)[i] \in Ref
    BY <1>1, ChainType
  <2>3. /\ Chain(c) \in Seq(Ref) /\ Len(Chain(c)) \in Nat /\ Len(Chain(c)) >= 1
        /\ cdr[Chain(c)[Len(Chain(c))]] = Nil
        /\ \A i \in 1..(Len(Chain(c)) - 1) : cdr[Chain(c)[i]] = Chain(c)[i + 1]
    BY <1>1, ChainFacts
  <2> QED BY <1>n, <2>1, <2>2, <2>3
<1>8. Grown /\ car'[n] = a
  BY <1>1, <1>3, <1>4, <1>6, <1>n, ConsGrows, LastGrows
<1>9. /\ run' \in Copying' /\ run'.op = "copy" /\ run'.list = c /\ run'.was = run.was
      /\ run'.at = cdr[at] /\ run'.last = n /\ run'.first = next
  <2>1. n = top + 1 /\ Ref' = Ref \cup {n}
    BY <1>8, <1>n DEF Grown
  <2>2. cdr[at] \in Ref \cup {Nil}
    BY <1>1, <1>2 DEF TypeOK
  <2> QED BY <1>1, <1>2, <1>3, <2>1, <2>2 DEF Copying
<1>10. var' \in [Names -> Ref' \cup {Nil}]
  BY <1>1, <1>3, <1>8 DEF TypeOK, Grown
<1>11. TypeOK' /\ Ranked'
  BY <1>1, <1>8, <1>9, <1>10, TypeGrows DEF Grown
<1>12. ChainIn(cdr', next) = Append(new, n) /\ next # Nil
  <2>1. CASE first = Nil
    <3>1. ChainIn(cdr', n) = <<n>> \o Chain(Nil) /\ Chain(Nil) = <<>>
      BY <1>1, <1>3, <1>4, <1>6, <2>1, <1>n, ConsChains, NoChain DEF Chain
    <3>2. <<n>> \in Seq({n})
      OBVIOUS
    <3>3. ChainIn(cdr', n) = <<n>>
      BY <3>1, <3>2, ConcatEmptySeq
    <3>4. Append(<<>>, n) = <<n>>
      OBVIOUS
    <3>5. n # Nil
      BY <1>8, <1>n, Constants DEF Grown
    <3> QED BY <1>6, <2>1, <3>3, <3>4, <3>5
  <2>2. CASE first # Nil
    <3>1. first \in Ref /\ last \in Range(Chain(first)) /\ cdr[last] = Nil /\ last \in Ref
      BY <1>6, <1>n, <2>2
    <3>2. NewLast(last, a)
      BY <1>3, <1>6, <2>2
    <3>3. ChainIn(cdr', first) = Append(Chain(first), top')
      BY <1>1, <1>4, <3>1, <3>2, LastChains
    <3> QED BY <1>n, <2>2, <3>3
  <2> QED BY <2>1, <2>2
<1>13. ChainIn(cdr', c) = old /\ ElementsIn(car', cdr', c) = Elements(c)
  <2>1. Range(Chain(c)) \cap Range(new) = {}
    BY <1>1, <1>5, <1>n, ApartChain
  <2>2. ChainIn(cdr', c) = Chain(c)
    <3>1. CASE last = Nil
      BY <1>1, <1>3, <1>4, <3>1, ConsChains
    <3>2. CASE last # Nil
      BY <1>1, <1>3, <1>4, <1>6, <2>1, <3>2, LastChains
    <3> QED BY <3>1, <3>2
  <2> QED BY <1>1, <1>8, <1>n, <2>2, ElementsKept
<1>m. PICK more : more = Append(new, n)
  OBVIOUS
<1>14. /\ Len(more) = Len(new) + 1 /\ more[Len(new) + 1] = n /\ more # <<>>
       /\ \A i \in 1..Len(new) : more[i] = new[i]
       /\ Last(more) = n /\ Range(more) = Range(new) \cup {n}
  <2>1. /\ Len(more) = Len(new) + 1 /\ more[Len(new) + 1] = n
        /\ \A i \in 1..Len(new) : more[i] = new[i]
        /\ DOMAIN more = 1..(Len(new) + 1)
    BY <1>7, <1>m
  <2>2. Range(more) = Range(new) \cup {n}
    <3>1. 1..(Len(new) + 1) = (1..Len(new)) \cup {Len(new) + 1}
      BY <1>7
    <3>2. Range(more) = {more[i] : i \in 1..(Len(new) + 1)}
      BY <2>1 DEF Range
    <3>3. {more[i] : i \in 1..(Len(new) + 1)} =
            {more[i] : i \in 1..Len(new)} \cup {more[Len(new) + 1]}
      BY ONLY <3>1
    <3>4. {more[i] : i \in 1..Len(new)} = {new[i] : i \in 1..Len(new)}
      BY ONLY <2>1
    <3> QED BY <1>7, <2>1, <3>2, <3>3, <3>4
  <2>3. more # <<>>
    BY <1>7, <2>1
  <2> QED BY <2>1, <2>2, <2>3 DEF Last
<1>15. Len(new) # Len(old) /\ at = old[Len(new) + 1] /\ Len(new) + 1 \in 1..Len(old)
  <2>1. at # Nil
    BY <1>1, <1>2
  <2> QED BY <1>5, <1>7, <2>1
<1>16. CopyInv'
  <2>1. Chain(run.list)' = old /\ Chain(run.first)' = more /\ Elements(run.list)' = Elements(c)
    BY <1>9, <1>12, <1>13, <1>m DEF Chain, Elements
  <2>2. Apart(Range(Chain(run.first)))'
    <3>1. CASE last = Nil
      <4>1. NewCell(a, Nil) /\ UNCHANGED var
        BY <1>3, <3>1
      <4>2. Apart(Range(new) \cup {n})'
        BY <1>1, <1>4, <1>5, <1>n, <4>1, ApartCons
      <4> QED BY <1>14, <2>1, <4>2 DEF Apart
    <3>2. CASE last # Nil
      <4>1. last \in Range(new) /\ cdr[last] = Nil /\ NewLast(last, a) /\ UNCHANGED var
        BY <1>3, <1>6, <3>2
      <4>2. Apart(Range(new) \cup {n})'
        BY <1>1, <1>4, <1>5, <1>n, <4>1, ApartLast
      <4> QED BY <1>14, <2>1, <4>2 DEF Apart
    <3> QED BY <3>1, <3>2
  <2>3. c \notin Range(more)
    BY <1>5, <1>8, <1>14, <1>n DEF Grown
  <2>4. cdr[at] = IF Len(more) = Len(old) THEN Nil ELSE old[Len(more) + 1]
    <3>1. CASE Len(more) = Len(old)
      BY <1>7, <1>14, <1>15, <3>1
    <3>2. CASE Len(more) # Len(old)
      <4>1. Len(new) + 1 \in 1..(Len(old) - 1)
        BY <1>7, <1>14, <1>15, <3>2
      <4> QED BY <1>7, <1>14, <1>15, <3>2, <4>1
    <3> QED BY <3>1, <3>2
  <2>5. Len(more) <= Len(old)
    BY <1>7, <1>14, <1>15
  <2>6. \A i \in 1..Len(old) : ElementOf(old[i])' = ElementOf(old[i])
    <3>1. \A o \in Ref : ElementOf(o)' = ElementOf(o)
      BY <1>8 DEF ElementOf, Grown
    <3> QED BY <1>7, <3>1
  <2>7. ASSUME NEW i \in 1..Len(more) PROVE car'[more[i]] = ElementOf(old[i])
    <3>1. CASE i = Len(new) + 1
      BY <1>8, <1>14, <1>15, <1>n, <3>1
    <3>2. CASE i # Len(new) + 1
      <4>1. i \in 1..Len(new)
        BY <1>7, <1>14, <3>2
      <4>2. car'[new[i]] = car[new[i]]
        BY <1>7, <1>8, <4>1 DEF Grown
      <4> QED BY <1>5, <1>14, <4>1, <4>2
    <3> QED BY <3>1, <3>2
  <2> QED BY <1>5, <1>9, <1>14, <2>1, <2>2, <2>3, <2>4, <2>5, <2>6, <2>7 DEF CopyInv
<1>17. NoneEnded' /\ ReverseIsFresh' /\ AppendAddsLast'
  BY <1>3 DEF ListsInv, NoneEnded, ReverseIsFresh, AppendAddsLast, Nothing
<1> QED BY <1>9, <1>11, <1>16, <1>17 DEF ListsInv, AppendInv, ReverseInv

(* One more cell of the reverse.                                           *)
LEMMA TakeStep ==
  ASSUME ListsInv, run.op = "reverse", run.at # Nil, NewCell(car[run.at], run.acc),
         run' = [run EXCEPT !.at = cdr[run.at], !.acc = top + 1],
         UNCHANGED <<var, done>>
  PROVE  ListsInv'
<1>1. /\ run \in Reversing /\ TypeOK /\ Ranked /\ Nil \notin Ref
  BY RunShape, Constants, NextCdrs DEF ListsInv
<1>2. PICK at \in Ref, acc \in Ref \cup {Nil} : at = run.at /\ acc = run.acc
  BY <1>1 DEF Reversing
<1>n. PICK n, a, new, left, rest : /\ n = top' /\ a = car[at] /\ new = Chain(acc)
                                   /\ left = Chain(at) /\ rest = Chain(cdr[at])
  OBVIOUS
<1>3. a \in Values /\ cdr[at] \in Ref \cup {Nil} /\ NewCell(a, acc)
  BY <1>1, <1>2, <1>n, NextCdrs DEF TypeOK
<1>4. Grown /\ car'[n] = a
  BY <1>1, <1>3, <1>n, ConsGrows
<1>5. /\ run' \in Reversing' /\ run'.op = "reverse" /\ run'.list = run.list
      /\ run'.was = run.was /\ run'.at = cdr[at] /\ run'.acc = n
  <2>1. n = top + 1 /\ Ref' = Ref \cup {n}
    BY <1>4, <1>n DEF Grown
  <2> QED BY <1>1, <1>2, <1>3, <2>1 DEF Reversing
<1>6. var' \in [Names -> Ref' \cup {Nil}]
  BY <1>1, <1>4 DEF TypeOK, Grown
<1>7. TypeOK' /\ Ranked'
  BY <1>1, <1>4, <1>5, <1>6, TypeGrows DEF Grown
<1>8. Apart(Range(new))
  BY <1>2, <1>n DEF ListsInv, ReverseInv
<1>9. /\ new \in Seq(Ref) /\ Len(new) \in Nat /\ Range(new) = {new[i] : i \in 1..Len(new)}
      /\ \A i \in 1..Len(new) : new[i] \in Ref
  BY <1>1, <1>n, ChainType
<1>10. /\ rest \in Seq(Ref) /\ Len(rest) \in Nat /\ \A i \in 1..Len(rest) : rest[i] \in Ref
  BY <1>1, <1>3, <1>n, ChainType
<1>11. left = <<at>> \o rest
  BY <1>1, <1>n, ChainFrom
<1>12. Len(left) = Len(rest) + 1 /\ left[1] = at /\ \A i \in 1..Len(rest) : left[i + 1] = rest[i]
  BY <1>10, <1>11
<1>13. ChainIn(cdr', n) = <<n>> \o new
  BY <1>1, <1>3, <1>n, ConsChains
<1>14. ChainIn(cdr', cdr[at]) = rest
  <2>1. CASE cdr[at] = Nil
    BY <1>n, <2>1, NoChain DEF Chain
  <2>2. CASE cdr[at] # Nil
    BY <1>1, <1>3, <1>n, <2>2, ConsChains
  <2> QED BY <2>1, <2>2
<1>m. PICK more : more = <<n>> \o new
  OBVIOUS
<1>15. /\ Len(more) = Len(new) + 1 /\ more[1] = n
       /\ \A i \in 1..Len(new) : more[i + 1] = new[i]
       /\ Range(more) = Range(new) \cup {n}
  <2>1. /\ Len(more) = Len(new) + 1 /\ more[1] = n
        /\ \A i \in 1..Len(new) : more[i + 1] = new[i]
        /\ DOMAIN more = 1..(Len(new) + 1)
    BY <1>9, <1>m
  <2>2. Range(more) = {more[i] : i \in 1..(Len(new) + 1)}
    BY <2>1 DEF Range
  <2>3. ASSUME NEW i \in 1..(Len(new) + 1) PROVE more[i] \in Range(new) \cup {n}
    <3>1. CASE i = 1
      BY <2>1, <3>1
    <3>2. CASE i # 1
      <4>1. i - 1 \in 1..Len(new) /\ (i - 1) + 1 = i
        BY <1>9, <3>2
      <4> QED BY <1>9, <2>1, <4>1
    <3> QED BY <3>1, <3>2
  <2>4. ASSUME NEW i \in 1..Len(new) PROVE new[i] \in Range(more)
    <3>1. i + 1 \in 1..(Len(new) + 1) /\ more[i + 1] = new[i]
      BY <1>9, <2>1
    <3> QED BY <2>2, <3>1
  <2>5. n \in Range(more)
    <3>1. 1 \in 1..(Len(new) + 1)
      BY <1>9
    <3> QED BY <2>1, <2>2, <3>1
  <2> QED BY <1>9, <2>1, <2>2, <2>3, <2>4, <2>5
<1>16. ASSUME run.list # NullVal, Range(run.was) \subseteq Items
       PROVE  /\ Len(run.was) = Len(more) + Len(rest)
              /\ \A i \in 1..Len(more) : car'[more[i]] = run.was[Len(more) + 1 - i]
              /\ \A i \in 1..Len(rest) : car'[rest[i]] = run.was[Len(more) + i]
  <2>1. /\ Len(run.was) = Len(new) + Len(left)
        /\ \A i \in 1..Len(new) : car[new[i]] = run.was[Len(new) + 1 - i]
        /\ \A i \in 1..Len(left) : car[left[i]] = run.was[Len(new) + i]
    BY <1>2, <1>16, <1>n DEF ListsInv, ReverseInv
  <2>2. ASSUME NEW i \in 1..Len(more) PROVE car'[more[i]] = run.was[Len(more) + 1 - i]
    <3>1. CASE i = 1
      <4>1. car[left[1]] = run.was[Len(new) + 1]
        <5>1. Len(rest) \in Nat /\ Len(left) = Len(rest) + 1
          BY <1>10, <1>12
        <5>2. 1 \in 1..Len(left)
          BY ONLY <5>1
        <5> QED BY <2>1, <5>2
      <4>2. Len(more) + 1 - 1 = Len(new) + 1
        BY <1>9, <1>15
      <4>3. more[i] = n /\ left[1] = at /\ car'[n] = car[at]
        BY <1>4, <1>12, <1>15, <1>n, <3>1
      <4> QED BY ONLY <3>1, <4>1, <4>2, <4>3
    <3>2. CASE i # 1
      <4>1. i - 1 \in 1..Len(new) /\ (i - 1) + 1 = i /\ Len(new) + 1 - (i - 1) = Len(more) + 1 - i
        BY <1>9, <1>15, <3>2
      <4>2. more[i] = new[i - 1] /\ new[i - 1] \in Ref
        BY <1>9, <1>15, <4>1
      <4>3. car'[new[i - 1]] = car[new[i - 1]]
        BY <1>4, <4>2 DEF Grown
      <4> QED BY <2>1, <4>1, <4>2, <4>3
    <3> QED BY <3>1, <3>2
  <2>3. ASSUME NEW i \in 1..Len(rest) PROVE car'[rest[i]] = run.was[Len(more) + i]
    <3>1. left[i + 1] = rest[i] /\ rest[i] \in Ref
      BY <1>10, <1>12
    <3>2. i + 1 \in 1..Len(left)
      <4>1. Len(rest) \in Nat /\ Len(left) = Len(rest) + 1
        BY <1>10, <1>12
      <4> QED BY ONLY <4>1, <2>3
    <3>3. Len(new) + (i + 1) = Len(more) + i
      <4>1. Len(new) \in Nat /\ Len(more) = Len(new) + 1
        BY <1>9, <1>15
      <4> QED BY ONLY <4>1, <2>3
    <3>4. car[left[i + 1]] = run.was[Len(new) + (i + 1)]
      BY <2>1, <3>2
    <3>5. car'[rest[i]] = car[rest[i]]
      BY <1>4, <3>1 DEF Grown
    <3> QED BY ONLY <3>1, <3>3, <3>4, <3>5
  <2> QED BY <1>9, <1>10, <1>12, <1>15, <2>1, <2>2, <2>3
<1>17. ReverseInv'
  <2>1. Chain(run.acc)' = more /\ Chain(run.at)' = rest
    BY <1>5, <1>13, <1>14, <1>m DEF Chain
  <2>2. Apart(Range(Chain(run.acc)))'
    <3>1. Apart(Range(new) \cup {n})'
      BY <1>1, <1>3, <1>8, <1>n, ApartCons
    <3> QED BY <1>15, <2>1, <3>1 DEF Apart
  <2>3. n # Nil
    BY <1>4, <1>n, Constants DEF Grown
  <2> QED BY <1>5, <1>16, <2>1, <2>2, <2>3 DEF ReverseInv
<1>18. NoneEnded' /\ ReverseIsFresh' /\ AppendAddsLast'
  BY DEF ListsInv, NoneEnded, ReverseIsFresh, AppendAddsLast, Nothing
<1> QED BY <1>5, <1>7, <1>17, <1>18 DEF ListsInv, AppendInv, CopyInv

(* The reverse is done: cells of its own, with the elements in the         *)
(* opposite order.                                                         *)
LEMMA TurnedStep ==
  ASSUME ListsInv, run.op = "reverse", run.at = Nil, UNCHANGED heap,
         Finish(run.x, run.acc, How("reverse"))
  PROVE  ListsInv'
<1>1. run \in Reversing /\ TypeOK /\ Ranked
  BY RunShape DEF ListsInv
<1>2. run.acc # Nil /\ Apart(Range(Chain(run.acc)))
  BY DEF ListsInv, ReverseInv
<1>3. PICK x \in Names, acc \in Ref : x = run.x /\ acc = run.acc
  BY <1>1, <1>2 DEF Reversing
<1>n. PICK new, was, list : new = Chain(acc) /\ was = run.was /\ list = run.list
  OBVIOUS
<1>4. /\ var' = [var EXCEPT ![x] = acc] /\ run' = Idle
      /\ done' = [op |-> "reverse", x |-> x, list |-> list, was |-> was]
  BY <1>3, <1>n DEF Finish, How
<1>5. TypeOK' /\ Ranked'
  BY <1>1, <1>4, TypeStays DEF TypeOK
<1>6. /\ done'.op = "reverse" /\ done'.x = x /\ done'.list = list /\ done'.was = was
      /\ var'[x] = acc /\ run'.op = "idle"
  BY <1>1, <1>4 DEF Idle, TypeOK
<1>7. /\ Len(new) \in Nat /\ Len(new) >= 1 /\ new[1] = acc
      /\ Range(new) = {new[i] : i \in 1..Len(new)}
  <2>1. Range(Chain(acc)) = {Chain(acc)[i] : i \in 1..Len(Chain(acc))}
    BY <1>1, ChainType
  <2>2. Len(Chain(acc)) \in Nat /\ Len(Chain(acc)) >= 1 /\ Chain(acc)[1] = acc
    BY <1>1, ChainFacts
  <2> QED BY <1>n, <2>1, <2>2
<1>8. Apart(Range(new)) /\ acc \in Range(new)
  <2>1. 1 \in 1..Len(new)
    BY <1>7
  <2> QED BY <1>2, <1>3, <1>7, <1>n, <2>1
<1>9. ASSUME NEW y \in Names \ {x} PROVE Range(Chain(var'[y])) \cap Range(new) = {}
  <2>1. var'[y] = var[y] /\ var[y] \in Ref \cup {Nil}
    BY <1>1, <1>4 DEF TypeOK
  <2>2. var[y] \notin Range(new)
    BY <1>8 DEF Apart
  <2> QED BY <1>1, <1>8, <2>1, <2>2, ApartChain
<1>10. Range(new) \cap {NullVal, Source} = {} /\ acc # NullVal
  BY <1>8 DEF Apart
<1>11. ASSUME list # NullVal, Range(was) \subseteq Items PROVE Elements(acc) = Reverse(was)
  <2>1. Chain(run.at) = <<>> /\ Len(<<>>) = 0
    BY NoChain DEF Chain
  <2>2. /\ Len(was) = Len(new) + 0
        /\ \A i \in 1..Len(new) : car[new[i]] = was[Len(new) + 1 - i]
    BY <1>3, <1>11, <1>n, <2>1 DEF ListsInv, ReverseInv
  <2>3. Elements(acc) = [i \in 1..Len(new) |-> car[new[i]]]
    BY <1>10, <1>n DEF Elements, ElementsIn, Chain
  <2>4. \A i \in 1..Len(new) : car[new[i]] = was[(Len(was) - i) + 1]
    <3>1. Len(was) = Len(new)
      BY <1>7, <2>2
    <3>2. \A i \in 1..Len(new) : Len(new) + 1 - i = (Len(new) - i) + 1
      BY <1>7
    <3> QED BY <2>2, <3>1, <3>2
  <2> QED BY <1>7, <2>2, <2>3, <2>4 DEF Reverse
<1>12. ReverseIsFresh'
  <2>1. cdr' = cdr /\ car' = car
    BY DEF heap
  <2> QED BY <1>6, <1>9, <1>10, <1>11, <1>n, <2>1 DEF ReverseIsFresh, Chain, Elements
<1>13. AppendAddsLast' /\ NoneEnded'
  BY <1>6 DEF AppendAddsLast, NoneEnded
<1> QED BY <1>5, <1>6, <1>12, <1>13 DEF ListsInv, AppendInv, CopyInv, ReverseInv

LEMMA LoopStep ==
  ASSUME ListsInv, Loops
  PROVE  ListsInv'
<1>1. CASE AppendWalk
  BY <1>1, WalkStep
<1>2. CASE bl_list_append
  BY <1>2, AppendStep
<1>3. CASE CopyWalk
  <2>1. run.op = "copy" /\ NullVal \in Ref
    BY <1>3, NextCdrs DEF CopyWalk, Running, ListsInv
  <2>2. ASSUME NEW c \in Ref, AfterCopy(c), Copied(run.list) => run.at = Nil /\ c = run.first
        PROVE  ListsInv'
    BY <2>1, <2>2, RestStep, TurnStep
  <2>3. CASE ~ Copied(run.list) /\ AfterCopy(NullVal)
    BY <2>1, <2>2, <2>3
  <2>4. CASE Copied(run.list) /\ CopyCell
    BY <2>1, <2>4, CellStep
  <2>5. CASE Copied(run.list) /\ run.at = Nil /\ AfterCopy(run.first)
    <3>1. run.first \in Ref
      BY <2>1, <2>5, CopyFacts DEF Copying
    <3> QED BY <2>2, <2>5, <3>1
  <2> QED BY <1>3, <2>3, <2>4, <2>5 DEF CopyWalk
<1>4. CASE bl_list_reverse
  <2>1. CASE run.at = Nil
    BY <1>4, <2>1, TurnedStep DEF bl_list_reverse, Running
  <2>2. CASE run.at # Nil
    BY <1>4, <2>2, TakeStep DEF bl_list_reverse, Running
  <2> QED BY <2>1, <2>2
<1>5. CASE ForeachNext
  BY <1>5, StayStep DEF ForeachNext
<1> QED BY <1>1, <1>2, <1>3, <1>4, <1>5 DEF Loops

(* Evaluating an expression is one of the operations.                      *)
LEMMA EvalCases ==
  ASSUME NEW e \in Expressions, bl_eval(e)
  PROVE  \E x, y \in Names, i \in Items :
           \/ \E v \in {var[y], NullVal, Source} : v # Nil /\ bl_oper_set(x, v)
           \/ bl_eval_cons(x, i)
           \/ bl_oper_prepend(x, y, i)
           \/ bl_oper_append(x, y, i)
           \/ bl_oper_reverse(x, y)
           \/ bl_oper_rest(x, y)
<1>1. PICK z \in Items : TRUE
  BY ListsAssumption
<1>2. CASE e.op = "name"
  <2>1. e.x \in Names /\ e.y \in Names
    BY <1>2 DEF Expressions
  <2> QED BY <1>1, <1>2, <2>1 DEF bl_eval
<1>3. CASE e.op = "value"
  <2>1. e.x \in Names /\ e.v \in {NullVal, Source}
    BY <1>3 DEF Expressions
  <2>2. e.v # Nil
    BY <2>1, Constants DEF NullVal, Source
  <2> QED BY <1>1, <1>3, <2>1, <2>2 DEF bl_eval
<1>4. CASE e.op = "cons"
  <2>1. e.x \in Names /\ e.i \in Items
    BY <1>4 DEF Expressions
  <2> QED BY <1>4, <2>1 DEF bl_eval
<1>5. CASE e.op \in {"prepend", "append"}
  <2>1. e.x \in Names /\ e.y \in Names /\ e.i \in Items
    BY <1>5 DEF Expressions
  <2> QED BY <1>5, <2>1 DEF bl_eval
<1>6. CASE e.op \in {"reverse", "rest"}
  <2>1. e.x \in Names /\ e.y \in Names
    BY <1>6 DEF Expressions
  <2> QED BY <1>1, <1>6, <2>1 DEF bl_eval
<1> QED BY <1>2, <1>3, <1>4, <1>5, <1>6 DEF bl_eval

LEMMA EvalStep ==
  ASSUME ListsInv, NEW e \in Expressions, bl_eval(e)
  PROVE  ListsInv'
<1>1. PICK x \in Names, y \in Names, i \in Items :
       \/ \E v \in {var[y], NullVal, Source} : v # Nil /\ bl_oper_set(x, v)
       \/ bl_eval_cons(x, i)
       \/ bl_oper_prepend(x, y, i)
       \/ bl_oper_append(x, y, i)
       \/ bl_oper_reverse(x, y)
       \/ bl_oper_rest(x, y)
  BY EvalCases
<1>2. var[y] \in Ref \cup {Nil} /\ NullVal \in Ref /\ Source \in Ref
  BY NextCdrs DEF ListsInv, TypeOK
<1>3. CASE \E v \in {var[y], NullVal, Source} : v # Nil /\ bl_oper_set(x, v)
  BY <1>2, <1>3, SetStep
<1>4. CASE bl_eval_cons(x, i)
  BY <1>4, MadeStep DEF bl_eval_cons
<1>5. CASE bl_oper_prepend(x, y, i)
  BY <1>2, <1>5, MadeStep DEF bl_oper_prepend
<1>6. CASE bl_oper_append(x, y, i)
  BY <1>6, StartAppend
<1>7. CASE bl_oper_reverse(x, y)
  BY <1>7, StartCopy DEF bl_oper_reverse
<1>8. CASE bl_oper_rest(x, y)
  BY <1>8, StartCopy DEF bl_oper_rest
<1> QED BY <1>1, <1>3, <1>4, <1>5, <1>6, <1>7, <1>8

(* A body skipped, or a foreach begun, leaves the lists alone.             *)
LEMMA EvaluateStep ==
  ASSUME ListsInv, EachOK, Typed \/ Body
  PROVE  ListsInv'
<1>1. CASE \E e \in Expressions : bl_eval(e)
  BY <1>1, EvalStep
<1>2. CASE UNCHANGED <<heap, var, run>> /\ done' \in {done, Nothing}
  BY <1>2, StayStep
<1>3. each # Idle => each.body \in Expressions
  BY DEF EachOK
<1> QED BY <1>1, <1>2, <1>3 DEF Typed, Body, bl_oper_foreach

(* The body of a foreach stays what it was.                                *)
LEMMA EvalEach ==
  ASSUME EachOK, NEW e, bl_eval(e)
  PROVE  EachOK'
<1>1. each' = each \/ BodyDone
  BY DEF bl_eval, bl_oper_set, bl_eval_cons, bl_oper_prepend, bl_oper_append,
         bl_oper_reverse, bl_oper_rest, Start, Finish
<1> QED BY <1>1 DEF EachOK, BodyDone

LEMMA EachStep ==
  ASSUME ListsInv, EachOK, [Next]_vars
  PROVE  EachOK'
<1>1. TypeOK /\ Ref \subseteq Cells
  BY Constants DEF ListsInv, TypeOK, Ref, Cells
<1>2. CASE Typed \/ Body
  <2>1. CASE \E e \in Expressions, y \in Names : bl_oper_foreach(y, e)
    <3>1. PICK e \in Expressions, y \in Names : bl_oper_foreach(y, e)
      BY <2>1
    <3>2. var[y] \in Cells /\ top \in Cells
      BY <1>1, <3>1 DEF bl_oper_foreach, TypeOK
    <3> QED BY <3>1, <3>2 DEF bl_oper_foreach, EachOK
  <2>2. CASE BodyDone
    BY <2>2 DEF EachOK, BodyDone
  <2> QED BY <1>2, <2>1, <2>2, EvalEach DEF Typed, Body
<1>3. CASE ForeachNext
  <2>1. each # Idle /\ each.at \in Cells /\ cdr[each.at] \in Ref \cup {Nil}
    BY <1>1, <1>3 DEF ForeachNext, EachOK, TypeOK
  <2> QED BY <1>1, <1>3, <2>1 DEF ForeachNext, EachOK
<1>4. CASE AppendWalk \/ bl_list_append \/ CopyWalk \/ bl_list_reverse \/ UNCHANGED vars
  <2>1. each' = each \/ BodyDone
    BY <1>4 DEF AppendWalk, bl_list_append, CopyWalk, CopyCell, AfterCopy, bl_list_reverse,
                Finish, vars
  <2> QED BY <2>1 DEF EachOK, BodyDone
<1> QED BY <1>2, <1>3, <1>4 DEF Next, Loops

LEMMA InvHolds == Spec => [](ListsInv /\ EachOK)
<1>1. ListsInv /\ EachOK /\ [Next]_vars => ListsInv' /\ EachOK'
  <2> SUFFICES ASSUME ListsInv, EachOK, [Next]_vars PROVE ListsInv' /\ EachOK'
    OBVIOUS
  <2>1. CASE Typed \/ Body
    BY <2>1, EvaluateStep, EachStep
  <2>2. CASE Loops /\ UNCHANGED ops
    BY <2>2, LoopStep, EachStep
  <2>3. CASE UNCHANGED vars
    BY <2>3, StayStep, EachStep DEF vars, heap
  <2> QED BY <2>1, <2>2, <2>3 DEF Next
<1>2. Init => ListsInv /\ EachOK
  BY InitHolds DEF Init, EachOK
<1> QED BY <1>1, <1>2, PTL DEF Spec

(* The whole invariant, for any number of cells.                           *)
THEOREM ListsInvHolds == Spec => []ListsInv
BY InvHolds, PTL

(* No chain of cells is a ring, reverse returns the elements in the        *)
(* opposite order in cells of its own, append adds its element at the end  *)
(* (list_ops.c:40-91).                                                     *)
THEOREM ListsAsBuiltHolds == Spec => []ListsAsBuilt
<1>1. ListsInv /\ EachOK => ListsAsBuilt
  <2> SUFFICES ASSUME ListsInv, EachOK PROVE ListsAsBuilt
    OBVIOUS
  <2>1. Acyclic
    <3> SUFFICES ASSUME NEW c \in Cells, cdr[c] # Nil PROVE IsInjective(Chain(c))
      BY DEF Acyclic
    <3>1. c \in Ref
      BY Constants DEF ListsInv, TypeOK, Ref, Cells
    <3>2. /\ Chain(c) \in Seq(Ref)
          /\ \A i, j \in 1..Len(Chain(c)) : Chain(c)[i] = Chain(c)[j] => i = j
      BY <3>1, ChainFacts DEF ListsInv
    <3>3. DOMAIN Chain(c) = 1..Len(Chain(c))
      BY <3>2
    <3> QED BY <3>2, <3>3 DEF IsInjective
  <2> QED BY <2>1 DEF ListsInv, ListsAsBuilt
<1> QED BY <1>1, InvHolds, PTL

-----------------------------------------------------------------------------
(* What a step does to the cells.                                          *)
LEMMA HeapStep ==
  ASSUME ListsInv, EachOK, [Next]_vars
  PROVE  \/ UNCHANGED heap
         \/ \E a \in Values, d \in Ref \cup {Nil} : NewCell(a, d)
         \/ \E p \in Ref, a \in Values : cdr[p] = Nil /\ NewLast(p, a)
<1> USE DEF Values
<1>1. TypeOK /\ Nil \in Ref \cup {Nil} /\ \A y \in Names : var[y] \in Ref \cup {Nil}
  BY DEF ListsInv, TypeOK
<1>2. CASE \E e \in Expressions : bl_eval(e)
  <2>1. PICK x \in Names, y \in Names, i \in Items :
         \/ \E v \in {var[y], NullVal, Source} : v # Nil /\ bl_oper_set(x, v)
         \/ bl_eval_cons(x, i)
         \/ bl_oper_prepend(x, y, i)
         \/ bl_oper_append(x, y, i)
         \/ bl_oper_reverse(x, y)
         \/ bl_oper_rest(x, y)
    BY <1>2, EvalCases
  <2>2. CASE bl_eval_cons(x, i)
    BY <1>1, <2>2 DEF bl_eval_cons
  <2>3. CASE bl_oper_prepend(x, y, i)
    BY <1>1, <2>3 DEF bl_oper_prepend
  <2>4. CASE ~ bl_eval_cons(x, i) /\ ~ bl_oper_prepend(x, y, i)
    BY <2>1, <2>4 DEF bl_oper_set, bl_oper_append, bl_oper_reverse, bl_oper_rest, Start
  <2> QED BY <2>2, <2>3, <2>4
<1>8. CASE (Typed \/ Body) /\ ~ \E e \in Expressions : bl_eval(e)
  <2>1. each # Idle => each.body \in Expressions
    BY DEF EachOK
  <2> QED BY <1>8, <2>1 DEF Typed, Body, bl_oper_foreach
<1>3. CASE bl_list_append
  <2>1. run.at \in Ref /\ run.v \in Values
    BY <1>1, <1>3, RunShape DEF bl_list_append, Running, Appending
  <2> QED BY <1>3, <2>1 DEF bl_list_append
<1>4. CASE CopyWalk /\ CopyCell
  <2>1. /\ run.op = "copy" /\ run \in Copying
        /\ run.last # Nil => run.last \in Ref /\ cdr[run.last] = Nil
    BY <1>4, CopyFacts DEF CopyWalk, Running
  <2>2. ElementOf(run.at) \in Values
    <3>1. run.at \in Ref /\ run.at \in Cells
      BY <1>1, <1>4, <2>1, CopyFacts DEF CopyCell, Copying
    <3> QED BY <1>1, <3>1 DEF ElementOf, TypeOK
  <2> QED BY <1>1, <1>4, <2>1, <2>2 DEF CopyCell
<1>5. CASE bl_list_reverse
  <2>1. run \in Reversing
    BY <1>1, <1>5, RunShape DEF bl_list_reverse, Running
  <2>2. run.at # Nil => car[run.at] \in Values
    BY <1>1, <2>1, NextCdrs DEF TypeOK, Reversing
  <2> QED BY <1>5, <2>1, <2>2 DEF bl_list_reverse, Reversing
<1>6. CASE UNCHANGED vars
  BY <1>6 DEF vars, heap
<1>7. CASE AppendWalk \/ ForeachNext \/ (CopyWalk /\ ~ CopyCell)
  BY <1>7 DEF AppendWalk, ForeachNext, CopyWalk, AfterCopy
<1> QED BY <1>2, <1>3, <1>4, <1>5, <1>6, <1>7, <1>8 DEF Next, Loops

LEMMA KeepsPrefix ==
  ASSUME ListsInv, EachOK, [Next]_vars, NEW c \in Ref
  PROVE  IsPrefix(Elements(c), ElementsIn(car', cdr', c))
<1> DEFINE e == Elements(c)
           f == ElementsIn(car', cdr', c)
<1>1. e \in Seq(Values) /\ TypeOK /\ Ranked
  BY ElementsType DEF ListsInv
<1>2. ASSUME f = e PROVE IsPrefix(e, f)
  BY <1>1, <1>2 DEF IsPrefix
<1>3. ASSUME Grown, ChainIn(cdr', c) = Append(Chain(c), top') PROVE IsPrefix(e, f)
  <2>1. CASE c = NullVal
    BY <1>2, <2>1 DEF Elements, ElementsIn
  <2>2. CASE c # NullVal
    <3>1. f = Append(e, car'[top']) /\ car'[top'] \in Values
      BY <1>1, <1>3, <2>2, ElementsAdded DEF Grown
    <3> HIDE DEF e, f
    <3>2. /\ Len(e) <= Len(f) /\ Len(e) \in Nat /\ f \in Seq(Values)
          /\ \A i \in 1..Len(e) : f[i] = e[i]
      BY <1>1, <3>1
    <3>3. SubSeq(e, 1, Len(e)) = e
      BY <1>1
    <3>4. SubSeq(f, 1, Len(e)) = e
      <4>1. /\ SubSeq(f, 1, Len(e)) \in Seq(Values) /\ Len(SubSeq(f, 1, Len(e))) = Len(e)
            /\ \A i \in 1..Len(e) : SubSeq(f, 1, Len(e))[i] = f[i]
        BY <3>2
      <4> QED BY <1>1, <3>2, <4>1, SameSequence
    <3> QED BY <3>2, <3>3, <3>4 DEF IsPrefix
  <2> QED BY <2>1, <2>2
<1>4. CASE UNCHANGED heap
  BY <1>2, <1>4 DEF heap, Elements
<1>5. CASE \E a \in Values, d \in Ref \cup {Nil} : NewCell(a, d)
  <2>1. Grown /\ ChainIn(cdr', c) = Chain(c)
    BY <1>1, <1>5, ConsGrows, ConsChains
  <2> QED BY <1>1, <1>2, <2>1, ElementsKept
<1>6. CASE \E p \in Ref, a \in Values : cdr[p] = Nil /\ NewLast(p, a)
  <2>1. PICK p \in Ref, a \in Values : cdr[p] = Nil /\ NewLast(p, a)
    BY <1>6
  <2>2. Grown /\ ChainIn(cdr', c) \in {Append(Chain(c), top'), Chain(c)}
    BY <1>1, <2>1, LastGrows, LastChains
  <2> QED BY <1>1, <1>2, <1>3, <2>2, ElementsKept
<1> QED BY <1>4, <1>5, <1>6, HeapStep

(* A list that somebody refers to never loses or changes an element,       *)
(* whoever appends to the cells it shares (list_ops.c:61).                 *)
THEOREM OthersKeepPrefixHolds == Spec => OthersKeepPrefix
<1>1. ListsInv /\ EachOK /\ [Next]_vars =>
        [\A x \in Names : var[x] # Nil /\ var'[x] = var[x]
           => IsPrefix(Elements(var[x]), ElementsIn(car', cdr', var[x]))]_vars
  <2> SUFFICES ASSUME ListsInv, EachOK, [Next]_vars, NEW x \in Names, var[x] # Nil
               PROVE  IsPrefix(Elements(var[x]), ElementsIn(car', cdr', var[x]))
    OBVIOUS
  <2>1. PICK c \in Ref : c = var[x]
    BY DEF ListsInv, TypeOK
  <2> QED BY <2>1, KeepsPrefix
<1> QED BY <1>1, InvHolds, PTL DEF Spec, OthersKeepPrefix
=============================================================================
