-------------------------- MODULE InterningProofs ----------------------------
(***************************************************************************)
(* For every pool size, every set of names and way of cutting them, every  *)
(* hash function, number of buckets and threshold: cells are handed out at *)
(* most once, the hash table implements the symbols of Symbols, each       *)
(* symbol is a cell of its own, and chains stay bounded.                   *)
(***************************************************************************)
EXTENDS Interning, WellFoundedInduction, TLAPS

-----------------------------------------------------------------------------
(* The pool.  Filled says which cells are out at any moment; the next one  *)
(* is not among them, because the index grows within an array and a new    *)
(* array has a new number.                                                 *)

(* utils.c:15-19: nothing is handed out of the static array at first.      *)
LEMMA InitInv == PoolInit => PoolInv
  BY PoolAssumption DEF PoolInit, PoolInv, PoolTypeOK, Filled

(* utils.c:26-33: one cell more, in this array or the next.                *)
LEMMA StepInv == PoolInv /\ [bl_mk_val]_poolVars => PoolInv'
<1> SUFFICES ASSUME PoolInv, [bl_mk_val]_poolVars PROVE PoolInv'
  OBVIOUS
<1> USE PoolAssumption
<1>1. CASE UNCHANGED poolVars
  BY <1>1 DEF PoolInv, PoolTypeOK, Filled, poolVars
<1>2. CASE bl_mk_val /\ UsedUp
  <2>1. val_pool' = val_pool + 1 /\ last_alloc' = 1 /\ last_alloc = Size
    BY <1>2 DEF bl_mk_val, NewPool, UsedUp, PoolInv, PoolTypeOK
  <2>2. cells' = cells \cup {<<val_pool + 1, 1>>} /\ mkvals' \in Nat
    BY <1>2 DEF bl_mk_val, NewPool, PoolInv, PoolTypeOK
  <2>3. PoolTypeOK'
    BY <2>1, <2>2 DEF PoolInv, PoolTypeOK
  <2>4. Filled'
    BY <2>1, <2>2 DEF PoolInv, PoolTypeOK, Filled
  <2> QED BY <2>3, <2>4 DEF PoolInv
<1>3. CASE bl_mk_val /\ ~ UsedUp
  <2>1. val_pool' = val_pool /\ last_alloc' = last_alloc + 1 /\ last_alloc < Size
    BY <1>3 DEF bl_mk_val, UsedUp, PoolInv, PoolTypeOK
  <2>2. cells' = cells \cup {<<val_pool, last_alloc + 1>>} /\ mkvals' \in Nat
    BY <1>3 DEF bl_mk_val, PoolInv, PoolTypeOK
  <2>3. PoolTypeOK'
    BY <2>1, <2>2 DEF PoolInv, PoolTypeOK
  <2>4. Filled'
    BY <2>1, <2>2 DEF PoolInv, PoolTypeOK, Filled
  <2> QED BY <2>3, <2>4 DEF PoolInv
<1> QED BY <1>1, <1>2, <1>3

(* PoolInv in every state, for every pool size (utils.c:21-41).            *)
THEOREM PoolInvHolds == PoolSpec => []PoolInv
<1>1. QED
  BY InitInv, StepInv, PTL DEF PoolSpec

(* The cell a step of bl_mk_val hands out has not been handed out before.  *)
LEMMA FreshCell ==
  PoolInv /\ bl_mk_val =>
    <<val_pool', last_alloc'>> \notin cells /\ cells' = cells \cup {<<val_pool', last_alloc'>>}
<1> SUFFICES ASSUME PoolInv, bl_mk_val
             PROVE  /\ <<val_pool', last_alloc'>> \notin cells
                    /\ cells' = cells \cup {<<val_pool', last_alloc'>>}
  OBVIOUS
<1>1. CASE UsedUp
  BY <1>1, PoolAssumption DEF PoolInv, PoolTypeOK, Filled, bl_mk_val, UsedUp, NewPool
<1>2. CASE ~ UsedUp
  BY <1>2, PoolAssumption DEF PoolInv, PoolTypeOK, Filled, bl_mk_val, UsedUp
<1> QED BY <1>1, <1>2

LEMMA StepFresh ==
  PoolInv /\ [bl_mk_val]_poolVars => [mkvals' # mkvals => <<val_pool', last_alloc'>> \notin cells]_poolVars
  BY FreshCell DEF poolVars

(* No two values share a cell, whatever the pool size (utils.c:26-33).     *)
THEOREM EachCellOnceHolds == PoolSpec => EachCellOnce
<1>1. QED
  BY PoolInvHolds, StepFresh, PTL DEF PoolSpec, EachCellOnce

(* No cell is further out than one past the end (utils.c:32-33).           *)
THEOREM OnlyLastOutsideHolds == PoolSpec => []OnlyLastOutside
<1>1. PoolInv => OnlyLastOutside
  BY PoolAssumption DEF PoolInv, PoolTypeOK, Filled, OnlyLastOutside
<1>2. QED
  BY <1>1, PoolInvHolds, PTL

-----------------------------------------------------------------------------
(* Induction, from the least element of a set of numbers.                  *)
LEMMA LeastElement ==
  ASSUME NEW T, T \subseteq Nat, T # {}
  PROVE  \E n \in T : \A m \in T : n <= m
<1> DEFINE R == {ss \in Nat \X Nat : ss[1] < ss[2]}
<1>1. IsWellFoundedOn(R, Nat)
  BY NatLessThanWellFounded DEF OpToRel
<1> HIDE DEF R
<1>2. PICK n \in T : \A m \in T : ~ (<<m, n>> \in R)
  BY <1>1, WFMin
<1>3. ASSUME NEW m \in T PROVE n <= m
  <2>1. m \in Nat /\ n \in Nat
    OBVIOUS
  <2>2. m < n => <<m, n>> \in R
    BY <2>1 DEF R
  <2> QED BY <1>2, <2>1, <2>2
<1> QED BY <1>3

LEMMA SetInduction ==
  ASSUME NEW S, 0 \in S, \A n \in Nat : n \in S => n + 1 \in S
  PROVE  Nat \subseteq S
<1>1. SUFFICES ASSUME Nat \ S # {} PROVE FALSE
  OBVIOUS
<1>2. PICK n \in Nat \ S : \A m \in Nat \ S : n <= m
  BY <1>1, LeastElement
<1>3. n # 0
  OBVIOUS
<1>4. n - 1 \in Nat /\ n - 1 \in S
  BY <1>2, <1>3
<1> QED BY <1>4, (n - 1) + 1 = n

(* The functions that recursive definitions over 0..n define exist: each   *)
(* value follows from the one before it.                                   *)
Steps(X, n) == [1..n -> [X -> X]]

Run(X, first, n, next, g) ==
  g \in [0..n -> X] /\ g[0] = first /\ \A i \in 1..n : g[i] = next[i][g[i - 1]]

LEMMA Recursion ==
  ASSUME NEW X, NEW first \in X, NEW n \in Nat, NEW next \in Steps(X, n)
  PROVE  \E g : Run(X, first, n, next, g)
<1> USE DEF Steps, Run
<1> DEFINE Upto(m, g) == /\ g \in [0..m -> X] /\ g[0] = first
                         /\ \A i \in 1..m : g[i] = next[i][g[i - 1]]
           S == {m \in Nat : m <= n => \E g : Upto(m, g)}
<1>1. 0 \in S
  <2>1. Upto(0, [i \in 0..0 |-> first])
    OBVIOUS
  <2> HIDE DEF Upto
  <2> QED BY <2>1
<1>2. ASSUME NEW m \in Nat, m \in S PROVE m + 1 \in S
  <2>1. SUFFICES ASSUME m + 1 <= n PROVE \E h : Upto(m + 1, h)
    OBVIOUS
  <2>2. PICK g : Upto(m, g)
    BY <1>2, <2>1
  <2> DEFINE h == [i \in 0..(m + 1) |-> IF i = m + 1 THEN next[i][g[m]] ELSE g[i]]
  <2>3. next[m + 1][g[m]] \in X
    BY <2>1, <2>2
  <2>4. h \in [0..(m + 1) -> X] /\ h[0] = first
    BY <2>2, <2>3
  <2>5. ASSUME NEW i \in 1..(m + 1) PROVE h[i] = next[i][h[i - 1]]
    <3>1. i - 1 \in 0..m /\ h[i - 1] = g[i - 1]
      BY <2>5
    <3>2. CASE i = m + 1
      BY <3>1, <3>2
    <3>3. CASE i \in 1..m
      BY <2>2, <3>1, <3>3
    <3> QED BY <3>2, <3>3
  <2>6. Upto(m + 1, h)
    BY <2>4, <2>5
  <2> HIDE DEF Upto, h
  <2> QED BY <2>6
<1> HIDE DEF S
<1>3. n \in S
  BY <1>1, <1>2, SetInduction
<1> QED BY <1>3 DEF S

-----------------------------------------------------------------------------
(* Total is the sum it is meant to be.                                     *)
LEMMA TotalSums ==
  ASSUME NEW N \in Nat, NEW f \in [0..(N - 1) -> Nat]
  PROVE  /\ Total(f, 0) = 0
         /\ \A n \in 0..(N - 1) : Total(f, n + 1) = Total(f, n) + f[n]
         /\ \A n \in 0..N : Total(f, n) \in Nat
<1> DEFINE next == [i \in 1..N |-> [t \in Nat |-> t + f[i - 1]]]
<1>1. 0 \in Nat /\ next \in Steps(Nat, N)
  BY DEF Steps
<1> HIDE DEF next
<1>2. PICK s : Run(Nat, 0, N, next, s)
  BY <1>1, Recursion
<1> USE DEF Run
<1>3. ASSUME NEW i \in 1..N PROVE s[i] = s[i - 1] + f[i - 1]
  <2>1. s[i - 1] \in Nat
    BY <1>2
  <2> QED BY <1>2, <2>1 DEF next
<1>4. ASSUME NEW n \in 0..N PROVE Total(f, n) = s[n]
  <2> DEFINE Runs(g) == g = [b \in 0..n |-> IF b = 0 THEN 0 ELSE g[b - 1] + f[b - 1]]
             upTo == CHOOSE g : Runs(g)
             h == [b \in 0..n |-> s[b]]
             k == [b \in 0..n |-> IF b = 0 THEN 0 ELSE h[b - 1] + f[b - 1]]
  <2>1. ASSUME NEW b \in 0..n PROVE h[b] = k[b]
    <3>1. CASE b = 0
      BY <1>2, <3>1
    <3>2. CASE b # 0
      <4>1. b \in 1..N /\ b - 1 \in 0..n
        BY <3>2
      <4> QED BY <1>3, <3>2, <4>1
    <3> QED BY <3>1, <3>2
  <2>2. h = k
    BY <2>1
  <2>3. Runs(h)
    BY <2>2
  <2> HIDE DEF h, Runs
  <2>4. Runs(upTo)
    BY <2>3
  <2> HIDE DEF upTo
  <2> DEFINE S == {b \in Nat : b <= n => upTo[b] = s[b]}
  <2>5. 0 \in S
    BY <1>2, <2>4 DEF Runs
  <2>6. ASSUME NEW b \in Nat, b \in S PROVE b + 1 \in S
    <3>1. SUFFICES ASSUME b + 1 <= n PROVE upTo[b + 1] = s[b + 1]
      OBVIOUS
    <3>2. upTo[b + 1] = upTo[(b + 1) - 1] + f[(b + 1) - 1]
      BY <2>4, <3>1 DEF Runs
    <3>3. s[b + 1] = s[(b + 1) - 1] + f[(b + 1) - 1]
      BY <1>3, <3>1
    <3>4. (b + 1) - 1 = b /\ upTo[b] = s[b]
      BY <2>6, <3>1
    <3> QED BY <3>2, <3>3, <3>4
  <2> HIDE DEF S
  <2>7. n \in S
    <3>1. Nat \subseteq S
      BY <2>5, <2>6, SetInduction
    <3> QED BY <3>1
  <2>8. upTo[n] = s[n]
    BY <2>7 DEF S
  <2> QED BY <2>8 DEF Total, upTo, Runs
<1>5. Total(f, 0) = 0
  BY <1>2, <1>4
<1>6. ASSUME NEW n \in 0..(N - 1) PROVE Total(f, n + 1) = Total(f, n) + f[n]
  <2>1. n + 1 \in 1..N /\ n \in 0..N /\ (n + 1) - 1 = n
    OBVIOUS
  <2>2. s[n + 1] = s[n] + f[n]
    BY <1>3, <2>1
  <2> QED BY <1>4, <2>1, <2>2
<1>7. ASSUME NEW n \in 0..N PROVE Total(f, n) \in Nat
  BY <1>2, <1>4
<1> QED BY <1>5, <1>6, <1>7

LEMMA TotalZero ==
  ASSUME NEW N \in Nat, NEW f \in [0..(N - 1) -> Nat], \A b \in 0..(N - 1) : f[b] = 0
  PROVE  Total(f, N) = 0
<1> DEFINE S == {n \in Nat : n <= N => Total(f, n) = 0}
<1>1. 0 \in S
  BY TotalSums
<1>2. ASSUME NEW n \in Nat, n \in S PROVE n + 1 \in S
  BY <1>2, TotalSums
<1> HIDE DEF S
<1>3. N \in S
  BY <1>1, <1>2, SetInduction
<1> QED BY <1>3 DEF S

(* One more in one place is one more in all.                               *)
LEMMA TotalOneMore ==
  ASSUME NEW N \in Nat, NEW f \in [0..(N - 1) -> Nat], NEW b \in 0..(N - 1),
         NEW g, g = [f EXCEPT ![b] = @ + 1]
  PROVE  Total(g, N) = Total(f, N) + 1
<1>1. g \in [0..(N - 1) -> Nat]
  OBVIOUS
<1> DEFINE S == {n \in Nat : n <= N => Total(g, n) = Total(f, n) + (IF b < n THEN 1 ELSE 0)}
<1>2. 0 \in S
  <2>1. Total(g, 0) = 0 /\ Total(f, 0) = 0
    BY <1>1, TotalSums
  <2> QED BY <2>1
<1>3. ASSUME NEW n \in Nat, n \in S PROVE n + 1 \in S
  <2>1. SUFFICES ASSUME n + 1 <= N PROVE n + 1 \in S
    OBVIOUS
  <2>2. n \in 0..(N - 1) /\ n \in 0..N
    BY <2>1
  <2>3. Total(g, n + 1) = Total(g, n) + g[n] /\ Total(f, n + 1) = Total(f, n) + f[n]
    BY <1>1, <2>2, TotalSums
  <2>4. Total(g, n) = Total(f, n) + (IF b < n THEN 1 ELSE 0) /\ Total(f, n) \in Nat
    BY <1>3, <2>2, TotalSums
  <2>5. g[n] = f[n] + (IF b = n THEN 1 ELSE 0) /\ f[n] \in Nat
    BY <2>2
  <2> HIDE DEF S
  <2>6. Total(g, n + 1) = Total(f, n + 1) + (IF b < n + 1 THEN 1 ELSE 0)
    BY <2>3, <2>4, <2>5
  <2> QED BY <2>6 DEF S
<1> HIDE DEF S
<1>4. N \in S
  BY <1>2, <1>3, SetInduction
<1> QED BY <1>4 DEF S

LEMMA Distributes == \A x, y, k \in Nat : (x + y) * k = x * k + y * k /\ x * k \in Nat
  OBVIOUS

LEMMA TotalTimes ==
  ASSUME NEW N \in Nat, NEW k \in Nat,
         NEW f \in [0..(N - 1) -> Nat], NEW h \in [0..(N - 1) -> Nat],
         \A b \in 0..(N - 1) : f[b] * k <= h[b]
  PROVE  Total(f, N) * k <= Total(h, N)
<1> DEFINE S == {n \in Nat : n <= N => Total(f, n) * k <= Total(h, n)}
<1>1. 0 \in S
  <2>1. Total(f, 0) = 0 /\ Total(h, 0) = 0
    BY TotalSums
  <2> QED BY <2>1
<1>2. ASSUME NEW n \in Nat, n \in S PROVE n + 1 \in S
  <2>1. SUFFICES ASSUME n + 1 <= N PROVE n + 1 \in S
    OBVIOUS
  <2>2. n \in 0..(N - 1) /\ n \in 0..N
    BY <2>1
  <2>3. Total(f, n + 1) = Total(f, n) + f[n] /\ Total(h, n + 1) = Total(h, n) + h[n]
    BY <2>2, TotalSums
  <2>4. Total(f, n) * k <= Total(h, n) /\ Total(f, n) \in Nat /\ Total(h, n) \in Nat
    <3>1. Total(f, n) * k <= Total(h, n)
      BY <1>2, <2>2
    <3> QED BY <3>1, <2>2, TotalSums
  <2>5. f[n] * k <= h[n] /\ f[n] \in Nat /\ h[n] \in Nat
    BY <2>2
  <2> HIDE DEF S
  <2>7. Total(f, n + 1) * k <= Total(h, n + 1)
    BY <2>3, <2>4, <2>5, Distributes, SMTT(40)
  <2> QED BY <2>7 DEF S
<1> HIDE DEF S
<1>3. N \in S
  BY <1>1, <1>2, SetInduction
<1> QED BY <1>3 DEF S

(* What the buckets can hold: one entry less than their limits in all, if  *)
(* any of them has a multiplier.                                           *)
LEMMA TotalLimits ==
  ASSUME NEW N \in Nat, NEW k \in Nat \ {0},
         NEW c \in [0..(N - 1) -> Nat], NEW m \in [0..(N - 1) -> Nat],
         \A b \in 0..(N - 1) : c[b] < (m[b] + 1) * k \/ (m[b] = 0 /\ c[b] = k)
  PROVE  /\ Total(c, N) <= (N + Total(m, N)) * k
         /\ Total(m, N) > 0 => Total(c, N) < (N + Total(m, N)) * k
<1> DEFINE P(n) == /\ Total(c, n) <= (n + Total(m, n)) * k
                   /\ Total(m, n) > 0 => Total(c, n) < (n + Total(m, n)) * k
           S == {n \in Nat : n <= N => P(n)}
<1>1. 0 \in S
  <2>1. Total(c, 0) = 0 /\ Total(m, 0) = 0
    BY TotalSums
  <2> QED BY <2>1
<1>2. ASSUME NEW n \in Nat, n \in S PROVE n + 1 \in S
  <2>1. SUFFICES ASSUME n + 1 <= N PROVE P(n + 1)
    OBVIOUS
  <2>2. n \in 0..(N - 1) /\ n \in 0..N
    BY <2>1
  <2> DEFINE C == Total(c, n)
             M == Total(m, n)
  <2>3. Total(c, n + 1) = C + c[n] /\ Total(m, n + 1) = M + m[n]
    BY <2>2, TotalSums
  <2>4. C \in Nat /\ M \in Nat /\ c[n] \in Nat /\ m[n] \in Nat
    BY <2>2, TotalSums
  <2>5. P(n)
    BY <1>2, <2>2
  <2>6. c[n] < (m[n] + 1) * k \/ (m[n] = 0 /\ c[n] = k)
    BY <2>2
  <2> DEFINE A == (n + M) * k
             B == (m[n] + 1) * k
  <2>7. C <= A /\ (M > 0 => C < A)
    BY <2>5
  <2>8. ((n + 1) + (M + m[n])) * k = A + B
    <3> HIDE DEF C, M
    <3>1. \A x, y, z \in Nat :
             (x + 1) + (y + z) = (x + y) + (z + 1) /\ x + y \in Nat /\ z + 1 \in Nat
      OBVIOUS
    <3>2. (n + 1) + (M + m[n]) = (n + M) + (m[n] + 1) /\ n + M \in Nat /\ m[n] + 1 \in Nat
      BY <2>4, <3>1, SMTT(40)
    <3> QED BY <3>2, Distributes
  <2>9. A \in Nat /\ B \in Nat /\ (m[n] = 0 => B = k)
    <3> HIDE DEF C, M
    <3>1. n + M \in Nat /\ m[n] + 1 \in Nat
      BY <2>4
    <3>2. m[n] = 0 => B = k
      BY <2>4
    <3> QED BY <3>1, <3>2, Distributes
  <2>10. C + c[n] <= A + B /\ (M + m[n] > 0 => C + c[n] < A + B)
    <3>1. c[n] < B \/ (m[n] = 0 /\ c[n] = B)
      BY <2>4, <2>6, <2>9
    <3> HIDE DEF A, B, C, M
    <3>2. \A v, w, x, y, a, z \in Nat :
             /\ v <= a /\ (w > 0 => v < a)
             /\ x < z \/ (y = 0 /\ x = z)
             => v + x <= a + z /\ (w + y > 0 => v + x < a + z)
      OBVIOUS
    <3> QED BY <2>4, <2>7, <2>9, <3>1, <3>2
  <2> HIDE DEF C, M, A, B
  <2> QED BY <2>3, <2>8, <2>10
<1> HIDE DEF S, P
<1>3. N \in S
  BY <1>1, <1>2, SetInduction
<1> QED BY <1>3 DEF S, P

-----------------------------------------------------------------------------
(* Buckets while entries are moved to them.                                *)
Arrays(n) == [0..(n - 1) -> Bucket]

(* The multiplier a bucket has after a doubling.                           *)
Spread(b, ideal) ==
  \/ b.expand_mult = 0 /\ Count(b) <= ideal
  \/ Count(b) > ideal /\ b.expand_mult = Count(b) \div ideal

Rehashed(n, ideal) ==
  {bkts \in Arrays(n) : Placed(bkts, n) /\ \A b \in 0..(n - 1) : Spread(bkts[b], ideal)}

LEMMA BucketOf ==
  ASSUME NEW k \in Names, NEW n \in Nat \ {0}
  PROVE  HASH_TO_BKT(Hash[k], n) \in 0..(n - 1)
<1>1. Hash[k] \in Nat
  BY HashAssumption
<1>2. \A x \in Nat : x % n \in 0..(n - 1)
  OBVIOUS
<1> QED BY <1>1, <1>2 DEF HASH_TO_BKT

LEMMA CountsType ==
  ASSUME NEW n \in Nat, NEW bkts \in Arrays(n)
  PROVE  /\ Counts(bkts) \in [0..(n - 1) -> Nat] /\ Mults(bkts) \in [0..(n - 1) -> Nat]
         /\ \A b \in 0..(n - 1) : /\ Counts(bkts)[b] = Count(bkts[b])
                                  /\ Mults(bkts)[b] = bkts[b].expand_mult
<1>1. DOMAIN bkts = 0..(n - 1)
  BY DEF Arrays
<1>2. ASSUME NEW b \in 0..(n - 1) PROVE Count(bkts[b]) \in Nat /\ bkts[b].expand_mult \in Nat
  BY DEF Arrays, Bucket, Count
<1> QED BY <1>1, <1>2 DEF Counts, Mults

(* An entry in front of a chain.                                           *)
LEMMA InFront ==
  ASSUME NEW T, NEW chain \in Seq(T), NEW e \in T
  PROVE  /\ <<e>> \o chain \in Seq(T) /\ Len(<<e>> \o chain) = Len(chain) + 1
         /\ ToSet(<<e>> \o chain) = {e} \cup ToSet(chain)
<1> DEFINE s == <<e>> \o chain
<1>1. s \in Seq(T) /\ Len(s) = Len(chain) + 1
  OBVIOUS
<1>2. s[1] = e /\ \A i \in 1..Len(chain) : s[i + 1] = chain[i]
  OBVIOUS
<1>3. DOMAIN s = 1..(Len(chain) + 1) /\ DOMAIN chain = 1..Len(chain) /\ Len(chain) \in Nat
  OBVIOUS
<1> HIDE DEF s
<1>4. ToSet(s) \subseteq {e} \cup ToSet(chain)
  <2>1. ASSUME NEW i \in DOMAIN s PROVE s[i] \in {e} \cup {chain[j] : j \in DOMAIN chain}
    <3>1. CASE i = 1
      BY <1>2, <3>1
    <3>2. CASE i # 1
      <4>1. i - 1 \in 1..Len(chain) /\ (i - 1) + 1 = i
        BY <1>3, <3>2
      <4>2. s[i] = chain[i - 1] /\ i - 1 \in DOMAIN chain
        BY <1>2, <1>3, <4>1
      <4> QED BY <4>2
    <3> QED BY <3>1, <3>2
  <2> QED BY <2>1 DEF ToSet
<1>5. {e} \cup ToSet(chain) \subseteq ToSet(s)
  <2>1. 1 \in DOMAIN s
    BY <1>3
  <2>2. ASSUME NEW i \in DOMAIN chain PROVE chain[i] \in {s[j] : j \in DOMAIN s}
    <3>1. i + 1 \in DOMAIN s /\ s[i + 1] = chain[i]
      BY <1>2, <1>3
    <3> QED BY <3>1
  <2> QED BY <1>2, <2>1, <2>2 DEF ToSet
<1>6. ToSet(s) = {e} \cup ToSet(chain)
  BY <1>4, <1>5
<1> QED BY <1>1, <1>6 DEF s

(* An entry in front of the chain of one bucket of a table.                *)
Put(bkts, b, new) == [bkts EXCEPT ![b] = new]

LEMMA PutInFront ==
  ASSUME NEW n \in Nat, NEW bkts \in Arrays(n), NEW b \in 0..(n - 1), NEW e \in Symbol,
         NEW new \in Bucket, new.chain = <<e>> \o bkts[b].chain,
         NEW put, put = Put(bkts, b, new)
  PROVE  /\ put \in Arrays(n)
         /\ EntriesOf(put) = EntriesOf(bkts) \cup {e}
         /\ Total(Counts(put), n) = Total(Counts(bkts), n) + 1
         /\ Placed(bkts, n) /\ HASH_TO_BKT(Hash[e.key], n) = b => Placed(put, n)
<1>1. put \in Arrays(n) /\ DOMAIN bkts = 0..(n - 1) /\ DOMAIN put = 0..(n - 1)
  BY DEF Arrays, Put
<1>2. put[b] = new /\ \A a \in 0..(n - 1) : a # b => put[a] = bkts[a]
  BY <1>1 DEF Put
<1>3. bkts[b].chain \in Seq(Symbol)
  BY DEF Arrays, Bucket
<1>4. ToSet(new.chain) = {e} \cup ToSet(bkts[b].chain) /\ Count(new) = Count(bkts[b]) + 1
  BY <1>3, InFront DEF Count
<1>5. EntriesOf(put) = EntriesOf(bkts) \cup {e}
  <2>1. ASSUME NEW x PROVE x \in EntriesOf(put) <=> x \in EntriesOf(bkts) \cup {e}
    <3>1. x \in EntriesOf(put) <=> \E a \in 0..(n - 1) : x \in ToSet(put[a].chain)
      BY <1>1 DEF EntriesOf
    <3>2. x \in EntriesOf(bkts) <=> \E a \in 0..(n - 1) : x \in ToSet(bkts[a].chain)
      BY <1>1 DEF EntriesOf
    <3> QED BY <1>2, <1>4, <3>1, <3>2
  <2> QED BY <2>1
<1>6. Total(Counts(put), n) = Total(Counts(bkts), n) + 1
  <2>1. Counts(bkts) \in [0..(n - 1) -> Nat]
    BY CountsType
  <2>2. Counts(put) = [Counts(bkts) EXCEPT ![b] = @ + 1]
    BY <1>1, <1>2, <1>4 DEF Counts
  <2> QED BY <2>1, <2>2, TotalOneMore
<1>7. Placed(bkts, n) /\ HASH_TO_BKT(Hash[e.key], n) = b => Placed(put, n)
  BY <1>1, <1>2, <1>4 DEF Placed
<1> QED BY <1>1, <1>5, <1>6, <1>7

(* uthash.h:936-951: one entry moved.                                      *)
LEMMA EntryMoved ==
  ASSUME NEW n \in Nat \ {0}, NEW ideal \in Nat \ {0}, NEW bkts \in Rehashed(n, ideal),
         NEW e \in Symbol
  PROVE  /\ Moved(bkts, n, ideal, e) \in Rehashed(n, ideal)
         /\ EntriesOf(Moved(bkts, n, ideal, e)) = EntriesOf(bkts) \cup {e}
         /\ Total(Counts(Moved(bkts, n, ideal, e)), n) = Total(Counts(bkts), n) + 1
<1> DEFINE b == HASH_TO_BKT(Hash[e.key], n)
           count == Count(bkts[b]) + 1
           new == [chain |-> <<e>> \o bkts[b].chain,
                   expand_mult |-> IF count > ideal THEN count \div ideal
                                   ELSE bkts[b].expand_mult]
           put == [bkts EXCEPT ![b] = new]
<1>1. bkts \in Arrays(n) /\ Placed(bkts, n) /\ \A a \in 0..(n - 1) : Spread(bkts[a], ideal)
  BY DEF Rehashed
<1>2. b \in 0..(n - 1)
  BY BucketOf DEF Symbol
<1> HIDE DEF b
<1>3. bkts[b].chain \in Seq(Symbol) /\ bkts[b].expand_mult \in Nat /\ DOMAIN bkts = 0..(n - 1)
  BY <1>1, <1>2 DEF Arrays, Bucket
<1>4. count \in Nat /\ Count(bkts[b]) \in Nat
  BY <1>3 DEF Count
<1>5. Moved(bkts, n, ideal, e) = put
  BY <1>2, <1>3 DEF Moved, b
<1>6. new \in Bucket /\ new.chain = <<e>> \o bkts[b].chain /\ Count(new) = count
  <2>1. \A x \in Nat : x \div ideal \in Nat
    OBVIOUS
  <2>2. <<e>> \o bkts[b].chain \in Seq(Symbol) /\ Len(<<e>> \o bkts[b].chain) = Len(bkts[b].chain) + 1
    BY <1>3, InFront
  <2>3. Count(new) = count
    BY <2>2 DEF Count
  <2>4. new.expand_mult \in Nat
    BY <1>3, <1>4, <2>1
  <2> QED BY <2>2, <2>3, <2>4 DEF Bucket
<1>7. Spread(new, ideal)
  <2>1. CASE count > ideal
    BY <1>6, <2>1 DEF Spread
  <2>2. CASE ~ (count > ideal)
    <3>1. bkts[b].expand_mult = 0
      BY <1>1, <1>2, <1>4, <2>2 DEF Spread
    <3> QED BY <1>4, <1>6, <2>2, <3>1 DEF Spread
  <2> QED BY <2>1, <2>2
<1> HIDE DEF new
<1>8. /\ put \in Arrays(n) /\ Placed(put, n)
      /\ EntriesOf(put) = EntriesOf(bkts) \cup {e}
      /\ Total(Counts(put), n) = Total(Counts(bkts), n) + 1
  <2>1. HASH_TO_BKT(Hash[e.key], n) = b /\ n \in Nat
    BY DEF b
  <2>2. put = Put(bkts, b, new)
    BY DEF Put
  <2> HIDE DEF put
  <2> QED BY <1>1, <1>2, <1>6, <2>1, <2>2, PutInFront
<1>9. \A a \in 0..(n - 1) : Spread(put[a], ideal)
  BY <1>1, <1>2, <1>3, <1>7
<1> HIDE DEF put
<1>10. put \in Rehashed(n, ideal)
  BY <1>8, <1>9 DEF Rehashed
<1> QED BY <1>5, <1>8, <1>10

(* The first k entries of a chain.                                         *)
FirstOf(chain, k) == {chain[j] : j \in 1..k}

(* uthash.h:934-952: the entries of a chain moved.                         *)
LEMMA ChainIsMoved ==
  ASSUME NEW n \in Nat \ {0}, NEW ideal \in Nat \ {0}, NEW bkts \in Rehashed(n, ideal),
         NEW chain \in Seq(Symbol)
  PROVE  LET new == ChainMoved(bkts, n, ideal, chain) IN
         /\ new \in Rehashed(n, ideal)
         /\ EntriesOf(new) = EntriesOf(bkts) \cup ToSet(chain)
         /\ Total(Counts(new), n) = Total(Counts(bkts), n) + Len(chain)
<1> DEFINE N == Len(chain)
           R == Rehashed(n, ideal)
           next == [i \in 1..N |-> [x \in R |-> Moved(x, n, ideal, chain[i])]]
<1>1. N \in Nat /\ DOMAIN chain = 1..N /\ \A i \in 1..N : chain[i] \in Symbol
  OBVIOUS
<1> HIDE DEF N
<1>2. bkts \in R /\ next \in Steps(R, N)
  BY <1>1, EntryMoved DEF Steps
<1> HIDE DEF next, R
<1>3. PICK s : Run(R, bkts, N, next, s)
  BY <1>1, <1>2, Recursion
<1> DEFINE Runs(g) == g = [i \in 0..N |-> IF i = 0 THEN bkts ELSE Moved(g[i - 1], n, ideal, chain[i])]
           upTo == CHOOSE g : Runs(g)
           h == [i \in 0..N |-> IF i = 0 THEN bkts ELSE Moved(s[i - 1], n, ideal, chain[i])]
<1>4. s \in [0..N -> R] /\ s[0] = bkts
  BY <1>3 DEF Run
<1>5. ASSUME NEW i \in 0..N PROVE s[i] = h[i]
  <2>1. CASE i = 0
    BY <1>4, <2>1
  <2>2. CASE i # 0
    <3>1. i \in 1..N /\ i - 1 \in 0..N
      BY <1>1, <2>2
    <3>2. s[i] = next[i][s[i - 1]]
      BY <1>3, <3>1 DEF Run
    <3> QED BY <1>4, <2>2, <3>1, <3>2 DEF next
  <2> QED BY <2>1, <2>2
<1>6. s = h
  BY <1>4, <1>5
<1>7. Runs(s)
  BY <1>6
<1> HIDE DEF Runs, h
<1>8. Runs(upTo)
  BY <1>7
<1>9. ChainMoved(bkts, n, ideal, chain) = upTo[N]
  BY DEF ChainMoved, upTo, Runs, N
<1> HIDE DEF upTo
<1> DEFINE P(i) == /\ upTo[i] \in R
                   /\ EntriesOf(upTo[i]) = EntriesOf(bkts) \cup FirstOf(chain, i)
                   /\ Total(Counts(upTo[i]), n) = Total(Counts(bkts), n) + i
           S == {i \in Nat : i <= N => P(i)}
<1>10. Total(Counts(bkts), n) \in Nat
  <2>1. bkts \in Arrays(n) /\ n \in Nat /\ n \in 0..n
    BY DEF Rehashed
  <2>2. Counts(bkts) \in [0..(n - 1) -> Nat]
    BY <2>1, CountsType
  <2> QED BY <2>1, <2>2, TotalSums
<1>11. 0 \in S
  <2>1. upTo[0] = bkts
    BY <1>1, <1>8 DEF Runs
  <2>2. FirstOf(chain, 0) = {}
    BY DEF FirstOf
  <2> QED BY <1>2, <1>10, <2>1, <2>2
<1>12. ASSUME NEW i \in Nat, i \in S PROVE i + 1 \in S
  <2>1. SUFFICES ASSUME i + 1 <= N PROVE P(i + 1)
    OBVIOUS
  <2>2. i + 1 \in 0..N /\ i + 1 # 0 /\ (i + 1) - 1 = i /\ i + 1 \in 1..N
    BY <1>1, <2>1
  <2>3. upTo[i + 1] = Moved(upTo[i], n, ideal, chain[i + 1])
    BY <1>8, <2>2 DEF Runs
  <2>4. P(i)
    BY <1>1, <1>12, <2>1
  <2>5. chain[i + 1] \in Symbol
    BY <1>1, <2>2
  <2>6. /\ upTo[i + 1] \in R
        /\ EntriesOf(upTo[i + 1]) = EntriesOf(upTo[i]) \cup {chain[i + 1]}
        /\ Total(Counts(upTo[i + 1]), n) = Total(Counts(upTo[i]), n) + 1
    BY <2>3, <2>4, <2>5, EntryMoved DEF R
  <2>7. FirstOf(chain, i + 1) = FirstOf(chain, i) \cup {chain[i + 1]}
    BY DEF FirstOf
  <2>8. EntriesOf(upTo[i + 1]) = EntriesOf(bkts) \cup FirstOf(chain, i + 1)
    BY <2>4, <2>6, <2>7
  <2>9. Total(Counts(upTo[i + 1]), n) = Total(Counts(bkts), n) + (i + 1)
    BY <1>10, <2>4, <2>6
  <2> QED BY <2>6, <2>8, <2>9
<1> HIDE DEF S, P
<1>13. N \in S
  <2>1. Nat \subseteq S
    BY <1>11, <1>12, SetInduction
  <2> QED BY <1>1, <2>1
<1>14. P(N)
  BY <1>1, <1>13 DEF S
<1>15. ToSet(chain) = FirstOf(chain, N)
  BY <1>1 DEF ToSet, FirstOf
<1> QED BY <1>9, <1>14, <1>15 DEF P, R, N

(* uthash.h:919-923: the new buckets before an entry is moved.             *)
LEMMA NoneMoved ==
  ASSUME NEW n \in Nat, NEW ideal \in Nat
  PROVE  /\ Buckets(n) \in Rehashed(n, ideal)
         /\ EntriesOf(Buckets(n)) = {}
         /\ Total(Counts(Buckets(n)), n) = 0 /\ Total(Mults(Buckets(n)), n) = 0
<1> DEFINE bkts == Buckets(n)
<1>1. <<>> \in Seq(Symbol) /\ Len(<<>>) = 0 /\ ToSet(<<>>) = {}
  BY DEF ToSet
<1>2. NoBucket \in Bucket /\ Count(NoBucket) = 0 /\ NoBucket.expand_mult = 0
      /\ NoBucket.chain = <<>>
  BY <1>1 DEF NoBucket, Bucket, Count
<1>3. bkts \in Arrays(n) /\ DOMAIN bkts = 0..(n - 1) /\ \A b \in 0..(n - 1) : bkts[b] = NoBucket
  BY <1>2 DEF Buckets, Arrays
<1> HIDE DEF bkts
<1>4. bkts \in Rehashed(n, ideal)
  BY <1>1, <1>2, <1>3 DEF Rehashed, Placed, Spread
<1>5. EntriesOf(bkts) = {}
  BY <1>1, <1>2, <1>3 DEF EntriesOf
<1>6. /\ Counts(bkts) \in [0..(n - 1) -> Nat] /\ Mults(bkts) \in [0..(n - 1) -> Nat]
      /\ \A b \in 0..(n - 1) : Counts(bkts)[b] = 0 /\ Mults(bkts)[b] = 0
  BY <1>2, <1>3, CountsType
<1>7. Total(Counts(bkts), n) = 0 /\ Total(Mults(bkts), n) = 0
  BY <1>6, TotalZero
<1> QED BY <1>4, <1>5, <1>7 DEF bkts

(* The entries of the first k buckets.                                     *)
EntriesBelow(bkts, k) == UNION {ToSet(bkts[a].chain) : a \in 0..(k - 1)}

(* uthash.h:932-953: all entries moved; none is lost, none is met twice.   *)
LEMMA AllMoved ==
  ASSUME NEW n \in Nat \ {0}, NEW ideal \in Nat \ {0}, NEW t,
         t.num_buckets \in Nat, t.buckets \in Arrays(t.num_buckets)
  PROVE  LET new == Redistributed(t, n, ideal) IN
         /\ new \in Rehashed(n, ideal)
         /\ EntriesOf(new) = EntriesOf(t.buckets)
         /\ Total(Counts(new), n) = Total(Counts(t.buckets), t.num_buckets)
<1> DEFINE N == t.num_buckets
           old == t.buckets
           R == Rehashed(n, ideal)
           next == [i \in 1..N |-> [x \in R |-> ChainMoved(x, n, ideal, old[i - 1].chain)]]
<1>1. N \in Nat /\ DOMAIN old = 0..(N - 1) /\ \A i \in 0..(N - 1) : old[i].chain \in Seq(Symbol)
  BY DEF Arrays, Bucket
<1>2. Counts(old) \in [0..(N - 1) -> Nat] /\ \A i \in 0..(N - 1) : Counts(old)[i] = Len(old[i].chain)
  BY CountsType DEF Count
<1> HIDE DEF N, old
<1>3. ASSUME NEW x \in R, NEW i \in 0..(N - 1)
      PROVE  /\ ChainMoved(x, n, ideal, old[i].chain) \in R
             /\ EntriesOf(ChainMoved(x, n, ideal, old[i].chain)) = EntriesOf(x) \cup ToSet(old[i].chain)
             /\ Total(Counts(ChainMoved(x, n, ideal, old[i].chain)), n)
                  = Total(Counts(x), n) + Len(old[i].chain)
  BY <1>1, <1>3, ChainIsMoved
<1>4. Buckets(n) \in R
  BY NoneMoved
<1> HIDE DEF R
<1>5. next \in Steps(R, N)
  <2>1. \A i \in 1..N : i - 1 \in 0..(N - 1)
    BY <1>1
  <2> QED BY <1>3, <2>1 DEF Steps
<1> HIDE DEF next
<1>6. PICK s : Run(R, Buckets(n), N, next, s)
  BY <1>1, <1>4, <1>5, Recursion
<1> DEFINE Runs(g) == g = [b \in 0..N |-> IF b = 0 THEN Buckets(n)
                                          ELSE ChainMoved(g[b - 1], n, ideal, old[b - 1].chain)]
           upTo == CHOOSE g : Runs(g)
           h == [b \in 0..N |-> IF b = 0 THEN Buckets(n)
                                ELSE ChainMoved(s[b - 1], n, ideal, old[b - 1].chain)]
<1>7. s \in [0..N -> R] /\ s[0] = Buckets(n)
  BY <1>6 DEF Run
<1>8. ASSUME NEW i \in 0..N PROVE s[i] = h[i]
  <2>1. CASE i = 0
    BY <1>7, <2>1
  <2>2. CASE i # 0
    <3>1. i \in 1..N /\ i - 1 \in 0..N
      BY <1>1, <2>2
    <3>2. s[i] = next[i][s[i - 1]]
      BY <1>6, <3>1 DEF Run
    <3> QED BY <1>7, <2>2, <3>1, <3>2 DEF next
  <2> QED BY <2>1, <2>2
<1>9. s = h
  BY <1>7, <1>8
<1>10. Runs(s)
  BY <1>9
<1> HIDE DEF Runs, h
<1>11. Runs(upTo)
  BY <1>10
<1>12. Redistributed(t, n, ideal) = upTo[N]
  BY DEF Redistributed, upTo, Runs, N, old
<1> HIDE DEF upTo
<1> DEFINE P(i) == /\ upTo[i] \in R
                   /\ EntriesOf(upTo[i]) = EntriesBelow(old, i)
                   /\ Total(Counts(upTo[i]), n) = Total(Counts(old), i)
           S == {i \in Nat : i <= N => P(i)}
<1>13. 0 \in S
  <2>1. upTo[0] = Buckets(n)
    BY <1>1, <1>11 DEF Runs
  <2>2. EntriesBelow(old, 0) = {}
    BY DEF EntriesBelow
  <2>3. Total(Counts(old), 0) = 0
    BY <1>1, <1>2, TotalSums
  <2> QED BY <1>4, <2>1, <2>2, <2>3, NoneMoved
<1>14. ASSUME NEW i \in Nat, i \in S PROVE i + 1 \in S
  <2>1. SUFFICES ASSUME i + 1 <= N PROVE P(i + 1)
    OBVIOUS
  <2>2. i + 1 \in 0..N /\ i + 1 # 0 /\ (i + 1) - 1 = i /\ i \in 0..(N - 1)
    BY <1>1, <2>1
  <2>3. upTo[i + 1] = ChainMoved(upTo[i], n, ideal, old[i].chain)
    BY <1>11, <2>2 DEF Runs
  <2>4. P(i)
    BY <1>1, <1>14, <2>1
  <2>5. /\ upTo[i + 1] \in R
        /\ EntriesOf(upTo[i + 1]) = EntriesOf(upTo[i]) \cup ToSet(old[i].chain)
        /\ Total(Counts(upTo[i + 1]), n) = Total(Counts(upTo[i]), n) + Len(old[i].chain)
    BY <1>3, <2>2, <2>3, <2>4
  <2>6. EntriesBelow(old, i + 1) = EntriesBelow(old, i) \cup ToSet(old[i].chain)
    <3>1. \A a : a \in 0..((i + 1) - 1) <=> a \in 0..(i - 1) \/ a = i
      OBVIOUS
    <3> QED BY <3>1 DEF EntriesBelow
  <2>7. Total(Counts(old), i + 1) = Total(Counts(old), i) + Len(old[i].chain)
    <3>1. Total(Counts(old), i + 1) = Total(Counts(old), i) + Counts(old)[i]
      BY <1>1, <1>2, <2>2, TotalSums
    <3> QED BY <1>2, <2>2, <3>1
  <2> QED BY <2>4, <2>5, <2>6, <2>7
<1> HIDE DEF S, P
<1>15. P(N)
  <2>1. Nat \subseteq S
    BY <1>13, <1>14, SetInduction
  <2>2. N \in S
    BY <1>1, <2>1
  <2> QED BY <1>1, <2>2 DEF S
<1>16. EntriesBelow(old, N) = EntriesOf(old)
  BY <1>1 DEF EntriesBelow, EntriesOf
<1> QED BY <1>12, <1>15, <1>16 DEF P, R, N, old

-----------------------------------------------------------------------------
(* Doubling the table.                                                     *)
LEMMA Division ==
  ASSUME NEW x \in Nat, NEW b \in Nat \ {0}
  PROVE  /\ x \div b \in Nat /\ x % b \in 0..(b - 1)
         /\ x = (x \div b) * b + (x % b)
  OBVIOUS

LEMMA TimesOrder ==
  ASSUME NEW x \in Nat, NEW y \in Nat, NEW k \in Nat
  PROVE  /\ x <= y => x * k <= y * k
         /\ x < y => (x + 1) * k <= y * k
         /\ x * k < y * k => x < y
<1>1. x <= y => x * k <= y * k
  <2>1. SUFFICES ASSUME x <= y PROVE x * k <= y * k
    OBVIOUS
  <2>2. y - x \in Nat /\ y = x + (y - x)
    BY <2>1
  <2>3. y * k = x * k + (y - x) * k /\ (y - x) * k \in Nat /\ x * k \in Nat
    BY <2>2, Distributes
  <2> QED BY <2>3
<1>2. x < y => (x + 1) * k <= y * k
  <2>1. SUFFICES ASSUME x < y PROVE (x + 1) * k <= y * k
    OBVIOUS
  <2>2. y - (x + 1) \in Nat /\ y = (x + 1) + (y - (x + 1)) /\ x + 1 \in Nat
    BY <2>1
  <2>3. y * k = (x + 1) * k + (y - (x + 1)) * k /\ (y - (x + 1)) * k \in Nat /\ (x + 1) * k \in Nat
    BY <2>2, Distributes
  <2> QED BY <2>3
<1>3. x * k < y * k => x < y
  <2>1. SUFFICES ASSUME y <= x PROVE y * k <= x * k
    BY Distributes
  <2>2. x - y \in Nat /\ x = y + (x - y)
    BY <2>1
  <2>3. x * k = y * k + (x - y) * k /\ (x - y) * k \in Nat /\ y * k \in Nat
    BY <2>2, Distributes
  <2> QED BY <2>3
<1> QED BY <1>1, <1>2, <1>3

(* uthash.h:924-929: enough for all, and no more than needed.              *)
LEMMA IdealEnough ==
  ASSUME NEW items \in Nat \ {0}, NEW n \in Nat \ {0}
  PROVE  /\ IdealChain(items, n) \in Nat \ {0}
         /\ items <= IdealChain(items, n) * n
         /\ \A k \in Nat : items <= k * n => IdealChain(items, n) <= k
<1> DEFINE q == items \div n
           r == items % n
           ideal == IdealChain(items, n)
<1>1. q \in Nat /\ r \in 0..(n - 1) /\ items = q * n + r /\ q * n \in Nat
  BY Division, Distributes
<1>2. ideal = IF r # 0 THEN q + 1 ELSE q
  BY <1>1 DEF IdealChain
<1> HIDE DEF q, r, ideal
<1>3. (q + 1) * n = q * n + n /\ 0 * n = 0
  BY <1>1, Distributes
<1>4. ideal \in Nat \ {0} /\ items <= ideal * n
  <2>1. CASE r # 0
    BY <1>1, <1>2, <1>3, <2>1
  <2>2. CASE r = 0
    BY <1>1, <1>2, <1>3, <2>2
  <2> QED BY <2>1, <2>2
<1>5. ASSUME NEW k \in Nat, items <= k * n PROVE ideal <= k
  <2>1. k * n \in Nat
    BY Distributes
  <2>2. CASE r # 0
    <3>1. q * n < k * n
      BY <1>1, <1>5, <2>1, <2>2
    <3>2. q < k
      BY <1>1, <3>1, TimesOrder
    <3> QED BY <1>1, <1>2, <2>2, <3>2
  <2>3. CASE r = 0
    <3>1. ~ (k < q)
      <4>1. SUFFICES ASSUME k < q PROVE FALSE
        OBVIOUS
      <4>2. (k + 1) * n <= q * n /\ (k + 1) * n = k * n + n
        BY <1>1, <4>1, TimesOrder, Distributes
      <4> QED BY <1>1, <1>5, <2>1, <2>3, <4>2
    <3> QED BY <1>1, <1>2, <2>3, <3>1
  <2> QED BY <2>2, <2>3
<1> QED BY <1>4, <1>5 DEF ideal

LEMMA SpreadWithin ==
  ASSUME NEW ideal \in Nat \ {0}, NEW b \in Bucket, Spread(b, ideal)
  PROVE  /\ b.expand_mult * ideal <= Count(b)
         /\ ideal <= Threshold => WithinLimit(b, ideal)
<1> DEFINE c == Count(b)
           m == b.expand_mult
           q == c \div ideal
<1>1. c \in Nat /\ m \in Nat
  BY DEF Bucket, Count
<1> HIDE DEF c, m
<1>2. q \in Nat /\ c % ideal \in 0..(ideal - 1) /\ c = q * ideal + (c % ideal) /\ q * ideal \in Nat
  BY <1>1, Division, Distributes
<1>3. (m = 0 /\ c <= ideal) \/ (c > ideal /\ m = q)
  BY DEF Spread, c, m
<1> HIDE DEF q
<1>4. m * ideal <= c
  <2>1. 0 * ideal = 0
    OBVIOUS
  <2> QED BY <1>1, <1>2, <1>3, <2>1
<1>5. ASSUME ideal <= Threshold
      PROVE  c < (m + 1) * Threshold \/ (c = (m + 1) * Threshold /\ m = 0 /\ c <= ideal)
  <2>1. Threshold \in Nat \ {0}
    BY HashAssumption
  <2>2. CASE m = 0 /\ c <= ideal
    <3>1. (m + 1) * Threshold = Threshold
      BY <2>1, <2>2
    <3> QED BY <1>1, <1>5, <2>1, <2>2, <3>1
  <2>3. CASE c > ideal /\ m = q
    <3>1. (m + 1) * ideal = m * ideal + ideal
      BY <1>1, Distributes
    <3>2. c < (m + 1) * ideal
      BY <1>1, <1>2, <2>3, <3>1
    <3>3. ideal * (m + 1) <= Threshold * (m + 1)
      BY <1>1, <1>5, <2>1, TimesOrder
    <3>4. \A x, y \in Nat : x * y = y * x /\ x * y \in Nat
      OBVIOUS
    <3>5. (m + 1) * ideal <= (m + 1) * Threshold /\ (m + 1) * ideal \in Nat
          /\ (m + 1) * Threshold \in Nat
      BY <1>1, <2>1, <3>3, <3>4
    <3> QED BY <1>1, <3>2, <3>5
  <2> QED BY <1>3, <2>2, <2>3
<1> QED BY <1>4, <1>5 DEF c, m, WithinLimit, Limit

LEMMA TableFields ==
  ASSUME NEW t \in HashTable
  PROVE  /\ t.num_buckets \in Nat /\ t.num_items \in Nat /\ t.ideal_chain_maxlen \in Nat
         /\ t.ineff_expands \in Nat /\ t.noexpand \in BOOLEAN
         /\ t.buckets \in Arrays(t.num_buckets)
         /\ t = [num_buckets |-> t.num_buckets, buckets |-> t.buckets,
                 num_items |-> t.num_items, ideal_chain_maxlen |-> t.ideal_chain_maxlen,
                 ineff_expands |-> t.ineff_expands, noexpand |-> t.noexpand]
<1>1. /\ t.num_buckets \in Nat /\ t.num_items \in Nat /\ t.ideal_chain_maxlen \in Nat
      /\ t.ineff_expands \in Nat /\ t.noexpand \in BOOLEAN /\ t.buckets \in BucketArrays
      /\ DOMAIN t.buckets = 0..(t.num_buckets - 1)
  BY DEF HashTable
<1>2. t.buckets \in Arrays(t.num_buckets)
  BY <1>1 DEF BucketArrays, Arrays
<1>3. t = [num_buckets |-> t.num_buckets, buckets |-> t.buckets,
           num_items |-> t.num_items, ideal_chain_maxlen |-> t.ideal_chain_maxlen,
           ineff_expands |-> t.ineff_expands, noexpand |-> t.noexpand]
  BY DEF HashTable
<1> QED BY <1>1, <1>2, <1>3

LEMMA TableOf ==
  ASSUME NEW n \in Nat, NEW bkts \in Arrays(n), NEW items \in Nat, NEW ideal \in Nat,
         NEW ineff \in Nat, NEW no \in BOOLEAN
  PROVE  [num_buckets |-> n, buckets |-> bkts, num_items |-> items,
          ideal_chain_maxlen |-> ideal, ineff_expands |-> ineff, noexpand |-> no] \in HashTable
<1>1. bkts \in BucketArrays /\ DOMAIN bkts = 0..(n - 1)
  BY DEF BucketArrays, Arrays
<1> QED BY <1>1 DEF HashTable

(* uthash.h:915-963: nothing is lost, all is where it is looked for, and   *)
(* no bucket is over its limit as long as doubling goes on.                *)
LEMMA Doubled ==
  ASSUME NEW t \in HashTable, t.num_buckets # 0, t.num_items # 0,
         t.num_items = Total(Counts(t.buckets), t.num_buckets),
         t.noexpand \/ t.num_items <= Threshold * (2 * t.num_buckets)
  PROVE  /\ HASH_EXPAND_BUCKETS(t) \in HashTable
         /\ TableInv(HASH_EXPAND_BUCKETS(t))
         /\ EntriesOf(HASH_EXPAND_BUCKETS(t).buckets) = EntriesOf(t.buckets)
<1> DEFINE n == 2 * t.num_buckets
           ideal == IdealChain(t.num_items, n)
           new == Redistributed(t, n, ideal)
           over == [b \in 0..(n - 1) |-> IF Count(new[b]) > ideal THEN Count(new[b]) - ideal ELSE 0]
           nonideal == Total(over, n)
           ineff == IF nonideal > t.num_items \div 2 THEN t.ineff_expands + 1 ELSE 0
           no == t.noexpand \/ ineff > 1
           e == [num_buckets |-> n, buckets |-> new, num_items |-> t.num_items,
                 ideal_chain_maxlen |-> ideal, ineff_expands |-> ineff, noexpand |-> no]
<1>1. /\ t.num_buckets \in Nat /\ t.num_items \in Nat /\ t.ineff_expands \in Nat
      /\ t.noexpand \in BOOLEAN /\ t.buckets \in Arrays(t.num_buckets)
  BY TableFields
<1>2. n \in Nat \ {0} /\ t.num_items \in Nat \ {0}
  BY <1>1
<1>3. HASH_EXPAND_BUCKETS(t) = e
  <2>1. HASH_EXPAND_BUCKETS(t) =
          [t EXCEPT !.num_buckets = n, !.buckets = new, !.ideal_chain_maxlen = ideal,
                    !.ineff_expands = ineff, !.noexpand = @ \/ ineff > 1]
    BY DEF HASH_EXPAND_BUCKETS
  <2> HIDE DEF n, ideal, new, over, nonideal, ineff
  <2> QED BY <2>1 DEF HashTable
<1>4. ineff \in Nat /\ no \in BOOLEAN
  BY <1>1
<1> HIDE DEF n
<1>5. ideal \in Nat \ {0} /\ t.num_items <= ideal * n /\ \A k \in Nat : t.num_items <= k * n => ideal <= k
  BY <1>2, IdealEnough
<1> HIDE DEF ideal, over, nonideal, ineff, no
<1>6. /\ new \in Rehashed(n, ideal) /\ EntriesOf(new) = EntriesOf(t.buckets)
      /\ Total(Counts(new), n) = t.num_items
  BY <1>1, <1>2, <1>5, AllMoved
<1> HIDE DEF new
<1>7. new \in Arrays(n) /\ Placed(new, n) /\ \A b \in 0..(n - 1) : Spread(new[b], ideal)
  BY <1>6 DEF Rehashed
<1>8. e \in HashTable
  BY <1>1, <1>2, <1>4, <1>5, <1>7, TableOf
<1>9. /\ e.num_buckets = n /\ e.buckets = new /\ e.num_items = t.num_items
      /\ e.ideal_chain_maxlen = ideal /\ e.noexpand = no
  OBVIOUS
<1> HIDE DEF e
<1>10. ASSUME ~ no PROVE Evened(e)
  <2>1. ideal <= Threshold
    BY <1>5, <1>10, HashAssumption DEF no, n
  <2>2. \A b \in 0..(n - 1) : new[b] \in Bucket /\ new[b].expand_mult * ideal <= Count(new[b])
                              /\ WithinLimit(new[b], ideal)
    <3>1. \A b \in 0..(n - 1) : new[b] \in Bucket
      BY <1>7 DEF Arrays
    <3> QED BY <1>5, <1>7, <2>1, <3>1, SpreadWithin
  <2>3. /\ Counts(new) \in [0..(n - 1) -> Nat] /\ Mults(new) \in [0..(n - 1) -> Nat]
        /\ \A b \in 0..(n - 1) : Mults(new)[b] * ideal <= Counts(new)[b]
    BY <1>2, <1>7, <2>2, CountsType
  <2>4. Total(Mults(new), n) * ideal <= t.num_items /\ Total(Mults(new), n) \in Nat
    <3>1. n \in Nat /\ n \in 0..n
      BY <1>2
    <3>2. Total(Mults(new), n) * ideal <= Total(Counts(new), n)
      BY <1>5, <2>3, <3>1, TotalTimes
    <3>3. Total(Mults(new), n) \in Nat
      BY <2>3, <3>1, TotalSums
    <3> QED BY <1>6, <3>2, <3>3
  <2>5. Total(Mults(new), n) <= n
    <3>1. SUFFICES ASSUME n < Total(Mults(new), n) PROVE FALSE
      BY <1>2, <2>4
    <3>2. (n + 1) * ideal <= Total(Mults(new), n) * ideal
      BY <1>2, <1>5, <2>4, <3>1, TimesOrder
    <3>3. (n + 1) * ideal = n * ideal + ideal /\ n * ideal = ideal * n /\ n * ideal \in Nat
      BY <1>2, <1>5, Distributes
    <3>4. Total(Mults(new), n) * ideal \in Nat
      BY <1>5, <2>4, Distributes
    <3> QED BY <1>1, <1>5, <2>4, <3>2, <3>3, <3>4
  <2>6. DOMAIN new = 0..(n - 1)
    BY <1>7 DEF Arrays
  <2> QED BY <1>9, <2>2, <2>5, <2>6 DEF Evened
<1>11. TableInv(e)
  BY <1>4, <1>6, <1>7, <1>9, <1>10 DEF TableInv
<1> QED BY <1>3, <1>6, <1>8, <1>9, <1>11

-----------------------------------------------------------------------------
(* Two tables are one if they agree in every field.                        *)
Fields == {"num_buckets", "buckets", "num_items", "ideal_chain_maxlen", "ineff_expands",
           "noexpand"}

LEMMA SameTable ==
  ASSUME NEW f, NEW g, f = [x \in Fields |-> f[x]], g = [x \in Fields |-> g[x]],
         f.num_buckets = g.num_buckets, f.buckets = g.buckets, f.num_items = g.num_items,
         f.ideal_chain_maxlen = g.ideal_chain_maxlen, f.ineff_expands = g.ineff_expands,
         f.noexpand = g.noexpand
  PROVE  f = g
<1>1. ASSUME NEW x \in Fields PROVE f[x] = g[x]
  BY DEF Fields
<1> QED BY <1>1

(* uthash.h:212-242: the table before the first entry.                     *)
LEMMA TableMade ==
  /\ HASH_MAKE_TABLE \in HashTable /\ TableInv(HASH_MAKE_TABLE)
  /\ HASH_MAKE_TABLE.num_buckets # 0 /\ EntriesOf(HASH_MAKE_TABLE.buckets) = {}
<1> DEFINE n == InitBuckets
           t == HASH_MAKE_TABLE
<1>1. n \in Nat \ {0} /\ Threshold \in Nat \ {0} /\ 0 \in Nat /\ FALSE \in BOOLEAN
  BY HashAssumption
<1>2. t = [num_buckets |-> n, buckets |-> Buckets(n), num_items |-> 0,
           ideal_chain_maxlen |-> 0, ineff_expands |-> 0, noexpand |-> FALSE]
  <2> DEFINE none == Buckets(0)
             some == Buckets(n)
             u == [num_buckets |-> n, buckets |-> some, num_items |-> 0,
                   ideal_chain_maxlen |-> 0, ineff_expands |-> 0, noexpand |-> FALSE]
             w == [[num_buckets |-> 0, buckets |-> none, num_items |-> 0,
                    ideal_chain_maxlen |-> 0, ineff_expands |-> 0, noexpand |-> FALSE]
                   EXCEPT !.num_buckets = n, !.buckets = some]
  <2>1. t = w
    BY DEF HASH_MAKE_TABLE, NoTable
  <2> HIDE DEF none, some
  <2>2. u = [x \in Fields |-> u[x]] /\ w = [x \in Fields |-> w[x]]
    BY DEF Fields
  <2>3. w.num_buckets = u.num_buckets /\ w.buckets = u.buckets /\ w.num_items = u.num_items
    OBVIOUS
  <2>4. w.ideal_chain_maxlen = u.ideal_chain_maxlen /\ w.ineff_expands = u.ineff_expands
        /\ w.noexpand = u.noexpand
    OBVIOUS
  <2> HIDE DEF u, w
  <2>5. w = u
    BY <2>2, <2>3, <2>4, SameTable
  <2> QED BY <2>1, <2>5 DEF u, some
<1>3. /\ Buckets(n) \in Arrays(n) /\ Placed(Buckets(n), n) /\ EntriesOf(Buckets(n)) = {}
      /\ Total(Counts(Buckets(n)), n) = 0 /\ Total(Mults(Buckets(n)), n) = 0
  BY <1>1, NoneMoved DEF Rehashed
<1>4. t \in HashTable
  BY <1>1, <1>2, <1>3, TableOf
<1>5. \A b \in DOMAIN Buckets(n) : WithinLimit(Buckets(n)[b], 0)
  <2>1. Count(NoBucket) = 0 /\ NoBucket.expand_mult = 0
    BY DEF NoBucket, Count
  <2>2. Limit(NoBucket) = Threshold
    BY <1>1, <2>1 DEF Limit
  <2>3. WithinLimit(NoBucket, 0)
    BY <1>1, <2>1, <2>2 DEF WithinLimit
  <2> QED BY <2>3 DEF Buckets
<1>6. TableInv(t)
  BY <1>1, <1>2, <1>3, <1>5 DEF TableInv, Evened
<1> QED BY <1>1, <1>2, <1>3, <1>4, <1>6

(* As long as doubling helps, there is room for one more entry under the   *)
(* limits that twice the buckets will have.                                *)
LEMMA RoomForOne ==
  ASSUME NEW t \in HashTable, t.num_buckets # 0, Evened(t),
         t.num_items = Total(Counts(t.buckets), t.num_buckets)
  PROVE  t.num_items + 1 <= Threshold * (2 * t.num_buckets)
<1> DEFINE n == t.num_buckets
           c == Counts(t.buckets)
           m == Mults(t.buckets)
           C == Total(c, n)
           M == Total(m, n)
<1>1. n \in Nat \ {0} /\ n \in Nat /\ n \in 0..n /\ t.buckets \in Arrays(n)
      /\ Threshold \in Nat \ {0} /\ DOMAIN t.buckets = 0..(n - 1)
  BY TableFields, HashAssumption DEF Arrays
<1> HIDE DEF n
<1>2. /\ c \in [0..(n - 1) -> Nat] /\ m \in [0..(n - 1) -> Nat]
      /\ \A b \in 0..(n - 1) : c[b] = Count(t.buckets[b]) /\ m[b] = t.buckets[b].expand_mult
  BY <1>1, CountsType
<1>3. ASSUME NEW b \in 0..(n - 1)
      PROVE  c[b] < (m[b] + 1) * Threshold \/ (m[b] = 0 /\ c[b] = Threshold)
  <2>1. WithinLimit(t.buckets[b], t.ideal_chain_maxlen)
    BY <1>1 DEF Evened
  <2>2. (0 + 1) * Threshold = Threshold
    BY <1>1
  <2> QED BY <1>2, <2>1, <2>2 DEF WithinLimit, Limit
<1> HIDE DEF c, m
<1>4. C <= (n + M) * Threshold /\ (M > 0 => C < (n + M) * Threshold)
  BY <1>1, <1>2, <1>3, TotalLimits
<1>5. C \in Nat /\ M \in Nat
  BY <1>1, <1>2, TotalSums
<1>6. M <= n
  BY DEF Evened, n, m
<1> HIDE DEF C, M
<1>7. n * Threshold \in Nat \ {0}
  <2>1. 0 < n /\ (0 + 1) * Threshold = Threshold /\ 0 \in Nat /\ Threshold \in Nat
    BY <1>1
  <2>2. (0 + 1) * Threshold <= n * Threshold
    BY <1>1, <2>1, TimesOrder
  <2>3. n * Threshold \in Nat
    BY <1>1, Distributes
  <2> QED BY <1>1, <2>1, <2>2, <2>3
<1>8. Threshold * (2 * n) = n * Threshold + n * Threshold
  BY <1>1
<1>9. (n + M) * Threshold = n * Threshold + M * Threshold /\ M * Threshold \in Nat
  BY <1>1, <1>5, Distributes
<1>10. M * Threshold <= n * Threshold
  BY <1>1, <1>5, <1>6, TimesOrder
<1>11. M = 0 => M * Threshold = 0
  BY <1>1
<1>12. C + 1 <= n * Threshold + n * Threshold
  BY <1>4, <1>5, <1>7, <1>9, <1>10, <1>11
<1> QED BY <1>8, <1>12 DEF C, c, n

(* uthash.h:313-333, 849-868: one entry more.                              *)
LEMMA Added ==
  ASSUME NEW t \in HashTable, TableInv(t), NEW e \in Symbol
  PROVE  /\ HASH_ADD(t, e) \in HashTable /\ TableInv(HASH_ADD(t, e))
         /\ EntriesOf(HASH_ADD(t, e).buckets) = EntriesOf(t.buckets) \cup {e}
<1> DEFINE made == IF t.num_buckets = 0 THEN HASH_MAKE_TABLE ELSE t
           n == made.num_buckets
           b == HASH_TO_BKT(Hash[e.key], n)
           added == [made EXCEPT !.num_items = @ + 1, !.buckets[b].chain = <<e>> \o @]
           new == [chain |-> <<e>> \o made.buckets[b].chain,
                   expand_mult |-> made.buckets[b].expand_mult]
<1>1. /\ made \in HashTable /\ TableInv(made) /\ n # 0
      /\ EntriesOf(made.buckets) = EntriesOf(t.buckets)
  <2>1. CASE t.num_buckets = 0
    <3>1. DOMAIN t.buckets = {}
      BY <2>1 DEF HashTable
    <3>2. EntriesOf(t.buckets) = {}
      BY <3>1 DEF EntriesOf
    <3> QED BY <2>1, <3>2, TableMade
  <2>2. CASE t.num_buckets # 0
    BY <2>2
  <2> QED BY <2>1, <2>2
<1>2. HASH_ADD(t, e) = IF Full(added.buckets[b]) /\ ~ added.noexpand
                       THEN HASH_EXPAND_BUCKETS(added) ELSE added
  BY DEF HASH_ADD
<1> HIDE DEF made
<1>3. n \in Nat \ {0} /\ n \in Nat /\ made.buckets \in Arrays(n) /\ made.num_items \in Nat
      /\ made.noexpand \in BOOLEAN
  BY <1>1, TableFields
<1>4. b \in 0..(n - 1)
  BY <1>3, BucketOf DEF Symbol
<1> HIDE DEF b
<1>5. made.buckets[b] \in Bucket /\ DOMAIN made.buckets = 0..(n - 1)
  BY <1>3, <1>4 DEF Arrays
<1>6. new \in Bucket /\ new.chain = <<e>> \o made.buckets[b].chain
      /\ new.expand_mult = made.buckets[b].expand_mult
  BY <1>5, InFront DEF Bucket
<1>7. /\ added.num_buckets = n /\ added.buckets = Put(made.buckets, b, new)
      /\ added.num_items = made.num_items + 1 /\ added.noexpand = made.noexpand
      /\ added.ideal_chain_maxlen = made.ideal_chain_maxlen
      /\ added.ineff_expands = made.ineff_expands
  <2>1. [made.buckets[b] EXCEPT !.chain = <<e>> \o @] = new
    <3>1. \A x \in Bucket : \A s : [x EXCEPT !.chain = s] =
                   [chain |-> s, expand_mult |-> x.expand_mult]
      BY DEF Bucket
    <3> QED BY <1>5, <3>1
  <2>2. added.buckets = [made.buckets EXCEPT ![b] = [made.buckets[b] EXCEPT !.chain = <<e>> \o @]]
    BY <1>1, <1>4, <1>5 DEF HashTable
  <2>3. added.buckets = Put(made.buckets, b, new)
    BY <2>1, <2>2 DEF Put
  <2> QED BY <1>1, <2>3 DEF HashTable
<1>8. added = [num_buckets |-> added.num_buckets, buckets |-> added.buckets,
               num_items |-> added.num_items, ideal_chain_maxlen |-> added.ideal_chain_maxlen,
               ineff_expands |-> added.ineff_expands, noexpand |-> added.noexpand]
  <2> DEFINE u == [num_buckets |-> added.num_buckets, buckets |-> added.buckets,
                   num_items |-> added.num_items,
                   ideal_chain_maxlen |-> added.ideal_chain_maxlen,
                   ineff_expands |-> added.ineff_expands, noexpand |-> added.noexpand]
  <2>1. DOMAIN made = Fields
    BY <1>1 DEF HashTable, Fields
  <2>2. added = [x \in Fields |-> added[x]]
    BY <2>1
  <2> HIDE DEF added
  <2>3. u = [x \in Fields |-> u[x]]
    BY DEF Fields
  <2>4. added.num_buckets = u.num_buckets /\ added.buckets = u.buckets
        /\ added.num_items = u.num_items /\ added.ideal_chain_maxlen = u.ideal_chain_maxlen
        /\ added.ineff_expands = u.ineff_expands /\ added.noexpand = u.noexpand
    OBVIOUS
  <2> HIDE DEF u
  <2>5. added = u
    BY <2>2, <2>3, <2>4, SameTable
  <2> QED BY <2>5 DEF u
<1> HIDE DEF added, new
<1>9. HASH_TO_BKT(Hash[e.key], n) = b
  BY DEF b
<1> HIDE DEF n
<1>10. /\ added.buckets \in Arrays(n) /\ EntriesOf(added.buckets) = EntriesOf(t.buckets) \cup {e}
       /\ Total(Counts(added.buckets), n) = Total(Counts(made.buckets), n) + 1
       /\ Placed(made.buckets, n) => Placed(added.buckets, n)
  <2> DEFINE old == made.buckets
             put == added.buckets
  <2>1. /\ old \in Arrays(n) /\ new.chain = <<e>> \o old[b].chain
        /\ put = Put(old, b, new) /\ EntriesOf(old) = EntriesOf(t.buckets)
    BY <1>1, <1>3, <1>6, <1>7
  <2> HIDE DEF old, put
  <2>2. /\ put \in Arrays(n) /\ EntriesOf(put) = EntriesOf(old) \cup {e}
        /\ Total(Counts(put), n) = Total(Counts(old), n) + 1
        /\ Placed(old, n) => Placed(put, n)
    BY <1>3, <1>4, <1>6, <1>9, <2>1, PutInFront
  <2> QED BY <2>1, <2>2 DEF old, put
<1>11. added \in HashTable
  BY <1>1, <1>3, <1>7, <1>8, <1>10, TableFields, TableOf
<1>12. Placed(added.buckets, n) /\ added.num_items = Total(Counts(added.buckets), n)
  BY <1>1, <1>7, <1>10 DEF TableInv, n
<1>13. made.num_items = Total(Counts(made.buckets), n) /\ (made.noexpand \/ Evened(made))
  BY <1>1 DEF TableInv, n
<1>14. CASE Full(added.buckets[b]) /\ ~ added.noexpand
  <2>1. added.num_items <= Threshold * (2 * added.num_buckets)
    BY <1>1, <1>7, <1>13, <1>14, RoomForOne DEF n
  <2>2. added.num_buckets # 0 /\ added.num_items # 0
    BY <1>3, <1>7
  <2> QED BY <1>2, <1>7, <1>10, <1>11, <1>12, <1>14, <2>1, <2>2, Doubled
<1>15. CASE ~ (Full(added.buckets[b]) /\ ~ added.noexpand)
  <2>1. added.noexpand \/ Evened(added)
    <3>1. SUFFICES ASSUME ~ added.noexpand PROVE Evened(added)
      OBVIOUS
    <3>2. Evened(made) /\ ~ Full(added.buckets[b])
      BY <1>7, <1>13, <1>15, <3>1
    <3>3. DOMAIN added.buckets = 0..(n - 1) /\ added.buckets[b] = new
          /\ \A a \in 0..(n - 1) : a # b => added.buckets[a] = made.buckets[a]
      BY <1>4, <1>5, <1>7 DEF Put
    <3>4. Mults(added.buckets) = Mults(made.buckets)
      BY <1>5, <1>6, <3>3 DEF Mults
    <3>5. WithinLimit(added.buckets[b], added.ideal_chain_maxlen)
      <4>1. Count(added.buckets[b]) \in Nat /\ Limit(added.buckets[b]) \in Nat
        <5>1. new.chain \in Seq(Symbol) /\ new.expand_mult \in Nat
          BY <1>6 DEF Bucket
        <5>2. (new.expand_mult + 1) * Threshold \in Nat
          BY <5>1, HashAssumption, Distributes
        <5> QED BY <3>3, <5>1, <5>2 DEF Count, Limit
      <4> QED BY <3>2, <4>1 DEF Full, WithinLimit
    <3>6. \A a \in 0..(n - 1) : WithinLimit(added.buckets[a], added.ideal_chain_maxlen)
      BY <1>5, <1>7, <3>2, <3>3, <3>5 DEF Evened
    <3> QED BY <1>7, <3>2, <3>3, <3>4, <3>6 DEF Evened, n
  <2> QED BY <1>2, <1>7, <1>10, <1>11, <1>12, <1>15, <2>1 DEF TableInv
<1> QED BY <1>14, <1>15

-----------------------------------------------------------------------------
(* Lookups.                                                                *)
LEMMA EntriesAreSymbols ==
  ASSUME NEW t \in HashTable PROVE EntriesOf(t.buckets) \subseteq Symbol
<1>1. t.buckets \in Arrays(t.num_buckets) /\ DOMAIN t.buckets = 0..(t.num_buckets - 1)
  BY TableFields DEF HashTable
<1>2. ASSUME NEW b \in DOMAIN t.buckets PROVE ToSet(t.buckets[b].chain) \subseteq Symbol
  <2>1. t.buckets[b].chain \in Seq(Symbol)
    BY <1>1 DEF Arrays, Bucket
  <2> QED BY <2>1 DEF ToSet
<1> QED BY <1>2 DEF EntriesOf

(* uthash.h:827-846: an entry is found under its key, and if none is found *)
(* there is none.                                                          *)
LEMMA Lookup ==
  ASSUME NEW t \in HashTable, Placed(t.buckets, t.num_buckets), NEW n \in Names
  PROVE  /\ \A e \in HASH_FIND(t, n) : e \in EntriesOf(t.buckets) /\ e.key = n
         /\ HASH_FIND(t, n) = {} => \A e \in EntriesOf(t.buckets) : e.key # n
<1> DEFINE N == t.num_buckets
           b == HASH_TO_BKT(Hash[n], N)
           c == t.buckets[b].chain
<1>1. t.buckets \in Arrays(N) /\ DOMAIN t.buckets = 0..(N - 1) /\ N \in Nat
  BY TableFields DEF HashTable
<1>2. CASE N = 0
  <2>1. DOMAIN t.buckets = {} /\ ChainOf(t, n) = <<>>
    BY <1>1, <1>2 DEF ChainOf
  <2>2. EntriesOf(t.buckets) = {} /\ FirstFrom(1, <<>>, n) = {}
    BY <2>1 DEF EntriesOf, FirstFrom
  <2> QED BY <2>1, <2>2 DEF HASH_FIND
<1>3. CASE N # 0
  <2>1. b \in 0..(N - 1) /\ ChainOf(t, n) = c
    BY <1>1, <1>3, BucketOf DEF ChainOf
  <2>2. c \in Seq(Symbol)
    BY <1>1, <2>1 DEF Arrays, Bucket
  <2>3. DOMAIN c = 1..Len(c) /\ Len(c) \in Nat
    BY <2>2
  <2>4. HASH_FIND(t, n) = {c[i] : i \in FirstFrom(1, c, n)}
    BY <2>1 DEF HASH_FIND
  <2>5. ToSet(c) \subseteq EntriesOf(t.buckets)
    BY <1>1, <2>1 DEF EntriesOf
  <2>6. \A e \in EntriesOf(t.buckets) : e.key = n => e \in ToSet(c)
    BY <1>1 DEF EntriesOf, Placed
  <2> HIDE DEF c
  <2>7. \A e \in HASH_FIND(t, n) : e \in EntriesOf(t.buckets) /\ e.key = n
    BY <2>3, <2>4, <2>5 DEF FirstFrom, ToSet
  <2>8. ASSUME NEW e \in ToSet(c), e.key = n PROVE HASH_FIND(t, n) # {}
    <3> DEFINE T == {i \in 1..Len(c) : c[i].key = n}
    <3>1. T \subseteq Nat /\ T # {}
      BY <2>3, <2>8 DEF ToSet
    <3>2. PICK i \in T : \A j \in T : i <= j
      BY <3>1, LeastElement
    <3>3. i \in 1..Len(c) /\ c[i].key = n
      OBVIOUS
    <3>4. \A j \in 1..(i - 1) : c[j].key # n
      BY <2>3, <3>2
    <3>5. i \in FirstFrom(1, c, n)
      BY <3>3, <3>4 DEF FirstFrom
    <3> QED BY <2>4, <3>5
  <2> QED BY <2>6, <2>7, <2>8
<1> QED BY <1>2, <1>3

-----------------------------------------------------------------------------
(* The abstract table: SymInv of Symbols, for any set of entries.          *)
Shown(e) == [key |-> e.key, name |-> e.name, sym_id |-> e.sym_id]

SymbolsOf(S) == {Shown(e) : e \in S}

SymbolsInv(T, last, C) ==
  /\ T \subseteq [key : Names, name : Names, sym_id : Nat]
  /\ last \in Nat /\ C \subseteq Names \X Nat
  /\ \A e \in T : e.sym_id < last /\ e.key = Key[e.name]
  /\ \A d, e \in T : d.sym_id = e.sym_id => d = e
  /\ \A c \in C : \E e \in T : e.sym_id = c[2] /\ c[1] \in {e.name, e.key}
  /\ \A d, e \in T : d.key = e.key /\ Private(d.key) => d = e

LEMMA SymbolsInvIs ==
  /\ Table!SymInv <=> SymbolsInv(SymbolsOf(Entries), last_sym_id, calls)
  /\ Table!SymInv' <=> SymbolsInv(SymbolsOf(Entries'), last_sym_id', calls')
<1> USE DEF Table!SymInv, Table!TypeOK, Table!IdsBelow, Table!UniqueIds, Table!KeysCut,
            Table!CallsRecorded, Table!PrivateKeysOnce, Table!Entry, Table!Private,
            Table!Fits, SymbolsInv, SymbolsOf, Shown, Private, Fits
<1>1. Table!SymInv <=> SymbolsInv(SymbolsOf(Entries), last_sym_id, calls)
  OBVIOUS
<1>2. Table!SymInv' <=> SymbolsInv(SymbolsOf(Entries'), last_sym_id', calls')
  OBVIOUS
<1> QED BY <1>1, <1>2

(* utils.c:59-61: a symbol found answers the call.                         *)
LEMMA SymbolFound ==
  ASSUME NEW T, NEW last, NEW C, SymbolsInv(T, last, C), NEW e \in T
  PROVE  SymbolsInv(T, last, C \cup {<<e.key, e.sym_id>>})
<1>1. e.key \in Names /\ e.sym_id \in Nat
  BY DEF SymbolsInv
<1> QED BY <1>1 DEF SymbolsInv

(* utils.c:63-81: a new symbol has an id none has, and a key that none has *)
(* if it is its own.                                                       *)
LEMMA SymbolMade ==
  ASSUME NEW T, NEW last, NEW C, SymbolsInv(T, last, C), NEW n \in Names, NEW new,
         new = [key |-> Key[n], name |-> n, sym_id |-> last], \A e \in T : e.key # n
  PROVE  SymbolsInv(T \cup {new}, last + 1, C \cup {<<n, last>>})
<1> DEFINE D == C \cup {<<n, last>>}
           U == T \cup {new}
<1>1. /\ new \in [key : Names, name : Names, sym_id : Nat]
      /\ new.key = Key[n] /\ new.name = n /\ new.sym_id = last /\ last \in Nat
  BY KeyAssumption DEF SymbolsInv
<1>2. T \subseteq [key : Names, name : Names, sym_id : Nat]
      /\ \A e \in T : e.sym_id < last /\ e.key = Key[e.name] /\ e.sym_id \in Nat
  BY DEF SymbolsInv
<1>3. U \subseteq [key : Names, name : Names, sym_id : Nat] /\ last + 1 \in Nat
      /\ D \subseteq Names \X Nat
  BY <1>1, <1>2 DEF SymbolsInv
<1>4. \A e \in U : e.sym_id < last + 1 /\ e.key = Key[e.name]
  BY <1>1, <1>2
<1>5. \A d, e \in U : d.sym_id = e.sym_id => d = e
  BY <1>1, <1>2 DEF SymbolsInv
<1>6. \A c \in D : \E e \in U : e.sym_id = c[2] /\ c[1] \in {e.name, e.key}
  BY <1>1 DEF SymbolsInv
<1>7. ASSUME NEW d \in U, NEW e \in U, d.key = e.key, Private(d.key) PROVE d = e
  <2>1. CASE Key[n] # d.key
    BY <1>1, <1>7, <2>1 DEF SymbolsInv
  <2>2. CASE Key[n] = d.key
    <3>1. Key[n] = n
      BY <2>2, <1>7 DEF Private, Fits
    <3> QED BY <1>1, <1>7, <2>2, <3>1
  <2> QED BY <2>1, <2>2
<1> HIDE DEF D, U
<1>8. SymbolsInv(U, last + 1, D)
  BY <1>3, <1>4, <1>5, <1>6, <1>7 DEF SymbolsInv
<1> QED BY <1>8 DEF U, D

-----------------------------------------------------------------------------
(* The invariant, step by step.                                            *)
LEMMA InternInit == Init => InternInv /\ Table!Init
<1> SUFFICES ASSUME Init PROVE InternInv /\ Table!Init
  OBVIOUS
<1>1. PoolInv
  BY InitInv DEF Init
<1>2. /\ Buckets(0) \in Arrays(0) /\ Placed(Buckets(0), 0) /\ EntriesOf(Buckets(0)) = {}
      /\ Total(Counts(Buckets(0)), 0) = 0 /\ Total(Mults(Buckets(0)), 0) = 0
  BY NoneMoved, 0 \in Nat DEF Rehashed
<1>3. tbl = [num_buckets |-> 0, buckets |-> Buckets(0), num_items |-> 0,
             ideal_chain_maxlen |-> 0, ineff_expands |-> 0, noexpand |-> FALSE]
  BY DEF Init, NoTable
<1>4. tbl \in HashTable
  BY <1>2, <1>3, TableOf, 0 \in Nat, FALSE \in BOOLEAN
<1>5. DOMAIN Buckets(0) = {}
  BY DEF Buckets
<1>6. TableInv(tbl)
  BY <1>2, <1>3, <1>5 DEF TableInv, Evened
<1>7. Entries = {}
  BY <1>2, <1>3 DEF Entries
<1>8. last_sym_id = 0 /\ calls = {} /\ SymbolsOf(Entries) = {}
  BY <1>7 DEF Init, SymbolsOf
<1>9. Table!SymInv
  BY <1>8, SymbolsInvIs DEF SymbolsInv
<1>10. Table!Init
  BY <1>8 DEF Table!Init, SymbolsOf, Shown
<1> QED BY <1>1, <1>4, <1>6, <1>7, <1>9, <1>10 DEF InternInv, OwnCells

(* utils.c:59-61: the table answers as the set of its entries would.       *)
LEMMA FindStep ==
  ASSUME InternInv, NEW n \in Names, FindSymbol(n)
  PROVE  InternInv' /\ Table!FindSymbol(n)
<1>1. PICK e \in HASH_FIND(tbl, n) : calls' = calls \cup {<<n, e.sym_id>>}
  BY DEF FindSymbol
<1>2. tbl' = tbl /\ last_sym_id' = last_sym_id /\ UNCHANGED poolVars
  BY DEF FindSymbol
<1>3. e \in Entries /\ e.key = n
  BY Lookup DEF InternInv, TableInv, Entries
<1>4. Shown(e) \in SymbolsOf(Entries) /\ Shown(e).key = n /\ Shown(e).sym_id = e.sym_id
  BY <1>3 DEF SymbolsOf, Shown
<1>5. Entries' = Entries
  BY <1>2 DEF Entries
<1>6. SymbolsInv(SymbolsOf(Entries), last_sym_id, calls)
  BY SymbolsInvIs DEF InternInv
<1>7. SymbolsInv(SymbolsOf(Entries), last_sym_id, calls \cup {<<n, e.sym_id>>})
  BY <1>4, <1>6, SymbolFound
<1>8. Table!SymInv'
  BY <1>1, <1>2, <1>5, <1>7, SymbolsInvIs
<1>9. PoolInv' /\ OwnCells'
  BY <1>2, <1>5, StepInv DEF InternInv, OwnCells, poolVars
<1>10. InternInv'
  BY <1>2, <1>8, <1>9 DEF InternInv
<1>11. Shown(e) \in Table!HashFind(n)
  BY <1>4 DEF Table!HashFind, SymbolsOf, Shown
<1>12. Table!FindSymbol(n)
  BY <1>1, <1>2, <1>4, <1>5, <1>11 DEF Table!FindSymbol
<1> QED BY <1>10, <1>12

(* utils.c:63-81: no entry has the name as key, and the one entered is a   *)
(* cell that no other entry is.                                            *)
LEMMA NewStep ==
  ASSUME InternInv, NEW n \in Names, NewSymbol(n)
  PROVE  InternInv' /\ Table!NewSymbol(n)
<1> DEFINE cell == <<val_pool', last_alloc'>>
           e == [key |-> Key[n], name |-> n, sym_id |-> last_sym_id, sym |-> cell]
           S == SymbolsOf(Entries)
<1>1. /\ HASH_FIND(tbl, n) = {} /\ last_sym_id < MaxSyms /\ bl_mk_val
      /\ tbl' = HASH_ADD(tbl, e) /\ last_sym_id' = last_sym_id + 1
      /\ calls' = calls \cup {<<n, last_sym_id>>}
  BY DEF NewSymbol
<1>2. PoolInv' /\ cell \notin cells /\ cells' = cells \cup {cell}
  BY <1>1, StepInv, FreshCell DEF InternInv
<1>3. cell \in Nat \X Nat
  BY <1>2, PoolAssumption DEF PoolInv, PoolTypeOK
<1> HIDE DEF cell
<1>4. SymbolsInv(S, last_sym_id, calls)
  BY SymbolsInvIs DEF InternInv
<1>5. last_sym_id \in Nat
  BY <1>4 DEF SymbolsInv
<1>6. e \in Symbol /\ e.sym = cell /\ e.sym_id = last_sym_id
  BY <1>3, <1>5, KeyAssumption DEF Symbol
<1>7. Shown(e) = [key |-> Key[n], name |-> n, sym_id |-> last_sym_id]
  BY DEF Shown
<1> HIDE DEF e
<1>8. tbl' \in HashTable /\ TableInv(tbl)' /\ Entries' = Entries \cup {e}
  <2>1. HASH_ADD(tbl, e) \in HashTable /\ TableInv(HASH_ADD(tbl, e))
        /\ EntriesOf(HASH_ADD(tbl, e).buckets) = EntriesOf(tbl.buckets) \cup {e}
    BY <1>6, Added DEF InternInv
  <2>2. TableInv(tbl)' <=> TableInv(tbl')
    BY DEF TableInv, Evened, WithinLimit, Limit, Count, Placed
  <2> QED BY <1>1, <2>1, <2>2 DEF Entries
<1>9. Entries \subseteq Symbol /\ \A d \in Entries : d.key # n
  BY <1>1, Lookup, EntriesAreSymbols DEF InternInv, TableInv, Entries
<1>10. \A d \in S : d.key # n
  BY <1>9 DEF SymbolsOf, Shown
<1>11. SymbolsOf(Entries') = S \cup {Shown(e)}
  BY <1>8 DEF SymbolsOf
<1>12. SymbolsInv(S \cup {Shown(e)}, last_sym_id + 1, calls \cup {<<n, last_sym_id>>})
  <2> HIDE DEF S
  <2> QED BY <1>4, <1>7, <1>10, SymbolMade
<1>13. Table!SymInv'
  BY <1>1, <1>11, <1>12, SymbolsInvIs
<1>14. OwnCells'
  <2>1. \A d \in Entries : d.sym \in cells /\ d.sym # cell
    BY <1>2 DEF InternInv, OwnCells
  <2>2. \A d \in Entries : d.sym_id \in Nat /\ d.sym_id < last_sym_id
    <3>1. \A d \in Entries : Shown(d) \in S /\ Shown(d).sym_id = d.sym_id
      BY DEF SymbolsOf, Shown
    <3>2. \A x \in S : x.sym_id < last_sym_id
      BY <1>4 DEF SymbolsInv
    <3> QED BY <1>9, <3>1, <3>2 DEF Symbol
  <2>3. \A d \in Entries : d.sym_id # last_sym_id
    BY <1>5, <2>2
  <2>4. \A d, f \in Entries : d.sym = f.sym <=> d.sym_id = f.sym_id
    BY DEF InternInv, OwnCells
  <2>5. \A d \in Entries' : d.sym \in cells'
    BY <1>2, <1>6, <1>8, <2>1
  <2>6. \A d, f \in Entries' : d.sym = f.sym <=> d.sym_id = f.sym_id
    BY <1>6, <1>8, <2>1, <2>3, <2>4
  <2> QED BY <2>5, <2>6 DEF OwnCells
<1>15. InternInv'
  BY <1>2, <1>8, <1>13, <1>14 DEF InternInv
<1>16. Table!HashFind(n) = {}
  BY <1>10 DEF Table!HashFind, SymbolsOf, Shown
<1>17. Table!NewSymbol(n)
  BY <1>1, <1>7, <1>11, <1>16 DEF Table!NewSymbol, Table!IdAfter, SymbolsOf, Shown
<1> QED BY <1>15, <1>17

LEMMA InternStep ==
  InternInv /\ [Next]_vars => InternInv' /\ [Table!Next]_(Table!vars) /\ [bl_mk_val]_poolVars
<1> SUFFICES ASSUME InternInv, [Next]_vars
             PROVE  InternInv' /\ [Table!Next]_(Table!vars) /\ [bl_mk_val]_poolVars
  OBVIOUS
<1>1. ASSUME UNCHANGED symVars, [bl_mk_val]_poolVars
      PROVE  InternInv' /\ [Table!Next]_(Table!vars) /\ [bl_mk_val]_poolVars
  <2>1. tbl' = tbl /\ last_sym_id' = last_sym_id /\ calls' = calls
    BY <1>1 DEF symVars
  <2>2. Entries' = Entries
    BY <2>1 DEF Entries
  <2>3. PoolInv' /\ cells \subseteq cells'
    BY <1>1, StepInv, FreshCell DEF InternInv, poolVars
  <2>4. OwnCells'
    BY <2>2, <2>3 DEF InternInv, OwnCells
  <2>5. Table!SymInv'
    BY <2>1, <2>2, SymbolsInvIs DEF InternInv
  <2>6. UNCHANGED Table!vars
    BY <2>1, <2>2 DEF Table!vars
  <2> QED BY <1>1, <2>1, <2>3, <2>4, <2>5, <2>6 DEF InternInv
<1>2. ASSUME NEW n \in Names, bl_mk_symbol(n)
      PROVE  InternInv' /\ [Table!Next]_(Table!vars) /\ [bl_mk_val]_poolVars
  <2>1. CASE FindSymbol(n)
    BY <1>2, <2>1, FindStep DEF Table!Next, Table!bl_mk_symbol, FindSymbol
  <2>2. CASE NewSymbol(n)
    BY <1>2, <2>2, NewStep DEF Table!Next, Table!bl_mk_symbol, NewSymbol
  <2> QED BY <1>2, <2>1, <2>2 DEF bl_mk_symbol
<1>3. CASE OtherValue
  BY <1>1, <1>3 DEF OtherValue
<1>4. CASE UNCHANGED vars
  BY <1>1, <1>4 DEF vars
<1> QED BY <1>2, <1>3, <1>4 DEF Next

(* The inductive invariant holds, for every hash function and every        *)
(* threshold (utils.c:55-82, uthash.h).                                    *)
THEOREM InternInvHolds == Spec => []InternInv
<1>1. QED
  BY InternInit, InternStep, PTL DEF Spec

(* Whatever the buckets do, bl_mk_symbol answers as the set of symbols     *)
(* would: doubling loses nothing and leaves everything where HASH_FIND     *)
(* looks for it (uthash.h:818-846, 915-963).                               *)
THEOREM ImplementsSymbolsHolds == Spec => ImplementsSymbols
<1>1. QED
  BY InternInvHolds, InternInit, InternStep, PTL DEF Spec, ImplementsSymbols, Table!Spec

(* What the buckets hold is a table as Symbols has it: ids stay below the  *)
(* counter, an entry's key is its cut name, an answer once given keeps its *)
(* entry, and a private key is entered once (utils.c:56-82).               *)
THEOREM TableInvHolds == Spec => []Table!SymInv
<1>1. InternInv => Table!SymInv
  BY DEF InternInv
<1>2. QED
  BY <1>1, InternInvHolds, PTL

(* No two symbols have one id, however often the table was doubled: the id *)
(* is taken from the counter and the counter moves on (utils.c:69-70).     *)
THEOREM UniqueIdsHolds == Spec => []Table!UniqueIds
<1>1. Table!SymInv => Table!UniqueIds
  BY DEF Table!SymInv
<1>2. QED
  BY <1>1, TableInvHolds, PTL

(* A name that fits the key and is no cut of another has one symbol, which *)
(* is a value of its own (utils.c:56-82).                                  *)
THEOREM InternedOnceHolds == Spec => []InternedOnce
<1>1. InternInv => InternedOnce
  <2> SUFFICES ASSUME InternInv PROVE InternedOnce
    OBVIOUS
  <2> DEFINE T == SymbolsOf(Entries)
  <2>1. SymbolsInv(T, last_sym_id, calls)
    BY SymbolsInvIs DEF InternInv
  <2> HIDE DEF T
  <2>2. ASSUME NEW c \in calls, NEW d \in calls, Private(c[1])
        PROVE  c[1] = d[1] <=> c[2] = d[2]
    <3>1. PICK e \in T : e.sym_id = c[2] /\ c[1] \in {e.name, e.key}
      BY <2>1 DEF SymbolsInv
    <3>2. PICK f \in T : f.sym_id = d[2] /\ d[1] \in {f.name, f.key}
      BY <2>1 DEF SymbolsInv
    <3>3. e.name \in Names /\ f.name \in Names /\ e.key = Key[e.name] /\ f.key = Key[f.name]
      BY <2>1 DEF SymbolsInv
    <3>4. e.name = c[1] /\ e.key = c[1]
      BY <2>2, <3>1, <3>3 DEF Private, Fits
    <3>5. ASSUME c[1] = d[1] PROVE c[2] = d[2]
      <4>1. f.key = c[1]
        BY <2>2, <3>2, <3>3, <3>5 DEF Private, Fits
      <4>2. e = f
        BY <2>1, <2>2, <3>4, <4>1 DEF SymbolsInv
      <4> QED BY <3>1, <3>2, <4>2
    <3>6. ASSUME c[2] = d[2] PROVE c[1] = d[1]
      <4>1. e = f
        BY <2>1, <3>1, <3>2, <3>6 DEF SymbolsInv
      <4> QED BY <3>2, <3>4, <4>1
    <3> QED BY <3>5, <3>6
  <2>3. Table!InternedOnce
    BY <2>2 DEF Table!InternedOnce, Table!Private, Table!Fits, Private, Fits
  <2> QED BY <2>3 DEF InternInv, InternedOnce, OwnCells
<1>2. QED
  BY <1>1, InternInvHolds, PTL

(* As long as doubling helps, no chain is left over its bucket's limit     *)
(* (uthash.h:893-895), whatever the hash function.                         *)
THEOREM BoundedChainsHolds == Spec => []BoundedChains
<1>1. InternInv => BoundedChains
  <2> SUFFICES ASSUME InternInv, NEW b \in DOMAIN tbl.buckets, Full(tbl.buckets[b]),
                      ~ tbl.noexpand
               PROVE  Count(tbl.buckets[b]) <= tbl.ideal_chain_maxlen
    BY DEF BoundedChains
  <2>1. WithinLimit(tbl.buckets[b], tbl.ideal_chain_maxlen)
    BY DEF InternInv, TableInv, Evened
  <2>2. tbl.buckets[b] \in Bucket
    BY TableFields DEF InternInv, Arrays
  <2>3. Count(tbl.buckets[b]) \in Nat /\ Limit(tbl.buckets[b]) \in Nat
    <3>1. tbl.buckets[b].chain \in Seq(Symbol) /\ tbl.buckets[b].expand_mult \in Nat
      BY <2>2 DEF Bucket
    <3>2. (tbl.buckets[b].expand_mult + 1) * Threshold \in Nat
      BY <3>1, HashAssumption, Distributes
    <3> QED BY <3>1, <3>2 DEF Count, Limit
  <2> QED BY <2>1, <2>3 DEF Full, WithinLimit
<1>2. QED
  BY <1>1, InternInvHolds, PTL

(* What is proved of the pool is true of it here: symbols and the other    *)
(* values take their cells one bl_mk_val at a time (utils.c:37-41, 63).    *)
THEOREM CellsFromPool == Spec => PoolSpec
<1>1. Init => PoolInit
  BY DEF Init
<1>2. QED
  BY <1>1, InternInvHolds, InternStep, PTL DEF Spec, PoolSpec
=============================================================================
