--------------------------- MODULE ContextsProofs ----------------------------
(* For every number of contexts, every set of symbols and values and every *)
(* array geometry: the arrays of ctx.c stay well formed and implement the  *)
(* scopes of module Scopes.                                                *)
EXTENDS Contexts, TLAPS

LEMMA CtxInit == Init => CtxInv
  <1> SUFFICES ASSUME Init PROVE CtxInv
    OBVIOUS
  <1> USE ContextsAssumption DEF Init, Ctx
  <1>1. TypeOK
    <2>1. \A c \in Ctx : /\ keys[c] \in [0..(vals_count[c] - 1) -> Syms \cup {NoKey}]
                         /\ vals[c] \in [0..(vals_count[c] - 1) -> Atoms \cup 0..n]
      BY DEF Empty
    <2>2. chain \in [Ctx -> SUBSET Ctx] /\ path \in Seq(Syms)
      OBVIOUS
    <2>3. parent \in [Ctx -> 0..MaxCtx] /\ n \in 0..MaxCtx /\ ret \in Val
      BY DEF Val
    <2>4. StoreTypeOK
      <3>1. /\ vals_count \in [Ctx -> Nat] /\ write_to_parent \in [Ctx -> BOOLEAN]
            /\ DOMAIN keys = Ctx /\ DOMAIN vals = Ctx
        OBVIOUS
      <3> QED BY ONLY <2>1, <2>2, <2>3, <3>1 DEF StoreTypeOK
    <2>5. CallTypeOK
      BY <2>2, <2>3 DEF CallTypeOK
    <2>6. QED
      BY ONLY <2>4, <2>5 DEF TypeOK
  <1>2. KeysMatch /\ ChainOK /\ Fresh /\ RedirectHasParent
    BY DEF KeysMatch, ChainOK, Fresh, RedirectHasParent
  <1>3. WalkOK /\ UsingOK /\ UsingCopies
    BY DEF WalkOK, UsingOK, UsingCopies
  <1>4. QED
    BY <1>1, <1>2, <1>3 DEF CtxInv

(* b is a in k entries, x in those beyond the first m, and v at s.         *)
IsGrown(b, a, T, m, k, x, s, v) ==
  /\ b \in [0..(k - 1) -> T]
  /\ b[s] = v
  /\ \A i \in 0..(k - 1) : i # s => b[i] = IF i < m THEN a[i] ELSE x

(* The array that growing and storing leave behind.                        *)
LEMMA GrownArray ==
  ASSUME NEW T, NEW m \in Nat, NEW a \in [0..(m - 1) -> T], NEW x \in T,
         NEW k \in Nat, m <= k, NEW s \in Nat, s < k, NEW v \in T,
         NEW b, b = [Grown(a, k, x) EXCEPT ![s] = v]
  PROVE  IsGrown(b, a, T, m, k, x, s, v)
  <1> DEFINE g == Grown(a, k, x)
  <1>1. g = [i \in 0..(k - 1) |-> IF i \in DOMAIN a THEN a[i] ELSE x]
    BY DEF Grown
  <1>2. \A i \in 0..(k - 1) : i \in DOMAIN a <=> i < m
    OBVIOUS
  <1>3. \A i \in 0..(k - 1) : g[i] = IF i < m THEN a[i] ELSE x
    BY <1>1, <1>2
  <1>4. g \in [0..(k - 1) -> T]
    <2>1. \A i \in 0..(k - 1) : g[i] \in T
      <3> SUFFICES ASSUME NEW i \in 0..(k - 1) PROVE g[i] \in T
        OBVIOUS
      <3>1. CASE i < m
        BY <3>1, <1>3
      <3>2. CASE ~ (i < m)
        BY <3>2, <1>3
      <3>3. QED
        BY <3>1, <3>2
    <2>2. QED
      BY <1>1, <2>1
  <1> HIDE DEF g
  <1>5. b = [g EXCEPT ![s] = v] /\ s \in 0..(k - 1)
    BY DEF g
  <1>6. QED
    BY <1>3, <1>4, <1>5 DEF IsGrown

(* The arrays after v was stored for s in t: t may have grown, its other   *)
(* entries and the other contexts are as they were.                        *)
Stored(t, s, v) ==
  /\ vals_count' \in [Ctx -> Nat]
  /\ DOMAIN keys' = Ctx /\ DOMAIN vals' = Ctx
  /\ s < vals_count'[t]
  /\ vals_count[t] <= vals_count'[t]
  /\ \A c \in Ctx :
       /\ c # t => /\ vals_count'[c] = vals_count[c]
                   /\ keys'[c] = keys[c] /\ vals'[c] = vals[c]
       /\ keys'[c] \in [0..(vals_count'[c] - 1) -> Syms \cup {NoKey}]
       /\ vals'[c] \in [0..(vals_count'[c] - 1) -> Atoms \cup 0..n]
  /\ \A i \in 0..(vals_count'[t] - 1) :
       /\ i = s => keys'[t][i] = s /\ vals'[t][i] = v
       /\ i # s /\ i < vals_count[t] =>
            keys'[t][i] = keys[t][i] /\ vals'[t][i] = vals[t][i]
       /\ i # s /\ ~ (i < vals_count[t]) =>
            keys'[t][i] = NoKey /\ vals'[t][i] = 0

(* Storing keeps the arrays well formed, whether or not they grow.         *)
LEMMA StoreTyped ==
  ASSUME TypeOK, NEW t \in Ctx, NEW s \in Syms, NEW v \in Atoms \cup 0..n,
         Store(t, s, v)
  PROVE  Stored(t, s, v)
  <1> DEFINE k == IF NeedsRoom(t, s) THEN s + Slack ELSE vals_count[t]
  <1>1. /\ vals_count' = [vals_count EXCEPT ![t] = k]
        /\ vals' = [vals EXCEPT ![t] = [Grown(vals[t], k, 0) EXCEPT ![s] = v]]
        /\ keys' = [keys EXCEPT ![t] = [Grown(keys[t], k, NoKey) EXCEPT ![s] = s]]
    BY DEF Store
  <1>2. vals_count \in [Ctx -> Nat] /\ s \in Nat /\ Slack \in Nat \ {0} /\ n \in 0..MaxCtx
    BY ContextsAssumption DEF TypeOK, StoreTypeOK, CallTypeOK
  <1>3. k \in Nat /\ s < k /\ vals_count[t] <= k
    BY <1>2 DEF NeedsRoom
  <1>4. /\ DOMAIN vals = Ctx /\ vals[t] \in [0..(vals_count[t] - 1) -> Atoms \cup 0..n]
        /\ DOMAIN keys = Ctx /\ keys[t] \in [0..(vals_count[t] - 1) -> Syms \cup {NoKey}]
    BY DEF TypeOK, StoreTypeOK, CallTypeOK
  <1> HIDE DEF k
  <1>5. vals_count'[t] = k /\ vals_count' \in [Ctx -> Nat]
    BY <1>1, <1>2, <1>3
  <1>6. /\ vals'[t] = [Grown(vals[t], k, 0) EXCEPT ![s] = v]
        /\ keys'[t] = [Grown(keys[t], k, NoKey) EXCEPT ![s] = s]
        /\ DOMAIN keys' = Ctx /\ DOMAIN vals' = Ctx
    BY <1>1, <1>4
  <1>7. \A c \in Ctx : c # t =>
           /\ vals_count'[c] = vals_count[c]
           /\ keys'[c] = keys[c] /\ vals'[c] = vals[c]
    BY <1>1, <1>2, <1>4
  <1>8. /\ vals'[t] \in [0..(k - 1) -> Atoms \cup 0..n]
        /\ \A i \in 0..(k - 1) :
             /\ i = s => vals'[t][i] = v
             /\ i # s /\ i < vals_count[t] => vals'[t][i] = vals[t][i]
             /\ i # s /\ ~ (i < vals_count[t]) => vals'[t][i] = 0
    <2> DEFINE T == Atoms \cup 0..n
               b == vals'[t]
    <2>1. 0 \in T /\ v \in T /\ vals_count[t] \in Nat
      BY <1>2
    <2>2. /\ b = [Grown(vals[t], k, 0) EXCEPT ![s] = v]
          /\ vals[t] \in [0..(vals_count[t] - 1) -> T]
      BY <1>4, <1>6
    <2> HIDE DEF T, b
    <2>3. IsGrown(b, vals[t], T, vals_count[t], k, 0, s, v)
      BY <2>1, <2>2, <1>2, <1>3, GrownArray
    <2>4. QED
      BY <2>3 DEF T, b, IsGrown
  <1>9. /\ keys'[t] \in [0..(k - 1) -> Syms \cup {NoKey}]
        /\ \A i \in 0..(k - 1) :
             /\ i = s => keys'[t][i] = s
             /\ i # s /\ i < vals_count[t] => keys'[t][i] = keys[t][i]
             /\ i # s /\ ~ (i < vals_count[t]) => keys'[t][i] = NoKey
    <2> DEFINE T == Syms \cup {NoKey}
               b == keys'[t]
    <2>1. NoKey \in T /\ s \in T /\ vals_count[t] \in Nat
      BY <1>2
    <2>2. /\ b = [Grown(keys[t], k, NoKey) EXCEPT ![s] = s]
          /\ keys[t] \in [0..(vals_count[t] - 1) -> T]
      BY <1>4, <1>6
    <2> HIDE DEF T, b
    <2>3. IsGrown(b, keys[t], T, vals_count[t], k, NoKey, s, s)
      BY <2>1, <2>2, <1>2, <1>3, GrownArray
    <2>4. QED
      BY <2>3 DEF T, b, IsGrown
  <1>10. \A c \in Ctx : c # t =>
           /\ keys'[c] \in [0..(vals_count'[c] - 1) -> Syms \cup {NoKey}]
           /\ vals'[c] \in [0..(vals_count'[c] - 1) -> Atoms \cup 0..n]
    BY <1>7 DEF TypeOK, StoreTypeOK, CallTypeOK
  <1>11. QED
    BY <1>3, <1>5, <1>6, <1>7, <1>8, <1>9, <1>10 DEF Stored

(* Growing is invisible: storing changes one variable of one context.      *)
LEMMA StoreSlot ==
  ASSUME TypeOK, NEW t \in Ctx, NEW s \in Syms, NEW v \in Atoms \cup 0..n,
         Store(t, s, v)
  PROVE  \A c \in Ctx, x \in Nat :
           Slot(c, x)' = IF c = t /\ x = s THEN v ELSE Slot(c, x)
  <1>0. Stored(t, s, v)
    BY StoreTyped
  <1> SUFFICES ASSUME NEW c \in Ctx, NEW x \in Nat
               PROVE  Slot(c, x)' = IF c = t /\ x = s THEN v ELSE Slot(c, x)
    OBVIOUS
  <1>1. vals_count \in [Ctx -> Nat] /\ vals_count' \in [Ctx -> Nat]
    BY <1>0 DEF TypeOK, StoreTypeOK, Stored
  <1>2. CASE c # t
    BY <1>2, <1>0 DEF Slot, Stored
  <1>3. CASE c = t
    <2>1. CASE x < vals_count'[t]
      <3>1. x \in 0..(vals_count'[t] - 1)
        BY <2>1, <1>1
      <3>2. QED
        BY <1>3, <2>1, <3>1, <1>1, <1>0 DEF Slot, Stored
    <2>2. CASE ~ (x < vals_count'[t])
      BY <1>3, <2>2, <1>1, <1>0 DEF Slot, Stored
    <2>3. QED
      BY <2>1, <2>2
  <1>4. QED
    BY <1>2, <1>3

(* The contexts that exist are a part of Ctx, and assignments reach one.   *)
LEMMA LiveCtx ==
  ASSUME CtxInv
  PROVE  /\ n \in Nat /\ MaxCtx \in Nat /\ 1..n \subseteq Ctx /\ 0..n \subseteq Nat
         /\ \A c \in 1..n : Target(c) \in 1..n /\ Target(c) \in Ctx
<1>1. n \in 0..MaxCtx /\ MaxCtx \in Nat
  BY ContextsAssumption DEF CtxInv, TypeOK, StoreTypeOK
<1>2. n \in Nat /\ 1..n \subseteq Ctx /\ 0..n \subseteq Nat
  BY <1>1 DEF Ctx
<1>3. \A c \in 1..n : Target(c) \in 1..n
  BY DEF CtxInv, RedirectHasParent
<1> QED BY <1>1, <1>2, <1>3

(* bl_ctx_new: the new context is younger than everything it can reach.    *)
LEMMA NewInv ==
  ASSUME CtxInv, NEW p \in 0..n, bl_ctx_new(p)
  PROVE  CtxInv'
  <1> DEFINE c == n + 1
             k == IF p = 0 THEN Initial ELSE vals_count[p]
  <1> USE DEF CtxInv
  <1>1. /\ pc = "idle" /\ n < MaxCtx /\ n' = c
        /\ parent' = [parent EXCEPT ![c] = p]
        /\ vals_count' = [vals_count EXCEPT ![c] = k]
        /\ keys' = [keys EXCEPT ![c] = Empty(k, NoKey)]
        /\ vals' = [vals EXCEPT ![c] = Empty(k, 0)]
        /\ chain' = [chain EXCEPT ![c] = {c} \cup (IF p = 0 THEN {} ELSE chain[p])]
        /\ UNCHANGED <<write_to_parent, pc, from, at, path, ret, into, src, idx>>
    BY DEF bl_ctx_new, getting, using
  <1>2. /\ n \in Nat /\ MaxCtx \in Nat /\ c \in Nat /\ c \in Ctx /\ 1..n \subseteq Ctx
        /\ \A x \in 1..n : x # c
        /\ p # 0 => p \in 1..n /\ p \in Ctx
        /\ Initial \in Nat /\ n' = n + 1
    BY <1>1, ContextsAssumption DEF TypeOK, StoreTypeOK, CallTypeOK, Ctx
  <1>3. vals_count \in [Ctx -> Nat] /\ k \in Nat
    BY <1>2 DEF TypeOK, StoreTypeOK, CallTypeOK
  <1> HIDE DEF c, k
  <1>4. /\ Empty(k, 0) \in [0..(k - 1) -> Atoms \cup 0..n']
        /\ Empty(k, NoKey) \in [0..(k - 1) -> Syms \cup {NoKey}]
    BY <1>2 DEF Empty
  <1>5. /\ vals_count'[c] = k /\ vals'[c] = Empty(k, 0) /\ keys'[c] = Empty(k, NoKey)
        /\ parent'[c] = p
        /\ chain'[c] = {c} \cup (IF p = 0 THEN {} ELSE chain[p])
    BY <1>1, <1>2, <1>3 DEF TypeOK, StoreTypeOK, CallTypeOK
  <1>6. \A x \in Ctx : x # c =>
          /\ vals_count'[x] = vals_count[x] /\ vals'[x] = vals[x] /\ keys'[x] = keys[x]
          /\ parent'[x] = parent[x] /\ chain'[x] = chain[x]
    BY <1>1, <1>2 DEF TypeOK, StoreTypeOK, CallTypeOK
  <1>7. TypeOK'
    <2>1. \A x \in Ctx : /\ keys'[x] \in [0..(vals_count'[x] - 1) -> Syms \cup {NoKey}]
                         /\ vals'[x] \in [0..(vals_count'[x] - 1) -> Atoms \cup 0..n']
      <3> SUFFICES ASSUME NEW x \in Ctx
                   PROVE  /\ keys'[x] \in [0..(vals_count'[x] - 1) -> Syms \cup {NoKey}]
                          /\ vals'[x] \in [0..(vals_count'[x] - 1) -> Atoms \cup 0..n']
        OBVIOUS
      <3>1. CASE x = c
        BY <3>1, <1>4, <1>5
      <3>2. CASE x # c
        <4>1. /\ keys[x] \in [0..(vals_count[x] - 1) -> Syms \cup {NoKey}]
              /\ vals[x] \in [0..(vals_count[x] - 1) -> Atoms \cup 0..n]
          BY DEF TypeOK, StoreTypeOK, CallTypeOK
        <4>2. Atoms \cup 0..n \subseteq Atoms \cup 0..n'
          BY <1>2
        <4>3. QED
          BY <3>2, <4>1, <4>2, <1>6
      <3>3. QED
        BY <3>1, <3>2
    <2>2. /\ n' \in 0..MaxCtx /\ parent' \in [Ctx -> 0..MaxCtx]
          /\ vals_count' \in [Ctx -> Nat] /\ DOMAIN keys' = Ctx /\ DOMAIN vals' = Ctx
          /\ chain' \in [Ctx -> SUBSET Ctx]
      BY <1>1, <1>2, <1>3 DEF TypeOK, StoreTypeOK, CallTypeOK
    <2>3. /\ from' \in 0..n' /\ at' \in 0..n' /\ path' \in Seq(Syms)
          /\ into' \in 0..n' /\ src' \in 0..n' /\ idx' \in Nat
          /\ write_to_parent' \in [Ctx -> BOOLEAN] /\ ret' \in Val
          /\ pc' \in {"idle", "get", "using"}
      BY <1>1, <1>2 DEF TypeOK, StoreTypeOK, CallTypeOK, Val
    <2>4. QED
      BY <2>1, <2>2, <2>3 DEF TypeOK, StoreTypeOK, CallTypeOK
  <1>8. \A x \in 1..n' : x # c => x \in 1..n
    BY <1>1, <1>2 DEF c
  <1>9. KeysMatch'
    <2> SUFFICES ASSUME NEW x \in 1..n', NEW i \in 0..(vals_count'[x] - 1)
                 PROVE  /\ vals'[x][i] # 0 => keys'[x][i] = i
                        /\ keys'[x][i] # NoKey => keys'[x][i] = i
      BY DEF KeysMatch
    <2>1. CASE x = c
      BY <2>1, <1>5 DEF Empty
    <2>2. CASE x # c
      BY <2>2, <1>2, <1>6, <1>8 DEF KeysMatch
    <2>3. QED
      BY <2>1, <2>2
  <1>10. ChainOK'
    <2> SUFFICES ASSUME NEW x \in 1..n'
                 PROVE  /\ parent'[x] \in 0..(x - 1)
                        /\ chain'[x] \subseteq 1..x
                        /\ chain'[x] = {x} \cup (IF parent'[x] = 0 THEN {} ELSE chain'[parent'[x]])
      BY DEF ChainOK
    <2>1. CASE x = c
      <3>1. p # 0 => chain[p] \subseteq 1..p /\ chain'[p] = chain[p]
        BY <1>2, <1>6 DEF ChainOK
      <3>2. QED
        BY <2>1, <3>1, <1>2, <1>5 DEF c
    <2>2. CASE x # c
      <3>1. x \in 1..n /\ x \in Ctx /\ x \in Nat
        BY <2>2, <1>2, <1>8
      <3>2. parent[x] # 0 => parent[x] \in 1..n
        BY <3>1, <1>2 DEF ChainOK
      <3>3. parent[x] # 0 => chain'[parent[x]] = chain[parent[x]]
        BY <3>2, <1>2, <1>6
      <3>4. QED
        BY <2>2, <3>1, <3>3, <1>6 DEF ChainOK
    <2>3. QED
      BY <2>1, <2>2
  <1>11. Fresh'
    BY <1>1, <1>2, <1>3, <1>6 DEF Fresh, c, Ctx
  <1>12. RedirectHasParent'
    <2> SUFFICES ASSUME NEW x \in 1..n' PROVE Target(x)' \in 1..n'
      BY DEF RedirectHasParent
    <2>1. CASE x = c
      BY <2>1, <1>1, <1>2 DEF Fresh, Target, c
    <2>2. CASE x # c
      BY <2>2, <1>1, <1>2, <1>6, <1>8 DEF RedirectHasParent, Target
    <2>3. QED
      BY <2>1, <2>2
  <1>13. WalkOK' /\ UsingOK' /\ UsingCopies'
    BY <1>1 DEF WalkOK, UsingOK, UsingCopies
  <1>14. QED
    BY <1>7, <1>9, <1>10, <1>11, <1>12, <1>13

(* The operator's frame gets a parent to write to, which it has.           *)
LEMMA WriteToParentInv ==
  ASSUME CtxInv, NEW c \in 1..n, WriteToParent(c)
  PROVE  CtxInv'
  <1> USE DEF CtxInv
  <1>1. /\ pc = "idle" /\ parent[c] # 0
        /\ write_to_parent' = [write_to_parent EXCEPT ![c] = TRUE]
        /\ UNCHANGED <<n, parent, vals_count, keys, vals, chain, pc>>
        /\ UNCHANGED <<from, at, path, ret, into, src, idx>>
    BY DEF WriteToParent, getting, using
  <1>2. n \in Nat /\ 1..n \subseteq Ctx /\ c \in Ctx /\ parent[c] \in 1..n
    BY <1>1, LiveCtx DEF ChainOK
  <1>3. TypeOK'
    BY <1>1 DEF TypeOK, StoreTypeOK, CallTypeOK
  <1>4. KeysMatch' /\ ChainOK'
    BY <1>1 DEF KeysMatch, ChainOK
  <1>5. Fresh'
    BY <1>1, <1>2 DEF Fresh, TypeOK, StoreTypeOK, CallTypeOK, Ctx
  <1>6. RedirectHasParent'
    BY <1>1, <1>2 DEF RedirectHasParent, Target, TypeOK, StoreTypeOK
  <1>7. WalkOK' /\ UsingOK' /\ UsingCopies'
    BY <1>1 DEF WalkOK, UsingOK, UsingCopies
  <1>8. QED
    BY <1>3, <1>4, <1>5, <1>6, <1>7

(* What storing keeps of the invariant, for bl_ctx_set and the copy loop.  *)
LEMMA StoreInv ==
  ASSUME CtxInv, NEW t \in 1..n, NEW s \in Syms, NEW v \in Atoms \cup 0..n,
         Store(t, s, v), UNCHANGED <<n, parent, write_to_parent, chain>>
  PROVE  KeysMatch' /\ ChainOK' /\ Fresh' /\ RedirectHasParent'
  <1> USE DEF CtxInv
  <1>1. n \in Nat /\ t \in Ctx /\ 1..n \subseteq Ctx
    BY LiveCtx
  <1>0. Stored(t, s, v)
    BY <1>1, StoreTyped
  <1>2. vals_count \in [Ctx -> Nat] /\ vals_count' \in [Ctx -> Nat]
    BY <1>0 DEF TypeOK, StoreTypeOK, Stored
  <1>3. KeysMatch'
    <2> SUFFICES ASSUME NEW c \in 1..n, NEW i \in 0..(vals_count'[c] - 1)
                 PROVE  /\ vals'[c][i] # 0 => keys'[c][i] = i
                        /\ keys'[c][i] # NoKey => keys'[c][i] = i
      BY DEF KeysMatch
    <2>1. CASE c # t
      <3>1. /\ vals_count'[c] = vals_count[c]
            /\ keys'[c] = keys[c] /\ vals'[c] = vals[c]
        BY <2>1, <1>0, <1>1 DEF Stored
      <3>2. QED
        BY <3>1 DEF KeysMatch
    <2>2. CASE c = t
      <3>1. CASE i < vals_count[t]
        <4>1. i \in 0..(vals_count[t] - 1)
          BY <3>1, <1>1, <1>2, <2>2
        <4>2. QED
          BY <2>2, <3>1, <4>1, <1>0, <1>1 DEF KeysMatch, Stored
      <3>2. CASE ~ (i < vals_count[t])
        BY <2>2, <3>2, <1>0, <1>1 DEF Stored
      <3>3. QED
        BY <3>1, <3>2
    <2>3. QED
      BY <2>1, <2>2
  <1>4. ChainOK'
    BY DEF ChainOK
  <1>5. Fresh'
    BY <1>0, <1>1 DEF Fresh, Stored
  <1>6. RedirectHasParent'
    BY DEF RedirectHasParent, Target
  <1>7. QED
    BY <1>3, <1>4, <1>5, <1>6

LEMMA SetInv ==
  ASSUME CtxInv, NEW c \in 1..n, NEW s \in Syms, NEW v \in Atoms \cup 0..n,
         bl_ctx_set(c, s, v)
  PROVE  CtxInv'
  <1> USE DEF CtxInv
  <1>1. /\ pc = "idle" /\ Store(Target(c), s, v)
        /\ UNCHANGED <<n, parent, write_to_parent, chain, pc>>
        /\ UNCHANGED <<from, at, path, ret, into, src, idx>>
    BY DEF bl_ctx_set, getting, using
  <1>2. Target(c) \in 1..n /\ Target(c) \in Ctx
    BY LiveCtx
  <1>3. TypeOK'
    BY <1>1, <1>2, StoreTyped DEF TypeOK, StoreTypeOK, CallTypeOK, Stored
  <1>4. KeysMatch' /\ ChainOK' /\ Fresh' /\ RedirectHasParent'
    BY <1>1, <1>2, StoreInv
  <1>5. WalkOK' /\ UsingOK' /\ UsingCopies'
    BY <1>1 DEF WalkOK, UsingOK, UsingCopies
  <1>6. QED
    BY <1>3, <1>4, <1>5

(* Steps that leave the contexts alone keep what is said of them.          *)
LEMMA StoreUnchanged ==
  ASSUME CtxInv, UNCHANGED store
  PROVE  /\ KeysMatch' /\ ChainOK' /\ Fresh' /\ RedirectHasParent'
         /\ \A c, s : Slot(c, s)' = Slot(c, s)
         /\ \A c : Target(c)' = Target(c)
         /\ StoreTypeOK'
  BY DEF CtxInv, store, TypeOK, StoreTypeOK, KeysMatch, ChainOK, Fresh, RedirectHasParent,
         Target, Slot

(* A lookup starts at the context it is made in.                           *)
LEMMA GetBeginInv ==
  ASSUME CtxInv, NEW c \in 1..n, NEW s \in Syms, GetBegin(c, s)
  PROVE  CtxInv'
  <1> USE DEF CtxInv
  <1>1. /\ pc' = "get" /\ from' = c /\ at' = c /\ path' = Split[s]
        /\ UNCHANGED store /\ n' = n /\ chain' = chain
        /\ UNCHANGED <<ret, into, src, idx>>
    BY DEF GetBegin, using, store
  <1>2. Split[s] \in Seq(Syms) /\ Split[s] # <<>>
    BY ContextsAssumption
  <1>3. TypeOK'
    BY <1>1, <1>2, StoreUnchanged, LiveCtx DEF TypeOK, CallTypeOK
  <1>4. c \in Nat /\ chain[c] \subseteq 1..c /\ c \in chain[c]
    BY LiveCtx DEF ChainOK
  <1>5. WalkOK'
    BY <1>1, <1>2, <1>4 DEF WalkOK
  <1>6. UsingOK' /\ UsingCopies'
    BY <1>1 DEF UsingOK, UsingCopies
  <1>7. QED
    BY <1>1, <1>3, <1>5, <1>6, StoreUnchanged

LEMMA ReturnInv ==
  ASSUME CtxInv, pc = "get", NEW v \in Val, Return(v)
  PROVE  CtxInv'
  <1> USE DEF CtxInv
  <1>1. /\ pc' = "idle" /\ from' = 0 /\ at' = 0 /\ path' = <<>> /\ ret' = v
        /\ UNCHANGED store /\ n' = n /\ UNCHANGED <<into, src, idx>>
    BY DEF Return, using, store
  <1>2. TypeOK'
    BY <1>1, StoreUnchanged, LiveCtx DEF TypeOK, CallTypeOK
  <1>3. WalkOK' /\ UsingOK' /\ UsingCopies'
    BY <1>1 DEF WalkOK, UsingOK, UsingCopies
  <1>4. QED
    BY <1>1, <1>2, <1>3, StoreUnchanged

(* Where the walk is, the name and the slot it reads are well typed.       *)
LEMMA WalkTyped ==
  ASSUME CtxInv, pc = "get"
  PROVE  /\ from \in 1..n /\ from \in Ctx /\ at \in 1..n /\ at \in Ctx
         /\ at \in Nat /\ chain[from] \subseteq 1..n
         /\ path \in Seq(Syms) /\ path # <<>>
         /\ Part \in Syms /\ Part \in Nat
         /\ Slot(at, Part) \in Atoms \cup 0..n /\ Slot(at, Part) \in Val
  <1> USE DEF CtxInv
  <1>1. from \in 1..n /\ from \in Ctx /\ n \in Nat /\ 1..n \subseteq Ctx
    BY LiveCtx DEF WalkOK
  <1>2. chain[from] \subseteq 1..n /\ at \in chain[from]
    BY <1>1 DEF WalkOK, ChainOK
  <1>3. path \in Seq(Syms) /\ path # <<>>
    BY DEF WalkOK, TypeOK, StoreTypeOK, CallTypeOK
  <1>4. Part \in Syms /\ Part \in Nat
    <2>1. Part \in Syms
      BY <1>3 DEF Part
    <2>2. QED
      BY <2>1, ContextsAssumption
  <1>5. at \in 1..n /\ at \in Ctx /\ at \in Nat
    BY <1>1, <1>2
  <1>6. /\ vals_count[at] \in Nat
        /\ vals[at] \in [0..(vals_count[at] - 1) -> Atoms \cup 0..n]
    BY <1>5 DEF TypeOK, StoreTypeOK, CallTypeOK
  <1>7. Slot(at, Part) \in Atoms \cup 0..n
    BY <1>1, <1>4, <1>6 DEF Slot
  <1>8. Slot(at, Part) \in Val
    BY <1>7, <1>1, LiveCtx DEF Val, Ctx, TypeOK, StoreTypeOK, CallTypeOK
  <1>9. QED
    BY <1>1, <1>2, <1>3, <1>4, <1>5, <1>7, <1>8

(* What is left of a qualified name.                                       *)
LEMMA TailNotEmpty ==
  ASSUME NEW T, NEW p \in Seq(T), Len(p) > 1
  PROVE  Tail(p) \in Seq(T) /\ Tail(p) # <<>>
<1>1. Len(p) \in Nat /\ Tail(p) \in Seq(T) /\ Len(Tail(p)) = Len(p) - 1
  OBVIOUS
<1>2. Len(Tail(p)) # 0
  BY <1>1
<1>3. Len(<<>>) = 0
  OBVIOUS
<1> QED BY <1>1, <1>2, <1>3, Zenon

(* One recursive call of bl_ctx_get.  Going to the parent passes exactly   *)
(* one context, and that one does not bind the name.                       *)
LEMMA GetInv ==
  ASSUME CtxInv, bl_ctx_get
  PROVE  CtxInv'
  <1> USE DEF CtxInv
  <1>1. pc = "get"
    BY DEF bl_ctx_get, GetQuoted, GetHit, GetModule, GetNoModule, GetParent, GetMiss
  <1>2. CASE GetQuoted
    <2>1. Unquoted[Part] \in Val
      BY <1>2, ContextsAssumption DEF GetQuoted, Val
    <2>2. QED
      BY <1>1, <1>2, <2>1, ReturnInv DEF GetQuoted
  <1>3. CASE GetHit
    BY <1>1, <1>3, WalkTyped, ReturnInv DEF GetHit
  <1>4. CASE GetModule
    <2> DEFINE m == Slot(at, Part)
    <2>1. /\ m \in Ctx /\ Len(path) > 1
          /\ from' = m /\ at' = m /\ path' = Tail(path)
          /\ UNCHANGED store /\ n' = n /\ chain' = chain
          /\ UNCHANGED <<pc, ret, into, src, idx>>
      BY <1>4 DEF GetModule, store, using
    <2>2. m \in 1..n /\ n \in Nat
      BY <2>1, <1>1, WalkTyped, LiveCtx, ContextsAssumption DEF Ctx
    <2>3. Tail(path) \in Seq(Syms) /\ Tail(path) # <<>>
      <3>1. path \in Seq(Syms) /\ path # <<>>
        BY <1>1, WalkTyped
      <3>2. QED
        BY <2>1, <3>1, TailNotEmpty
    <2> HIDE DEF m
    <2>4. TypeOK'
      BY <2>1, <2>2, <2>3, StoreUnchanged DEF TypeOK, CallTypeOK
    <2>5. chain[m] \subseteq 1..m /\ m \in chain[m]
      BY <2>2 DEF ChainOK
    <2>6. WalkOK'
      BY <2>1, <2>2, <2>3, <2>5 DEF WalkOK
    <2>7. UsingOK' /\ UsingCopies'
      BY <1>1, <2>1 DEF UsingOK, UsingCopies
    <2>8. QED
      BY <2>1, <2>4, <2>6, <2>7, StoreUnchanged
  <1>5. CASE GetNoModule
    <2>1. PICK v \in IF Slot(at, Part) \in Wild THEN Val ELSE {0} : Return(v)
      BY <1>5 DEF GetNoModule
    <2>2. v \in Val
      BY <2>1, LiveCtx DEF Val
    <2>3. QED
      BY <1>1, <2>1, <2>2, ReturnInv
  <1>6. CASE GetParent
    <2> DEFINE p == parent[at]
    <2>1. /\ Slot(at, Part) = 0 /\ p # 0
          /\ at' = p
          /\ UNCHANGED store /\ n' = n /\ chain' = chain
          /\ UNCHANGED <<pc, from, path, ret, into, src, idx>>
      BY <1>6 DEF GetParent, Outer, store, using
    <2>2. /\ at \in 1..n /\ at \in Nat /\ n \in Nat /\ p \in 1..(at - 1) /\ p \in 1..n
          /\ chain[at] = {at} \cup chain[p] /\ chain[p] \subseteq 1..p /\ p \in chain[p]
      <3>1. at \in 1..n /\ at \in Nat /\ n \in Nat
        BY <1>1, WalkTyped, LiveCtx
      <3>2. p \in 1..(at - 1) /\ chain[at] = {at} \cup chain[p]
        BY <2>1, <3>1 DEF ChainOK
      <3>3. p \in 1..n
        BY <3>1, <3>2
      <3>4. chain[p] \subseteq 1..p /\ p \in chain[p]
        BY <3>3 DEF ChainOK
      <3>5. QED
        BY <3>1, <3>2, <3>3, <3>4
    <2>3. /\ from \in 1..n /\ path # <<>> /\ at \in chain[from]
          /\ chain[at] = {x \in chain[from] : x <= at}
          /\ \A x \in chain[from] : x > at => Slot(x, Part) = 0
          /\ chain[from] \subseteq 1..n
      BY <1>1, WalkTyped DEF WalkOK
    <2> HIDE DEF p
    <2>4. TypeOK'
      BY <2>1, <2>2, StoreUnchanged DEF TypeOK, CallTypeOK
    <2>5. chain[p] = {x \in chain[from] : x <= p}
      <3>1. ASSUME NEW x \in chain[p] PROVE x \in chain[from] /\ x <= p
        BY <3>1, <2>2, <2>3
      <3>2. ASSUME NEW x \in chain[from], x <= p PROVE x \in chain[p]
        <4>1. x \in chain[at] /\ x # at
          BY <3>2, <2>2, <2>3
        <4>2. QED
          BY <4>1, <2>2
      <3>3. QED
        BY <3>1, <3>2
    <2>6. \A x \in chain[from] : x > p => Slot(x, Part) = 0
      <3> SUFFICES ASSUME NEW x \in chain[from], x > p PROVE Slot(x, Part) = 0
        OBVIOUS
      <3>1. x \in Nat
        BY <2>2, <2>3
      <3>2. CASE x > at
        BY <3>2, <2>3
      <3>3. CASE ~ (x > at)
        <4>1. x \in chain[at]
          BY <3>1, <3>3, <2>2, <2>3
        <4>2. x = at
          BY <4>1, <3>1, <2>2
        <4>3. QED
          BY <4>2, <2>1
      <3>4. QED
        BY <3>2, <3>3
    <2>7. p \in chain[from] /\ Part' = Part
      BY <2>1, <2>2, <2>5 DEF Part
    <2>8. WalkOK'
      <3>1. \A x : Slot(x, Part)' = Slot(x, Part)
        BY <2>1, StoreUnchanged, <2>7
      <3>2. QED
        BY <2>1, <2>3, <2>5, <2>6, <2>7, <3>1 DEF WalkOK
    <2>9. UsingOK' /\ UsingCopies'
      BY <1>1, <2>1 DEF UsingOK, UsingCopies
    <2>10. QED
      BY <2>1, <2>4, <2>8, <2>9, StoreUnchanged
  <1>7. CASE GetMiss
    <2>1. 0 \in Val
      BY LiveCtx DEF Val
    <2>2. QED
      BY <1>1, <1>7, <2>1, ReturnInv DEF GetMiss
  <1>8. QED
    BY <1>2, <1>3, <1>4, <1>5, <1>6, <1>7 DEF bl_ctx_get

LEMMA UsingBeginInv ==
  ASSUME CtxInv, NEW c \in 1..n, NEW m \in 1..n, UsingBegin(c, m)
  PROVE  CtxInv'
  <1> USE DEF CtxInv
  <1>1. /\ pc = "idle" /\ pc' = "using" /\ into' = c /\ src' = m /\ idx' = 0
        /\ UNCHANGED store /\ n' = n /\ UNCHANGED <<from, at, path, ret>>
    BY DEF UsingBegin, store, getting
  <1>2. TypeOK'
    BY <1>1, StoreUnchanged, LiveCtx DEF TypeOK, CallTypeOK
  <1>3. WalkOK' /\ UsingOK' /\ UsingCopies'
    BY <1>1 DEF WalkOK, UsingOK, UsingCopies
  <1>4. QED
    BY <1>1, <1>2, <1>3, StoreUnchanged

(* One iteration of the copy loop.  The entry it stores is in the importing*)
(* context afterwards, and the entries stored before it are still there.   *)
LEMMA UsingCopyInv ==
  ASSUME CtxInv, UsingCopy
  PROVE  CtxInv'
  <1> USE DEF CtxInv
  <1> DEFINE t == Target(into)
             v == vals[src][idx]
  <1>1. /\ pc = "using" /\ idx < vals_count[src] /\ idx' = idx + 1
        /\ UNCHANGED <<n, parent, write_to_parent, chain, pc>>
        /\ UNCHANGED <<from, at, path, ret, into, src>>
    BY DEF UsingCopy, getting
  <1>2. /\ into \in 1..n /\ src \in 1..n /\ src \in Ctx /\ idx \in Nat
        /\ t \in 1..n /\ t \in Ctx /\ n \in Nat /\ vals_count[src] \in Nat
        /\ idx \in 0..(vals_count[src] - 1)
    <2>1. into \in 1..n /\ src \in 1..n
      BY <1>1 DEF UsingOK
    <2>2. t \in 1..n /\ t \in Ctx /\ n \in Nat /\ src \in Ctx
      BY <2>1, LiveCtx
    <2>3. idx \in Nat /\ vals_count[src] \in Nat
      BY <2>2 DEF TypeOK, StoreTypeOK, CallTypeOK
    <2>4. QED
      BY <1>1, <2>1, <2>2, <2>3
  <1>3. CallTypeOK'
    BY <1>1, <1>2 DEF TypeOK, CallTypeOK
  <1>4. WalkOK' /\ UsingOK'
    BY <1>1 DEF WalkOK, UsingOK
  <1>5. Target(into)' = t /\ t' = t
    BY <1>1 DEF Target
  <1>6. \A i \in 0..(idx - 1) :
          i < vals_count[src] /\ vals[src][i] # 0 => Slot(t, i) = vals[src][i]
    BY <1>1 DEF UsingCopies
  <1>7. CASE v = 0
    <2>1. UNCHANGED <<vals_count, keys, vals>>
      BY <1>7 DEF UsingCopy
    <2>2. UNCHANGED store /\ n' = n
      BY <2>1, <1>1 DEF store
    <2>3. UsingCopies'
      <3>1. \A i : Slot(t, i)' = Slot(t, i)
        BY <2>1, <1>1 DEF Slot, Target
      <3> SUFFICES ASSUME NEW i \in 0..idx, i < vals_count[src], vals[src][i] # 0
                   PROVE  Slot(t, i) = vals[src][i]
        BY <1>1, <1>2, <1>5, <2>1, <3>1 DEF UsingCopies, Slot
      <3>2. i \in 0..(idx - 1)
        BY <1>2, <1>7
      <3>3. QED
        BY <3>2, <1>6
    <2>4. QED
      BY <2>2, <2>3, <1>3, <1>4, StoreUnchanged DEF TypeOK
  <1>8. CASE v # 0
    <2>1. keys[src][idx] = idx /\ idx \in Syms
      <3>1. keys[src][idx] = idx
        BY <1>2, <1>8 DEF KeysMatch
      <3>2. keys[src][idx] \in Syms \cup {NoKey}
        BY <1>2 DEF TypeOK, StoreTypeOK
      <3>3. QED
        BY <3>1, <3>2, <1>2 DEF NoKey
    <2>2. Store(t, idx, v)
      BY <1>8, <2>1 DEF UsingCopy
    <2>3. v \in Atoms \cup 0..n
      BY <1>2 DEF TypeOK, StoreTypeOK
    <2> HIDE DEF t, v
    <2>4. Stored(t, idx, v)
      BY <2>1, <2>2, <2>3, <1>2, StoreTyped
    <2>5. StoreTypeOK'
      BY <2>4, <1>1 DEF TypeOK, StoreTypeOK, Stored
    <2>6. KeysMatch' /\ ChainOK' /\ Fresh' /\ RedirectHasParent'
      BY <1>1, <1>2, <2>1, <2>2, <2>3, StoreInv
    <2>7. \A c \in Ctx, x \in Nat :
            Slot(c, x)' = IF c = t /\ x = idx THEN v ELSE Slot(c, x)
      BY <1>2, <2>1, <2>2, <2>3, StoreSlot
    <2>8. UsingCopies'
      <3> SUFFICES ASSUME NEW i \in 0..idx, i < vals_count'[src], vals'[src][i] # 0
                   PROVE  Slot(t, i)' = vals'[src][i]
        BY <1>1, <1>2, <1>5 DEF UsingCopies, Slot
      <3>1. Slot(src, i)' = vals'[src][i] /\ i \in Nat
        BY <1>1, <1>2 DEF Slot
      <3>2. Slot(src, i) = vals[src][i] /\ i < vals_count[src]
        BY <1>2 DEF Slot
      <3>6. /\ Slot(src, i)' = IF src = t /\ i = idx THEN v ELSE Slot(src, i)
            /\ Slot(t, i)' = IF i = idx THEN v ELSE Slot(t, i)
        <4> DEFINE sl(c) == IF i < vals_count'[c] THEN vals'[c][i] ELSE 0
        <4>1. \A c \in Ctx : sl(c) = IF c = t /\ i = idx THEN v ELSE Slot(c, i)
          BY <2>7, <3>1 DEF Slot
        <4>2. Slot(src, i)' = sl(src) /\ Slot(t, i)' = sl(t)
          BY <1>1, <1>5 DEF Slot
        <4> HIDE DEF sl
        <4>3. QED
          BY <4>1, <4>2, <1>2
      <3>3. CASE i = idx
        BY <3>1, <3>2, <3>3, <3>6 DEF v
      <3>4. CASE i # idx
        <4>1. Slot(src, i)' = Slot(src, i) /\ Slot(t, i)' = Slot(t, i)
          BY <3>4, <3>6
        <4>2. i \in 0..(idx - 1)
          BY <3>4, <1>2
        <4>3. QED
          BY <3>1, <3>2, <4>1, <4>2, <1>6
      <3>5. QED
        BY <3>3, <3>4
    <2>9. QED
      BY <2>5, <2>6, <2>8, <1>3, <1>4 DEF TypeOK
  <1>9. QED
    BY <1>7, <1>8

LEMMA UsingEndInv ==
  ASSUME CtxInv, UsingEnd
  PROVE  CtxInv'
  <1> USE DEF CtxInv
  <1>1. /\ pc = "using" /\ pc' = "idle" /\ into' = 0 /\ src' = 0 /\ idx' = 0
        /\ UNCHANGED store /\ n' = n /\ UNCHANGED <<from, at, path, ret>>
    BY DEF UsingEnd, store, getting
  <1>2. TypeOK'
    BY <1>1, StoreUnchanged, LiveCtx DEF TypeOK, CallTypeOK
  <1>3. WalkOK' /\ UsingOK' /\ UsingCopies'
    BY <1>1 DEF WalkOK, UsingOK, UsingCopies
  <1>4. QED
    BY <1>1, <1>2, <1>3, StoreUnchanged

(* Every step of the contexts keeps the invariant.                         *)
LEMMA CtxStep == CtxInv /\ [Next]_vars => CtxInv'
  <1> SUFFICES ASSUME CtxInv, [Next]_vars PROVE CtxInv'
    OBVIOUS
  <1>1. CASE \E p \in 0..n : bl_ctx_new(p)
    BY <1>1, NewInv
  <1>2. CASE \E c \in 1..n : WriteToParent(c)
    BY <1>2, WriteToParentInv
  <1>3. CASE \E c \in 1..n : \E a \in Assigns :
               (a[2] \in Nat => a[2] <= n) /\ bl_ctx_set(c, a[1], a[2])
    <2>1. PICK c \in 1..n, a \in Assigns :
                 (a[2] \in Nat => a[2] <= n) /\ bl_ctx_set(c, a[1], a[2])
      BY <1>3
    <2>2. a[1] \in Syms /\ a[2] \in Atoms \cup 0..n
      BY <2>1, ContextsAssumption, LiveCtx
    <2>3. QED
      BY <2>1, <2>2, SetInv
  <1>4. CASE \E c \in 1..n, s \in Syms : GetBegin(c, s)
    BY <1>4, GetBeginInv
  <1>5. CASE bl_ctx_get
    BY <1>5, GetInv
  <1>6. CASE \E c, m \in 1..n : UsingBegin(c, m)
    BY <1>6, UsingBeginInv
  <1>7. CASE UsingCopy
    BY <1>7, UsingCopyInv
  <1>8. CASE UsingEnd
    BY <1>8, UsingEndInv
  <1>9. CASE UNCHANGED vars
    <2>1. UNCHANGED <<n, parent, vals_count, keys, vals, write_to_parent, chain,
                      pc, from, at, path, ret, into, src, idx>>
      BY <1>9 DEF vars
    <2>2. UNCHANGED store
      BY <2>1 DEF store
    <2>3. TypeOK'
      BY <2>1, <2>2, StoreUnchanged DEF CtxInv, TypeOK, CallTypeOK
    <2>4. WalkOK' /\ UsingOK'
      BY <2>1 DEF CtxInv, WalkOK, UsingOK, Slot, Part
    <2>5. UsingCopies'
      BY <2>1 DEF CtxInv, UsingCopies, Slot, Target
    <2>6. QED
      BY <2>2, <2>3, <2>4, <2>5, StoreUnchanged DEF CtxInv
  <1>10. QED
    BY <1>1, <1>2, <1>3, <1>4, <1>5, <1>6, <1>7, <1>8, <1>9 DEF Next

(* Whatever a program does with its contexts, their arrays, the chain of   *)
(* parents and the calls in progress are as CtxInv says.                   *)
THEOREM CtxInvHolds == Spec => []CtxInv
  BY CtxInit, CtxStep, PTL DEF Spec

(* No access is out of bounds, whatever the array geometry: the domains of *)
(* keys and vals are exactly the vals_count entries that bl_ctx_new and    *)
(* bl_ctx_set allocated.                                                   *)
THEOREM TypeOKHolds == Spec => []TypeOK
  <1>1. CtxInv => TypeOK
    BY DEF CtxInv
  <1>2. QED
    BY <1>1, CtxInvHolds, PTL

(* Every value in a context is filed under its own symbol, so that the     *)
(* loops over a context never follow a NULL key (ctx.c:155-156).           *)
THEOREM KeysMatchHolds == Spec => []KeysMatch
  <1>1. CtxInv => KeysMatch
    BY DEF CtxInv
  <1>2. QED
    BY <1>1, CtxInvHolds, PTL

(* The copy loop of using loses nothing, even when a module is copied into *)
(* itself or the importing context grows on the way.                       *)
THEOREM UsingCopiesHolds == Spec => []UsingCopies
  <1>1. CtxInv => UsingCopies
    BY DEF CtxInv
  <1>2. QED
    BY <1>1, CtxInvHolds, PTL

-----------------------------------------------------------------------------
(* The refinement: arrays and recursive walk implement Scopes *)

LEMMA BindUnchanged ==
  ASSUME UNCHANGED <<vals_count, vals>>
  PROVE  Bind' = Bind
  BY DEF Bind, Slot

(* Storing, with or without growing, is the assignment of one variable.    *)
LEMMA BindStore ==
  ASSUME CtxInv, NEW t \in 1..n, NEW s \in Syms, NEW v \in Atoms \cup 0..n,
         Store(t, s, v)
  PROVE  Bind' = [Bind EXCEPT ![t][s] = v]
  <1>1. t \in Ctx /\ Syms \subseteq Nat /\ TypeOK
    BY LiveCtx, ContextsAssumption DEF CtxInv
  <1>2. \A c \in Ctx, x \in Nat :
          Slot(c, x)' = IF c = t /\ x = s THEN v ELSE Slot(c, x)
    BY <1>1, StoreSlot
  <1>3. Bind' = [c \in Ctx |-> [x \in Syms |-> IF c = t /\ x = s THEN v ELSE Slot(c, x)]]
    <2>1. Bind' = [c \in Ctx |-> [x \in Syms |-> Slot(c, x)']]
      BY DEF Bind
    <2>2. \A c \in Ctx : [x \in Syms |-> Slot(c, x)']
                           = [x \in Syms |-> IF c = t /\ x = s THEN v ELSE Slot(c, x)]
      BY <1>1, <1>2
    <2>3. QED
      BY <2>1, <2>2
  <1>4. Bind[t] = [x \in Syms |-> Slot(t, x)]
    BY <1>1 DEF Bind
  <1>5. [Bind EXCEPT ![t][s] = v]
          = [c \in Ctx |-> IF c = t THEN [x \in Syms |-> IF x = s THEN v ELSE Slot(t, x)]
                                    ELSE [x \in Syms |-> Slot(c, x)]]
    BY <1>1, <1>4 DEF Bind
  <1>6. \A c \in Ctx :
          [x \in Syms |-> IF c = t /\ x = s THEN v ELSE Slot(c, x)]
            = IF c = t THEN [x \in Syms |-> IF x = s THEN v ELSE Slot(t, x)]
                       ELSE [x \in Syms |-> Slot(c, x)]
    OBVIOUS
  <1>7. QED
    BY <1>3, <1>5, <1>6

LEMMA BindAt ==
  ASSUME CtxInv, NEW c \in Ctx, NEW s \in Syms
  PROVE  Bind[c][s] = Slot(c, s)
  BY DEF Bind

(* A binding where the walk stands is the one that is visible.             *)
LEMMA VisibleHit ==
  ASSUME CtxInv, pc = "get", Slot(at, Part) # 0
  PROVE  S!Visible(from, Part) = Slot(at, Part)
  <1> DEFINE H == S!Holders(from, Part)
  <1>1. /\ at \in chain[from] /\ chain[from] \subseteq 1..n /\ n \in Nat
        /\ 1..n \subseteq Ctx /\ Part \in Syms /\ at \in Ctx
    BY WalkTyped, LiveCtx DEF CtxInv, WalkOK
  <1>2. H = {a \in chain[from] : Bind[a][Part] # 0}
    BY DEF S!Holders
  <1>3. \A a \in chain[from] : Bind[a][Part] = Slot(a, Part)
    BY <1>1, BindAt
  <1>4. at \in H
    BY <1>1, <1>2, <1>3
  <1>5. \A b \in H : b \in Nat /\ b <= at
    <2>1. \A x \in chain[from] : x > at => Slot(x, Part) = 0
      BY DEF CtxInv, WalkOK
    <2>2. at \in Nat
      BY <1>1
    <2>3. QED
      BY <1>1, <1>2, <1>3, <2>1, <2>2
  <1> DEFINE P(a) == \A b \in H : b <= a
  <1>6. (CHOOSE a \in H : P(a)) = at
    <2>1. P(at) /\ at \in H
      BY <1>4, <1>5
    <2>2. \A a \in H : P(a) => a = at
      BY <1>4, <1>5
    <2> HIDE DEF P, H
    <2>3. QED
      BY <2>1, <2>2
  <1>7. QED
    <2>1. H # {}
      BY <1>4
    <2>2. S!Visible(from, Part) = Bind[CHOOSE a \in H : P(a)][Part]
      BY <2>1 DEF S!Visible
    <2>3. QED
      BY <2>2, <1>6, <1>1, <1>3

(* The walk ends empty-handed only when nothing in sight binds the name.   *)
LEMMA VisibleMiss ==
  ASSUME CtxInv, pc = "get", Slot(at, Part) = 0, parent[at] = 0
  PROVE  S!Visible(from, Part) = 0
  <1>1. /\ at \in 1..n /\ chain[from] \subseteq 1..n /\ n \in Nat
        /\ 1..n \subseteq Ctx /\ Part \in Syms /\ at \in Ctx /\ at \in Nat
    BY WalkTyped, LiveCtx
  <1>2. chain[at] = {at}
    BY <1>1 DEF CtxInv, ChainOK
  <1>3. \A x \in chain[from] : Slot(x, Part) = 0
    <2> SUFFICES ASSUME NEW x \in chain[from] PROVE Slot(x, Part) = 0
      OBVIOUS
    <2>1. CASE x > at
      BY <2>1 DEF CtxInv, WalkOK
    <2>2. CASE ~ (x > at)
      <3>1. x <= at
        BY <2>2, <1>1
      <3>2. x \in chain[at]
        BY <3>1 DEF CtxInv, WalkOK
      <3>3. QED
        BY <3>2, <1>2
    <2>3. QED
      BY <2>1, <2>2
  <1>4. S!Holders(from, Part) = {}
    BY <1>1, <1>3, BindAt DEF S!Holders
  <1>5. QED
    BY <1>4 DEF S!Visible

LEMMA ScopesInit == Init => S!Init
  <1> SUFFICES ASSUME Init PROVE S!Init
    OBVIOUS
  <1>1. Bind = [c \in Ctx |-> [s \in Syms |-> 0]]
    <2>1. \A c \in Ctx, s \in Syms : Slot(c, s) = 0
      BY ContextsAssumption DEF Init, Slot
    <2>2. \A c \in Ctx : [s \in Syms |-> Slot(c, s)] = [s \in Syms |-> 0]
      BY <2>1
    <2>3. QED
      BY <2>2 DEF Bind
  <1>2. QED
    BY <1>1 DEF Init, S!Init, S!Ctx, Ctx

(* A new context binds nothing, as before it was created.                  *)
LEMMA NewScope ==
  ASSUME CtxInv, CtxInv', NEW p \in 0..n, bl_ctx_new(p)
  PROVE  S!New(p)
  <1> DEFINE c == n + 1
             k == IF p = 0 THEN Initial ELSE vals_count[p]
  <1>1. /\ pc = "idle" /\ n < MaxCtx
        /\ vals_count' = [vals_count EXCEPT ![c] = k]
        /\ vals' = [vals EXCEPT ![c] = Empty(k, 0)]
        /\ UNCHANGED pc
    BY DEF bl_ctx_new
  <1>2. /\ c \in Ctx /\ c > n
        /\ vals_count \in [Ctx -> Nat] /\ DOMAIN vals = Ctx
        /\ vals_count' \in [Ctx -> Nat] /\ Syms \subseteq Nat
    <2>1. c \in Ctx /\ c > n
      BY <1>1, LiveCtx DEF Ctx
    <2>2. vals_count \in [Ctx -> Nat] /\ DOMAIN vals = Ctx /\ vals_count' \in [Ctx -> Nat]
      BY DEF CtxInv, TypeOK, StoreTypeOK, Ctx
    <2>3. QED
      BY <2>1, <2>2, ContextsAssumption
  <1>3. vals_count[c] = 0
    BY <1>2 DEF CtxInv, Fresh
  <1> HIDE DEF c
  <1>4. \A x \in Ctx, s \in Syms : Slot(x, s)' = Slot(x, s)
    <2> SUFFICES ASSUME NEW x \in Ctx, NEW s \in Syms PROVE Slot(x, s)' = Slot(x, s)
      OBVIOUS
    <2>1. CASE x = c
      <3>1. vals_count'[c] = k /\ vals'[c] = Empty(k, 0) /\ k \in Nat
        BY <1>1, <1>2
      <3> HIDE DEF k
      <3>2. Slot(c, s) = 0
        BY <1>2, <1>3 DEF Slot
      <3>3. s \in Nat /\ (s < k => Empty(k, 0)[s] = 0)
        BY <1>2, <3>1 DEF Empty
      <3>4. (IF s < vals_count'[c] THEN vals'[c][s] ELSE 0) = 0
        BY <3>1, <3>3
      <3>5. QED
        BY <2>1, <3>2, <3>4 DEF Slot
    <2>2. CASE x # c
      BY <2>2, <1>1, <1>2 DEF Slot
    <2>3. QED
      BY <2>1, <2>2
  <1>5. Bind' = Bind
    <2>1. \A x \in Ctx : [s \in Syms |-> Slot(x, s)'] = [s \in Syms |-> Slot(x, s)]
      BY <1>4
    <2>2. QED
      BY <2>1 DEF Bind
  <1>6. QED
    BY <1>5 DEF bl_ctx_new, getting, S!New, S!lookup

(* One recursive call is the abstract answer, or passes a context on the   *)
(* way to it.                                                              *)
LEMMA GetScope ==
  ASSUME CtxInv, bl_ctx_get
  PROVE  S!Answer \/ UNCHANGED S!vars
  <1>1. pc = "get"
    BY DEF bl_ctx_get, GetQuoted, GetHit, GetModule, GetNoModule, GetParent, GetMiss
  <1>2. UNCHANGED <<n, parent, vals_count, keys, vals, write_to_parent, chain>>
    BY DEF bl_ctx_get, GetQuoted, GetHit, GetModule, GetNoModule, GetParent, GetMiss,
           Return, store
  <1>3. Bind' = Bind
    BY <1>2, BindUnchanged
  <1>4. ASSUME NEW v, Return(v) PROVE S!Done(v)
    BY <1>4 DEF Return, S!Done
  <1> DEFINE w == S!Visible(from, Head(path))
  <1>5. Slot(at, Part) # 0 => w = Slot(at, Part)
    BY <1>1, VisibleHit DEF Part
  <1>6. Slot(at, Part) = 0 /\ parent[at] = 0 => w = 0
    BY <1>1, VisibleMiss DEF Part
  <1> HIDE DEF w
  <1>7. ASSUME \/ Head(path) \in Quoted /\ S!Done(Unquoted[Head(path)])
               \/ Head(path) \notin Quoted /\ (Len(path) = 1 \/ w = 0) /\ S!Done(w)
               \/ /\ Head(path) \notin Quoted /\ Len(path) > 1 /\ w \in Ctx
                  /\ from' = w /\ path' = Tail(path) /\ UNCHANGED <<pc, ret>>
               \/ /\ Head(path) \notin Quoted /\ Len(path) > 1 /\ w \in Atoms
                  /\ \E u \in IF w \in Wild THEN Val ELSE {0} : S!Done(u)
        PROVE  S!Answer
    BY <1>1, <1>2, <1>3, <1>7 DEF S!Answer, w, S!Ctx, Ctx, S!Val, Val
  <1>8. CASE GetQuoted
    BY <1>8, <1>4, <1>7 DEF GetQuoted, Part
  <1>9. CASE GetHit
    BY <1>9, <1>4, <1>5, <1>7 DEF GetHit, Part
  <1>10. CASE GetModule
    <2>1. Slot(at, Part) # 0
      BY <1>10, ContextsAssumption DEF GetModule, Ctx
    <2>2. QED
      BY <2>1, <1>10, <1>5, <1>7 DEF GetModule, Part
  <1>11. CASE GetNoModule
    <2>1. Slot(at, Part) # 0
      BY <1>11, ContextsAssumption DEF GetNoModule
    <2>2. PICK v \in IF Slot(at, Part) \in Wild THEN Val ELSE {0} : Return(v)
      BY <1>11 DEF GetNoModule
    <2>3. S!Done(v)
      BY <2>2, <1>4
    <2>4. QED
      BY <2>1, <2>2, <2>3, <1>11, <1>5, <1>7 DEF GetNoModule, Part
  <1>12. CASE GetParent
    <2>1. UNCHANGED <<pc, from, path, ret>>
      BY <1>12 DEF GetParent
    <2>2. QED
      BY <2>1, <1>2, <1>3 DEF S!vars
  <1>13. CASE GetMiss
    BY <1>13, <1>4, <1>6, <1>7 DEF GetMiss, Outer, Part
  <1>14. QED
    BY <1>8, <1>9, <1>10, <1>11, <1>12, <1>13 DEF bl_ctx_get

(* Every step of the contexts is a step of the scopes, or is invisible.    *)
LEMMA ScopesStep == CtxInv /\ CtxInv' /\ [Next]_vars => [S!Next]_S!vars
  <1> SUFFICES ASSUME CtxInv, CtxInv', [Next]_vars PROVE S!Next \/ UNCHANGED S!vars
    OBVIOUS
  <1>1. CASE \E p \in 0..n : bl_ctx_new(p)
    BY <1>1, NewScope DEF S!Next
  <1>2. ASSUME NEW c \in 1..n, WriteToParent(c) PROVE S!Redirect(c)
    BY <1>2, BindUnchanged DEF WriteToParent, getting, S!Redirect, S!lookup
  <1>3. ASSUME NEW c \in 1..n, NEW a \in Assigns,
               (a[2] \in Nat => a[2] <= n) /\ bl_ctx_set(c, a[1], a[2])
        PROVE  a[1] \in Syms /\ a[2] \in Val /\ S!Assign(c, a[1], a[2])
    <2>1. a[1] \in Syms /\ a[2] \in Atoms \cup 0..n /\ a[2] \in Val
      BY <1>3, ContextsAssumption, LiveCtx DEF Val
    <2>2. Target(c) \in 1..n
      BY LiveCtx
    <2>3. Bind' = [Bind EXCEPT ![Target(c)][a[1]] = a[2]]
      <3>1. Store(Target(c), a[1], a[2])
        BY <1>3 DEF bl_ctx_set
      <3>2. QED
        BY <2>1, <2>2, <3>1, BindStore
    <2>4. QED
      BY <2>1, <2>3, <1>3 DEF bl_ctx_set, getting, S!Assign, S!lookup, S!Target, Target
  <1>4. ASSUME NEW c \in 1..n, NEW s \in Syms, GetBegin(c, s) PROVE S!Ask(c, s)
    BY <1>4, BindUnchanged DEF GetBegin, store, S!Ask
  <1>5. CASE bl_ctx_get
    BY <1>5, GetScope DEF S!Next
  <1>6. ASSUME NEW c \in 1..n, NEW m \in 1..n, UsingBegin(c, m) PROVE UNCHANGED S!vars
    BY <1>6, BindUnchanged DEF UsingBegin, store, getting, S!vars
  <1>7. CASE UsingCopy
    <2> DEFINE v == vals[src][idx]
    <2>1. /\ pc = "using" /\ idx < vals_count[src] /\ idx' = idx + 1
          /\ UNCHANGED <<n, parent, write_to_parent, chain, pc, from, path, ret>>
      BY <1>7 DEF UsingCopy, getting
    <2>2. /\ into \in 1..n /\ src \in Ctx /\ Target(into) \in 1..n
          /\ idx \in 0..(vals_count[src] - 1)
      <3>1. into \in 1..n /\ src \in 1..n
        BY <2>1 DEF CtxInv, UsingOK
      <3>2. src \in Ctx /\ Target(into) \in 1..n
        BY <3>1, LiveCtx
      <3>3. idx \in Nat /\ vals_count[src] \in Nat
        BY <3>2 DEF CtxInv, TypeOK, StoreTypeOK, CallTypeOK
      <3>4. QED
        BY <2>1, <3>1, <3>2, <3>3
    <2>3. CASE v = 0
      BY <1>7, <2>3, <2>1, BindUnchanged DEF UsingCopy, S!vars
    <2>4. CASE v # 0
      <3>1. v \in Atoms \cup 0..n
        BY <2>2 DEF CtxInv, TypeOK, StoreTypeOK
      <3>2. v \in Val
        <4>1. n \in 0..MaxCtx /\ n \in Nat /\ MaxCtx \in Nat
          BY LiveCtx DEF CtxInv, TypeOK, StoreTypeOK
        <4> HIDE DEF v
        <4>2. QED
          BY <3>1, <4>1 DEF Val
      <3>3. keys[src][idx] = idx
        <4>1. src \in 1..n
          BY <2>1 DEF CtxInv, UsingOK
        <4>2. QED
          BY <4>1, <2>2, <2>4 DEF CtxInv, KeysMatch
      <3>4. idx \in Syms
        <4>1. keys[src][idx] \in Syms \cup {NoKey}
          BY <2>2 DEF CtxInv, TypeOK, StoreTypeOK
        <4>2. idx # NoKey
          BY <2>2 DEF NoKey
        <4>3. QED
          BY <4>1, <4>2, <3>3
      <3>5. Store(Target(into), idx, v)
        BY <1>7, <2>4, <3>3 DEF UsingCopy
      <3> HIDE DEF v
      <3>6. Bind' = [Bind EXCEPT ![Target(into)][idx] = v]
        BY <2>2, <3>1, <3>4, <3>5, BindStore
      <3>7. S!Assign(into, idx, v)
        BY <2>1, <3>6 DEF S!Assign, S!lookup, S!Target, Target
      <3>8. QED
        BY <2>2, <3>2, <3>4, <3>7 DEF S!Next, S!Val, Val
    <2>5. QED
      BY <2>3, <2>4
  <1>8. CASE UsingEnd
    BY <1>8, BindUnchanged DEF UsingEnd, store, getting, S!vars
  <1>9. CASE UNCHANGED vars
    BY <1>9, BindUnchanged DEF vars, S!vars
  <1>10. CASE \E c \in 1..n : WriteToParent(c)
    BY <1>10, <1>2 DEF S!Next
  <1>11. CASE \E c \in 1..n : \E a \in Assigns :
               (a[2] \in Nat => a[2] <= n) /\ bl_ctx_set(c, a[1], a[2])
    <2>1. PICK c \in 1..n, a \in Assigns :
                 (a[2] \in Nat => a[2] <= n) /\ bl_ctx_set(c, a[1], a[2])
      BY <1>11
    <2>2. a[1] \in Syms /\ a[2] \in Val /\ S!Assign(c, a[1], a[2])
      BY <2>1, <1>3
    <2>3. QED
      BY <2>2 DEF S!Next, S!Val, Val
  <1>12. CASE \E c \in 1..n, s \in Syms : GetBegin(c, s)
    BY <1>12, <1>4 DEF S!Next
  <1>13. CASE \E c, m \in 1..n : UsingBegin(c, m)
    BY <1>13, <1>6
  <1>14. QED
    BY <1>1, <1>5, <1>7, <1>8, <1>9, <1>10, <1>11, <1>12, <1>13 DEF Next

(* The contexts of ctx.c are scopes: for every number of contexts, every   *)
(* set of symbols and every array geometry, each lookup answers with the   *)
(* innermost binding in sight, and growing the arrays, walking the parents *)
(* and copying a module show nowhere.                                      *)
THEOREM ContextsImplementScopes == Spec => ImplementsScopes
  <1>1. Init => S!Init
    BY ScopesInit
  <1>2. CtxInv /\ CtxInv' /\ [Next]_vars => [S!Next]_S!vars
    BY ScopesStep
  <1>3. QED
    BY <1>1, <1>2, CtxInvHolds, PTL DEF Spec, ImplementsScopes

-----------------------------------------------------------------------------
(* The value is stored in the context itself, the youngest in its chain,   *)
(* or in its parent, the next one, when the context does not bind the name.*)
LEMMA SetSeen ==
  ASSUME CtxInv, CtxInv', NEW c \in 1..n, NEW a \in Assigns, bl_ctx_set(c, a[1], a[2]),
         a[2] # 0, ~ (write_to_parent[c] /\ Slot(c, a[1]) # 0)
  PROVE  S!Visible(c, a[1])' = a[2]
  <1>a. PICK s \in Syms : s = a[1]
    BY ContextsAssumption
  <1>b. PICK v : v = a[2]
    OBVIOUS
  <1>c. PICK t \in 1..n : t = Target(c)
    BY LiveCtx
  <1>1. s = a[1] /\ v = a[2] /\ t = Target(c)
    BY <1>a, <1>b, <1>c
  <1>2. /\ Store(t, s, v) /\ chain' = chain /\ n' = n
        /\ TypeOK /\ t \in Ctx /\ c \in Ctx /\ n \in Nat /\ s \in Nat /\ 1..n \subseteq Ctx
    BY <1>1, ContextsAssumption, LiveCtx DEF bl_ctx_set, CtxInv
  <1>3. v \in Atoms \cup 0..n
    <2> DEFINE k == IF NeedsRoom(t, s) THEN s + Slack ELSE vals_count[t]
    <2>1. vals_count[t] \in Nat /\ Slack \in Nat \ {0} /\ DOMAIN vals = Ctx
      BY <1>2, ContextsAssumption DEF TypeOK, StoreTypeOK
    <2>2. s \in 0..(k - 1)
      BY <1>2, <2>1 DEF NeedsRoom
    <2>3. vals'[t] = [Grown(vals[t], k, 0) EXCEPT ![s] = v] /\ vals_count'[t] = k
      BY <1>2, <2>1 DEF Store, TypeOK, StoreTypeOK
    <2>4. DOMAIN Grown(vals[t], k, 0) = 0..(k - 1)
      BY DEF Grown
    <2> HIDE DEF k
    <2>5. vals'[t][s] = v
      BY <2>2, <2>3, <2>4
    <2>6. vals'[t] \in [0..(vals_count'[t] - 1) -> Atoms \cup 0..n']
      BY <1>2 DEF CtxInv, TypeOK, StoreTypeOK
    <2> QED BY <1>2, <2>2, <2>3, <2>5, <2>6
  <1>4. \A x \in Ctx : Bind'[x][s] = IF x = t THEN v ELSE Slot(x, s)
    <2>1. \A x \in Ctx : Slot(x, s)' = IF x = t THEN v ELSE Slot(x, s)
      BY <1>2, <1>3, StoreSlot
    <2> QED BY <2>1 DEF Bind
  <1>5. /\ chain[c] \subseteq 1..c /\ t \in chain[c] /\ t \in Nat /\ c \in Nat
        /\ \A x \in chain[c] : x > t => x = c
    <2>1. /\ chain[c] \subseteq 1..c /\ parent[c] \in 0..(c - 1)
          /\ chain[c] = {c} \cup (IF parent[c] = 0 THEN {} ELSE chain[parent[c]])
      BY DEF CtxInv, ChainOK
    <2>2. CASE ~ write_to_parent[c]
      BY <1>1, <2>1, <2>2 DEF Target
    <2>3. CASE write_to_parent[c]
      <3>1. t = parent[c] /\ t # 0
        BY <1>1, <2>3 DEF Target
      <3>2. chain[t] \subseteq 1..t /\ t \in chain[t]
        BY DEF CtxInv, ChainOK
      <3> QED BY <2>1, <3>1, <3>2
    <2> QED BY <2>2, <2>3
  <1>6. c # t => Slot(c, s) = 0
    BY <1>1 DEF Target
  <1> DEFINE H == {x \in chain[c] : Bind'[x][s] # 0}
             P(x) == \A b \in H : b <= x
  <1>7. S!Visible(c, s)' = IF H = {} THEN 0 ELSE Bind'[CHOOSE x \in H : P(x)][s]
    BY <1>2 DEF S!Visible, S!Holders
  <1>8. t \in H /\ P(t)
    <2>1. t \in H
      BY <1>1, <1>2, <1>4, <1>5
    <2>2. ASSUME NEW b \in H PROVE b <= t
      <3>1. b \in chain[c] /\ b \in Nat /\ b \in Ctx /\ Bind'[b][s] # 0
        BY <1>2, <1>5
      <3>2. CASE b > t
        BY <1>2, <1>4, <1>5, <1>6, <3>1, <3>2
      <3> QED BY <1>5, <3>1, <3>2
    <2> QED BY <2>1, <2>2
  <1>9. \A x \in H : P(x) => x = t
    <2>1. \A x \in H : x \in Nat
      BY <1>5
    <2> QED BY <1>5, <1>8, <2>1
  <1> HIDE DEF H, P
  <1>10. (CHOOSE x \in H : P(x)) = t /\ H # {}
    BY <1>8, <1>9
  <1> QED BY <1>1, <1>2, <1>4, <1>7, <1>10

(* What a program assigns, a lookup in the same place finds, unless it is  *)
(* an operator's frame whose parameter hides it (ctx.c:137-156).           *)
THEOREM AssignmentSeenHolds == Spec => AssignmentSeen
  <1>1. CtxInv /\ CtxInv' /\ [Next]_vars =>
          [\A c \in 1..n : \A a \in Assigns :
             /\ bl_ctx_set(c, a[1], a[2]) /\ a[2] # 0
             /\ ~ (write_to_parent[c] /\ Slot(c, a[1]) # 0)
             => S!Visible(c, a[1])' = a[2]]_vars
    BY SetSeen
  <1> QED BY <1>1, CtxInvHolds, PTL DEF Spec, AssignmentSeen
=============================================================================
