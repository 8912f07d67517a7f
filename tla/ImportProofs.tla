---------------------------- MODULE ImportProofs -----------------------------
(***************************************************************************)
(* For all directories, files and sources, cyclic ones included: a name    *)
(* stands for a module only when that module is complete, and the contexts *)
(* that wait for one are left alone meanwhile.                             *)
(*                                                                         *)
(* Why StackOK is needed: a step of the innermost file writes to its own   *)
(* context, or (import a::b::c) to the context that a name stands for.     *)
(* The former is younger than all that wait; the latter is complete, and   *)
(* what waits is not.                                                      *)
(***************************************************************************)
EXTENDS Import, TLAPS, WellFoundedInduction, SequenceTheorems

Values == 0..n \cup {Err, Data}

(* A set of indices has a least one, so the CHOOSE in Visible finds it.    *)
Less == {ss \in Nat \X Nat : ss[1] < ss[2]}

LEMMA LessWellFounded == IsWellFoundedOn(Less, Nat)
  BY NatLessThanWellFounded, Zenon DEF OpToRel, Less

LEMMA LessPair ==
  ASSUME NEW j \in Nat, NEW i \in Nat, j < i
  PROVE  <<j, i>> \in Less
  BY DEF Less

LEMMA LeastIndex ==
  ASSUME NEW S \in SUBSET Nat, S # {}
  PROVE  \E i \in S : \A j \in S : i <= j
<1>1. PICK i \in S : \A j \in S : ~ (<<j, i>> \in Less)
  BY LessWellFounded, WFMin
<1>2. ASSUME NEW j \in S PROVE i <= j
  <2>1. ~ (j < i)
    BY <1>1, LessPair
  <2> QED BY <2>1
<1> QED BY <1>2

(* Statements have names where they should (Statements is a union).        *)
LEMMA PathNames ==
  ASSUME NEW p \in Paths
  PROVE  Len(p) \in 1..3 /\ \A i \in 1..Len(p) : p[i] \in Names
  BY DEF Paths

LEMMA StatementShape ==
  ASSUME NEW s \in Statements
  PROVE  /\ s.op \in {"import", "using"} => s.path \in Paths
         /\ s.op = "include" => s.file \in Sources \cup {NoFile}
         /\ s.op = "set" => s.name \in Names
  BY DEF Statements, ImportOf, Using, Include, SetTo, Fail

(* TypeOK, element by element.                                             *)
LEMMA Elements ==
  ASSUME TypeOK
  PROVE  /\ n \in Nat \ {0} /\ n \in Ctx
         /\ \A c \in 1..n : chain[c] \in Seq(1..n)
         /\ \A c \in 1..n : bind[c] \in [Names -> Values]
         /\ \A i \in 1..Len(stack) : stack[i] \in Frame
         /\ Len(stack) \in Nat
<1>1. n \in Nat \ {0} /\ n \in Ctx
  BY ImportAssumption DEF TypeOK, Ctx
<1>2. \A c \in 1..n : chain[c] \in Seq(1..n)
  <2> SUFFICES ASSUME NEW c \in 1..n PROVE chain[c] \in Seq(1..n)
    OBVIOUS
  <2>1. chain \in Seq(Seq(1..n) \ {<<>>}) /\ c \in 1..Len(chain)
    BY DEF TypeOK
  <2> QED BY <2>1
<1>3. \A c \in 1..n : bind[c] \in [Names -> Values]
  <2> SUFFICES ASSUME NEW c \in 1..n PROVE bind[c] \in [Names -> Values]
    OBVIOUS
  <2>1. bind \in Seq([Names -> Values]) /\ c \in 1..Len(bind)
    BY DEF TypeOK, Values
  <2> QED BY <2>1
<1>4. stack \in Seq(Frame)
  BY DEF TypeOK
<1> QED BY <1>1, <1>2, <1>3, <1>4

(* bl_ctx_get returns NULL or something that is bound somewhere.           *)
LEMMA VisibleBound ==
  ASSUME TypeOK, NEW c \in 1..n, NEW x \in Names
  PROVE  Visible(c, x) = 0 \/ \E d \in 1..n : Visible(c, x) = bind[d][x]
<1>1. CASE Holders(c, x) = {}
  BY <1>1 DEF Visible
<1>2. CASE Holders(c, x) # {}
  <2>1. chain[c] \in Seq(1..n)
    BY Elements
  <2>2. Holders(c, x) \in SUBSET (1..Len(chain[c]))
    BY DEF Holders
  <2>3. Holders(c, x) \in SUBSET Nat
    BY <2>1, <2>2
  <2>4. \E k \in Holders(c, x) : \A j \in Holders(c, x) : k <= j
    BY <1>2, <2>3, LeastIndex
  <2>5. PICK i \in Holders(c, x) :
          i = CHOOSE k \in Holders(c, x) : \A j \in Holders(c, x) : k <= j
    BY <2>4, Zenon
  <2>6. i \in 1..Len(chain[c])
    BY <2>2
  <2>7. chain[c][i] \in 1..n
    BY <2>1, <2>6, ElementOfSeq
  <2> QED BY <1>2, <2>5, <2>7 DEF Visible
<1> QED BY <1>1, <1>2

LEMMA VisibleType ==
  ASSUME ImpInv, NEW c \in 1..n, NEW x \in Names
  PROVE  Visible(c, x) \in Values /\ (Visible(c, x) \in Ctx => Visible(c, x) \in ready)
<1>1. TypeOK /\ OnlyFinishedModules
  BY DEF ImpInv
<1>2. \A d \in 1..n : bind[d][x] \in Values /\ (bind[d][x] \in Ctx => bind[d][x] \in ready)
  BY <1>1, Elements DEF OnlyFinishedModules
<1>3. 0 \in Values /\ 0 \notin Ctx
  BY <1>1, Elements DEF Values, Ctx
<1> QED BY <1>1, <1>2, <1>3, VisibleBound

LEMMA InType ==
  ASSUME ImpInv, NEW m \in Values, NEW x \in Names
  PROVE  In(m, x) \in Values /\ (In(m, x) \in Ctx => In(m, x) \in ready)
<1>1. CASE m \in Ctx
  <2>1. m \in 1..n
    BY <1>1, ImportAssumption DEF Values, Ctx, ImpInv, TypeOK
  <2> QED BY <1>1, <2>1, VisibleType DEF In
<1>2. CASE m \notin Ctx
  BY <1>2 DEF In, Values, Ctx, ImpInv, TypeOK
<1> QED BY <1>1, <1>2

(* The context that runs is no module's yet, and younger than all those    *)
(* that wait.                                                              *)
LEMMA HereOK ==
  ASSUME ImpInv
  PROVE  /\ Here \in 1..n /\ Here \notin ready
         /\ \A i \in 1..Len(stack) : stack[i].ctx <= Here /\ stack[i].into <= Here
         /\ \A i \in 1..Len(stack) : stack[i].kind = "import" => stack[i].into < Here
<1>1. CASE stack = <<>>
  BY <1>1, Elements DEF Here, ImpInv, StackOK
<1>2. CASE stack # <<>>
  <2>1. 1 \in 1..Len(stack) /\ Here = stack[1].ctx
    BY <1>2 DEF ImpInv, TypeOK, Here, Top
  <2>2. \A i \in 1..Len(stack) : stack[i].ctx \in 1..n /\ stack[i].into \in 1..n
    BY Elements DEF ImpInv, Frame
  <2>3. Here \in 1..n /\ Here \notin ready
    BY <2>1, <2>2 DEF ImpInv, StackOK
  <2>4. ASSUME NEW i \in 1..Len(stack)
        PROVE  /\ stack[i].into <= stack[i].ctx
               /\ stack[i].kind = "import" => stack[i].into < stack[i].ctx
    BY DEF ImpInv, StackOK
  <2>5. ASSUME NEW i \in 1..Len(stack) PROVE stack[i].ctx <= Here
    <3>1. CASE i = 1
      BY <2>1, <2>2, <3>1
    <3>2. CASE i # 1
      <4>1. stack[i].ctx <= stack[1].into
        BY <2>1, <3>2 DEF ImpInv, StackOK
      <4> QED BY <2>1, <2>2, <2>4, <4>1
    <3> QED BY <3>1, <3>2
  <2> QED BY <2>2, <2>3, <2>4, <2>5
<1> QED BY <1>1, <1>2

LEMMA NameOK ==
  ASSUME ImpInv, Executing("import") \/ Executing("using")
  PROVE  stmt.path \in Paths /\ \A i \in 1..Len(stmt.path) : stmt.path[i] \in Names
  BY StatementShape, PathNames DEF ImpInv, TypeOK, Executing

-----------------------------------------------------------------------------
(* builtins.c:613-616: nothing is imported at first.                       *)
LEMMA InitInv == Init => ImpInv
<1> SUFFICES ASSUME Init PROVE ImpInv
  OBVIOUS
<1>1. TypeOK
  BY ImportAssumption DEF Init, TypeOK, Statements, Fail
<1>2. OnlyFinishedModules
  BY DEF Init, OnlyFinishedModules, Ctx
<1>3. StackOK
  BY DEF Init, StackOK
<1> QED BY <1>1, <1>2, <1>3 DEF ImpInv

-----------------------------------------------------------------------------
(* The invariant taken apart: what there is, what runs, the variables b of *)
(* k contexts and the frames s, with r the complete modules.               *)
World ==
  /\ n \in 1..MaxCtx
  /\ Len(chain) = n /\ chain \in Seq(Seq(1..n) \ {<<>>})
  /\ Len(home) = n /\ home \in Seq({NoDir} \cup {Home[f] : f \in Files})
  /\ ready \subseteq 1..n /\ 1 \notin ready

Control ==
  /\ phase \in {"idle", "exec", "ret", "next", "crash"}
  /\ stmt \in Statements /\ ret \in 0..n \cup {Err, Data}
  /\ todo \subseteq Forms
  /\ phase = "next" => stack # <<>>

GoodBind(b, k, r) ==
  /\ Len(b) = k /\ b \in Seq([Names -> 0..k \cup {Err, Data}])
  /\ \A c \in 1..k : \A x \in Names : b[c][x] \in Ctx => b[c][x] \in r

FrameOf(k) == [kind : {"import", "include"}, ctx : 1..k, file : Sources, pc : Nat \ {0},
               into : 1..k, name : Names \cup {""}]

GoodFrame(fr, r) ==
  /\ fr.ctx \notin r /\ fr.into \notin r
  /\ fr.into <= fr.ctx
  /\ fr.kind = "import" => fr.into < fr.ctx /\ fr.name \in Names

GoodStack(s, k, r) ==
  /\ s \in Seq(FrameOf(k))
  /\ \A i \in 1..Len(s) : GoodFrame(s[i], r)
  /\ \A i, j \in 1..Len(s) : i < j => s[j].ctx <= s[i].into

LEMMA Parts ==
  ImpInv <=> World /\ Control /\ GoodBind(bind, n, ready) /\ GoodStack(stack, n, ready)
<1>1. OnlyFinishedModules <=> \A c \in 1..n : \A x \in Names : bind[c][x] \in Ctx => bind[c][x] \in ready
  BY DEF OnlyFinishedModules
<1>2. TypeOK /\ 1 \notin ready <=>
        /\ World /\ Control /\ stack \in Seq(FrameOf(n))
        /\ Len(bind) = n /\ bind \in Seq([Names -> 0..n \cup {Err, Data}])
  BY DEF TypeOK, World, Control, FrameOf, Frame
<1>3. StackOK <=>
        /\ 1 \notin ready
        /\ \A i \in 1..Len(stack) : GoodFrame(stack[i], ready)
        /\ \A i, j \in 1..Len(stack) : i < j => stack[j].ctx <= stack[i].into
  BY DEF StackOK, GoodFrame
<1> QED BY <1>1, <1>2, <1>3 DEF ImpInv, GoodBind, GoodStack

LEMMA FunctionIsSeq ==
  ASSUME NEW S, NEW k \in Nat, NEW w \in [1..k -> S]
  PROVE  w \in Seq(S) /\ Len(w) = k
  OBVIOUS

(* A variable may be set to what is complete, or to no module at all.      *)
LEMMA WriteGood ==
  ASSUME NEW k \in Nat, NEW r, NEW b, GoodBind(b, k, r),
         NEW c \in 1..k, NEW x \in Names,
         NEW v \in 0..k \cup {Err, Data}, v \in Ctx => v \in r
  PROVE  GoodBind([b EXCEPT ![c][x] = v], k, r)
<1> DEFINE V == 0..k \cup {Err, Data}
           w == [b EXCEPT ![c][x] = v]
<1>1. b \in [1..k -> [Names -> V]]
  BY DEF GoodBind
<1>2. w \in [1..k -> [Names -> V]]
  BY <1>1
<1>3. \A d \in 1..k : \A y \in Names : w[d][y] = b[d][y] \/ w[d][y] = v
  BY <1>1
<1> HIDE DEF w, V
<1>4. w \in Seq([Names -> V]) /\ Len(w) = k
  BY <1>2, FunctionIsSeq
<1>5. \A d \in 1..k : \A y \in Names : w[d][y] \in Ctx => w[d][y] \in r
  BY <1>3 DEF GoodBind
<1>6. GoodBind(w, k, r)
  BY <1>4, <1>5 DEF GoodBind, V
<1> QED BY <1>6 DEF w

(* A new context has nothing bound.                                        *)
LEMMA AppendGood ==
  ASSUME NEW k \in Nat, NEW r, NEW b, GoodBind(b, k, r)
  PROVE  GoodBind(Append(b, [x \in Names |-> 0]), k + 1, r)
<1> DEFINE V == 0..(k + 1) \cup {Err, Data}
           e == [x \in Names |-> 0]
           w == Append(b, e)
<1>1. b \in Seq([Names -> V]) /\ Len(b) = k
  <2>1. [Names -> 0..k \cup {Err, Data}] \subseteq [Names -> V]
    OBVIOUS
  <2> QED BY <2>1 DEF GoodBind
<1>2. e \in [Names -> V]
  OBVIOUS
<1> HIDE DEF e, V
<1>3. w \in Seq([Names -> V]) /\ Len(w) = k + 1
  BY <1>1, <1>2
<1>4. w[k + 1] = e /\ \A d \in 1..k : w[d] = b[d]
  BY <1>1
<1>5. \A y \in Names : e[y] \notin Ctx
  BY DEF e, Ctx
<1> HIDE DEF w
<1>6. ASSUME NEW d \in 1..(k + 1), NEW y \in Names PROVE w[d][y] \in Ctx => w[d][y] \in r
  <2>1. CASE d = k + 1
    BY <1>4, <1>5, <2>1
  <2>2. CASE d \in 1..k
    BY <1>4, <2>2 DEF GoodBind
  <2> QED BY <2>1, <2>2
<1>7. GoodBind(w, k + 1, r)
  BY <1>3, <1>6 DEF GoodBind, V
<1> QED BY <1>7 DEF w, e

LEMMA ReadyGood ==
  ASSUME NEW k, NEW r, NEW s, r \subseteq s, NEW b, GoodBind(b, k, r)
  PROVE  GoodBind(b, k, s)
  BY DEF GoodBind

(* Stacks: a file is begun, ends, or another module is complete.           *)
LEMMA PushSeq ==
  ASSUME NEW S, NEW e \in S, NEW s \in Seq(S)
  PROVE  /\ <<e>> \o s \in Seq(S) /\ Len(<<e>> \o s) = Len(s) + 1
         /\ (<<e>> \o s)[1] = e /\ \A i \in 2..(Len(s) + 1) : (<<e>> \o s)[i] = s[i - 1]
<1>1. <<e>> \in Seq(S) /\ Len(<<e>>) = 1 /\ <<e>>[1] = e
  OBVIOUS
<1> QED BY <1>1, ConcatProperties

LEMMA PushGood ==
  ASSUME NEW k \in Nat, NEW r, NEW s, GoodStack(s, k, r),
         NEW fr \in FrameOf(k), GoodFrame(fr, r),
         \A i \in 1..Len(s) : s[i].ctx <= fr.into
  PROVE  GoodStack(<<fr>> \o s, k, r)
<1> DEFINE t == <<fr>> \o s
<1>1. s \in Seq(FrameOf(k))
  BY DEF GoodStack
<1>2. /\ t \in Seq(FrameOf(k)) /\ Len(t) = Len(s) + 1
      /\ t[1] = fr /\ \A i \in 2..(Len(s) + 1) : t[i] = s[i - 1]
  BY <1>1, PushSeq
<1> HIDE DEF t
<1>3. ASSUME NEW i \in 1..Len(t)
      PROVE  i = 1 \/ (i - 1 \in 1..Len(s) /\ t[i] = s[i - 1])
  BY <1>1, <1>2
<1>4. ASSUME NEW i \in 1..Len(t) PROVE GoodFrame(t[i], r)
  BY <1>2, <1>3 DEF GoodStack
<1>5. ASSUME NEW i \in 1..Len(t), NEW j \in 1..Len(t), i < j PROVE t[j].ctx <= t[i].into
  <2>1. j - 1 \in 1..Len(s) /\ t[j] = s[j - 1]
    BY <1>3, <1>5
  <2>2. CASE i = 1
    BY <1>2, <2>1, <2>2
  <2>3. CASE i # 1
    <3>1. i - 1 \in 1..Len(s) /\ t[i] = s[i - 1] /\ i - 1 < j - 1
      BY <1>3, <1>5, <2>3
    <3> QED BY <2>1, <3>1 DEF GoodStack
  <2> QED BY <2>2, <2>3
<1>6. GoodStack(t, k, r)
  BY <1>2, <1>4, <1>5 DEF GoodStack
<1> QED BY <1>6 DEF t

(* What lies below the frame on top is older than what it waits for.       *)
LEMMA PopGood ==
  ASSUME NEW k \in Nat, NEW r, NEW s, GoodStack(s, k, r), s # <<>>
  PROVE  /\ GoodStack(Tail(s), k, r)
         /\ s[1] \in FrameOf(k) /\ GoodFrame(s[1], r)
         /\ \A i \in 1..Len(Tail(s)) : Tail(s)[i].ctx <= s[1].into
<1> DEFINE t == Tail(s)
<1>1. s \in Seq(FrameOf(k)) /\ Len(s) \in Nat /\ 1 \in 1..Len(s)
  BY DEF GoodStack
<1>2. /\ t \in Seq(FrameOf(k)) /\ Len(t) = Len(s) - 1
      /\ \A i \in 1..Len(t) : t[i] = s[i + 1] /\ i + 1 \in 1..Len(s) /\ 1 < i + 1
  BY <1>1, HeadTailProperties
<1> HIDE DEF t
<1>3. GoodStack(t, k, r)
  <2>1. \A i \in 1..Len(t) : GoodFrame(t[i], r)
    BY <1>2 DEF GoodStack
  <2>2. ASSUME NEW i \in 1..Len(t), NEW j \in 1..Len(t), i < j PROVE t[j].ctx <= t[i].into
    <3>1. i + 1 < j + 1
      BY <2>2
    <3> QED BY <1>2, <3>1 DEF GoodStack
  <2> QED BY <1>2, <2>1, <2>2 DEF GoodStack
<1>4. s[1] \in FrameOf(k) /\ GoodFrame(s[1], r)
  BY <1>1, ElementOfSeq DEF GoodStack
<1>5. \A i \in 1..Len(t) : t[i].ctx <= s[1].into
  BY <1>1, <1>2 DEF GoodStack
<1> QED BY <1>3, <1>4, <1>5 DEF t

LEMMA GrowGood ==
  ASSUME NEW k \in Nat, NEW r, NEW s, GoodStack(s, k, r)
  PROVE  GoodStack(s, k + 1, r)
<1>1. FrameOf(k) \subseteq FrameOf(k + 1)
  <2>1. ASSUME NEW fr \in FrameOf(k) PROVE fr \in FrameOf(k + 1)
    <3>1. fr.ctx \in 1..k /\ fr.into \in 1..k
      BY DEF FrameOf
    <3>2. fr.ctx \in 1..(k + 1) /\ fr.into \in 1..(k + 1)
      BY <3>1
    <3> QED BY <3>2 DEF FrameOf
  <2> QED BY <2>1
<1>2. s \in Seq(FrameOf(k + 1))
  BY <1>1, SeqMonotonic DEF GoodStack
<1> QED BY <1>2 DEF GoodStack

LEMMA CompleteGood ==
  ASSUME NEW k \in Nat, NEW r, NEW s, GoodStack(s, k, r),
         NEW v, \A i \in 1..Len(s) : s[i].ctx # v /\ s[i].into # v
  PROVE  GoodStack(s, k, r \cup {v})
  BY DEF GoodStack, GoodFrame

-----------------------------------------------------------------------------
(* The invariant after a step, put together from its parts.                *)
LEMMA Whole ==
  ASSUME World', Control', GoodBind(bind, n, ready)', GoodStack(stack, n, ready)'
  PROVE  ImpInv'
<1>1. \A c \in 1..n' : \A x \in Names : bind'[c][x] \in Ctx => bind'[c][x] \in ready'
  BY DEF GoodBind
<1>2. TypeOK'
  BY DEF TypeOK, World, Control, GoodBind, GoodStack, FrameOf, Frame
<1>3. OnlyFinishedModules'
  BY <1>1 DEF OnlyFinishedModules
<1>4. StackOK'
  BY DEF StackOK, GoodStack, GoodFrame, World
<1> QED BY <1>2, <1>3, <1>4 DEF ImpInv

(* Steps that return, or stop, and nothing else.                           *)
LEMMA CalmInv ==
  ASSUME ImpInv, UNCHANGED <<created, bind, stack, ready>>, Control'
  PROVE  ImpInv'
<1>1. World' /\ GoodBind(bind, n, ready)' /\ GoodStack(stack, n, ready)'
  BY Parts DEF World, created, GoodBind, GoodStack
<1> QED BY <1>1, Whole

(* Steps that set variables.                                               *)
LEMMA WriteInv ==
  ASSUME ImpInv, UNCHANGED <<created, stack, ready>>, Control',
         GoodBind(bind', n, ready)
  PROVE  ImpInv'
<1>1. World' /\ GoodBind(bind, n, ready)' /\ GoodStack(stack, n, ready)'
  BY Parts DEF World, created, GoodBind, GoodStack
<1> QED BY <1>1, Whole

(* Steps that enter or leave a file.                                       *)
LEMMA StackInv ==
  ASSUME ImpInv, UNCHANGED <<created, bind, ready>>, Control',
         GoodStack(stack', n, ready)
  PROVE  ImpInv'
<1>1. World' /\ GoodBind(bind, n, ready)' /\ GoodStack(stack, n, ready)'
  BY Parts DEF World, created, GoodBind, GoodStack
<1> QED BY <1>1, Whole

(* What a name stands for here, and parts of qualified names.              *)
LEMMA BoundType ==
  ASSUME ImpInv, Executing("import") \/ Executing("using")
  PROVE  /\ First \in Values /\ (First \in Ctx => First \in ready)
         /\ Len(stmt.path) > 1 => Second \in Values /\ (Second \in Ctx => Second \in ready)
         /\ Len(stmt.path) = 3 => Third \in Values /\ (Third \in Ctx => Third \in ready)
<1>1. stmt.path \in Paths /\ Len(stmt.path) \in 1..3
  BY NameOK, PathNames
<1>2. \A i \in 1..Len(stmt.path) : stmt.path[i] \in Names
  BY NameOK
<1>3. First \in Values /\ (First \in Ctx => First \in ready)
  BY <1>1, <1>2, HereOK, VisibleType DEF First
<1>4. Len(stmt.path) > 1 => Second \in Values /\ (Second \in Ctx => Second \in ready)
  BY <1>1, <1>2, <1>3, InType DEF Second
<1>5. Len(stmt.path) = 3 => Third \in Values /\ (Third \in Ctx => Third \in ready)
  BY <1>1, <1>2, <1>4, InType DEF Third
<1> QED BY <1>3, <1>4, <1>5

LEMMA OrErrType ==
  ASSUME ImpInv, NEW v \in Values, v \in Ctx => v \in ready
  PROVE  OrErr(v) \in Values /\ (OrErr(v) \in Ctx => OrErr(v) \in ready)
<1>1. Err \in Values /\ Err \notin Ctx
  BY ImportAssumption, Elements DEF Values, Ctx, ImpInv
<1> QED BY <1>1 DEF OrErr

LEMMA BindLastInv ==
  ASSUME ImpInv, NEW x \in Names, NEW v \in Values, v \in Ctx => v \in ready, BindLast(x, v)
  PROVE  ImpInv'
<1>1. GoodBind(bind', n, ready)
  <2>1. CASE v = 0
    BY <2>1, Parts DEF BindLast
  <2>2. CASE v # 0
    <3>1. bind' = [bind EXCEPT ![Here][x] = v]
      BY <2>2 DEF BindLast
    <3>2. n \in Nat /\ v \in 0..n \cup {Err, Data}
      BY Elements DEF ImpInv, Values
    <3> QED BY <3>1, <3>2, Parts, HereOK, WriteGood
  <2> QED BY <2>1, <2>2
<1>2. Control'
  BY OrErrType, Parts DEF BindLast, Return, Control, Values, created
<1> QED BY <1>1, <1>2, WriteInv DEF BindLast

-----------------------------------------------------------------------------
(* The steps of import, by what they do                                    *)

LEMMA CrashInv ==
  ASSUME ImpInv, Crash
  PROVE  ImpInv'
<1>1. Control'
  BY Parts DEF Crash, Control, created
<1> QED BY <1>1, CalmInv DEF Crash

LEMMA Import3Inv ==
  ASSUME ImpInv, Import3
  PROVE  ImpInv'
<1> DEFINE x == stmt.path[3]
           v == OrErr(Third)
<1>1. Executing("import") /\ Len(stmt.path) = 3
  BY DEF Import3, Qualified
<1>2. x \in Names
  BY <1>1, NameOK
<1>3. First \in Values /\ Third \in Values /\ (Third \in Ctx => Third \in ready)
  BY <1>1, BoundType
<1>4. v \in Values /\ (v \in Ctx => v \in ready)
  BY <1>3, OrErrType
<1>5. GoodBind(Inward(bind, First, x, Third), n, ready)
  <2>1. CASE Third = 0
    BY <2>1, Parts DEF Inward
  <2>2. CASE Third # 0
    <3>1. First \in 1..n
      <4>1. First \notin {0, Err}
        BY DEF Import3
      <4>2. First # Data
        <5>1. ASSUME First = Data PROVE FALSE
          <6>1. Second = 0
            BY <5>1, ImportAssumption DEF Second, In, Ctx
          <6>2. Third = 0
            BY <6>1 DEF Third, In, Ctx
          <6> QED BY <2>2, <6>2
        <5> QED BY <5>1
      <4> QED BY <1>3, <4>1, <4>2, Elements DEF Values, ImpInv
    <3>2. n \in Nat /\ Third \in 0..n \cup {Err, Data}
      BY <1>3, Elements DEF ImpInv, Values
    <3> QED BY <1>2, <1>3, <2>2, <3>1, <3>2, Parts, WriteGood DEF Inward
  <2> QED BY <2>1, <2>2
<1>6. GoodBind(bind', n, ready)
  <2>1. n \in Nat /\ v \in 0..n \cup {Err, Data}
    BY <1>4, Elements DEF ImpInv, Values
  <2>2. bind' = [Inward(bind, First, x, Third) EXCEPT ![Here][x] = v]
    BY DEF Import3
  <2> QED BY <1>2, <1>4, <1>5, <2>1, <2>2, HereOK, WriteGood
<1>7. Control'
  BY <1>4, Parts DEF Import3, Return, Control, Values, created
<1> QED BY <1>6, <1>7, WriteInv DEF Import3

(* A new context: the contexts that were there keep what they have.        *)
LEMMA NewWorld ==
  ASSUME ImpInv, NEW f \in Files, NewCtx(f),
         NEW r, r \subseteq 1..(n + 1), 1 \notin r, ready' = r
  PROVE  World' /\ n' = n + 1 /\ n + 1 \in Ctx /\ n + 1 \notin ready
<1>1. n \in Nat \ {0} /\ n' = n + 1 /\ n' \in 1..MaxCtx
  BY Elements, ImportAssumption DEF NewCtx, ImpInv
<1>2. chain[Here] \in Seq(1..n)
  BY HereOK, Elements DEF ImpInv
<1>3. chain[Here] \in Seq(1..(n + 1))
  <2>1. 1..n \subseteq 1..(n + 1)
    BY <1>1
  <2> QED BY <1>2, <2>1, SeqMonotonic
<1>4. <<n + 1>> \o chain[Here] \in Seq(1..(n + 1)) \ {<<>>}
  <2>1. n + 1 \in 1..(n + 1)
    BY <1>1
  <2>2. /\ <<n + 1>> \o chain[Here] \in Seq(1..(n + 1))
        /\ Len(<<n + 1>> \o chain[Here]) = Len(chain[Here]) + 1
    BY <1>3, <2>1, PushSeq
  <2>3. Len(chain[Here]) \in Nat
    BY <1>2
  <2> QED BY <2>2, <2>3
<1>5. chain \in Seq(Seq(1..(n + 1)) \ {<<>>}) /\ Len(chain) = n
  <2>1. Seq(1..n) \ {<<>>} \subseteq Seq(1..(n + 1)) \ {<<>>}
    <3>1. 1..n \subseteq 1..(n + 1)
      BY <1>1
    <3> QED BY <3>1, SeqMonotonic
  <2> QED BY <2>1, SeqMonotonic DEF ImpInv, TypeOK
<1>6. chain' \in Seq(Seq(1..(n + 1)) \ {<<>>}) /\ Len(chain') = n + 1
  <2>1. chain' = Append(chain, <<n + 1>> \o chain[Here])
    BY DEF NewCtx
  <2> QED BY <1>4, <1>5, <2>1, AppendProperties
<1>7. home' \in Seq({NoDir} \cup {Home[g] : g \in Files}) /\ Len(home') = n + 1
  <2>1. Home[f] \in {NoDir} \cup {Home[g] : g \in Files}
    OBVIOUS
  <2>2. home \in Seq({NoDir} \cup {Home[g] : g \in Files}) /\ Len(home) = n
    BY DEF ImpInv, TypeOK
  <2>3. home' = Append(home, Home[f])
    BY DEF NewCtx
  <2> QED BY <2>1, <2>2, <2>3, AppendProperties
<1>8. World'
  BY <1>1, <1>6, <1>7 DEF World
<1> QED BY <1>1, <1>8 DEF Ctx, ImpInv, TypeOK

LEMMA LibraryInv ==
  ASSUME ImpInv, NEW f \in Libraries, ImportLibrary(f)
  PROVE  ImpInv'
<1> DEFINE r == ready \cup {n + 1}
           e == [x \in Names |-> 0]
<1>1. Executing("import") /\ Len(stmt.path) = 1
  BY DEF ImportLibrary, Loading, Importing
<1>2. Name \in Names
  BY <1>1, NameOK DEF Name
<1>3. n \in Nat \ {0} /\ ready \subseteq 1..n /\ 1 \notin ready
  BY Elements, Parts DEF World, ImpInv
<1>4. f \in Files
  BY ImportAssumption
<1>5. NewCtx(f) /\ ready' = r /\ stack' = stack
  BY DEF ImportLibrary
<1>6. World' /\ n' = n + 1 /\ n + 1 \in Ctx
  <2>1. r \subseteq 1..(n + 1) /\ 1 \notin r
    BY <1>3
  <2> QED BY <1>4, <1>5, <2>1, NewWorld
<1>7. GoodStack(stack, n, ready)'
  <2>1. GoodStack(stack, n + 1, ready)
    BY <1>3, Parts, GrowGood
  <2>2. \A i \in 1..Len(stack) : stack[i].ctx # n + 1 /\ stack[i].into # n + 1
    <3>1. \A i \in 1..Len(stack) : stack[i].ctx \in 1..n /\ stack[i].into \in 1..n
      BY Elements DEF ImpInv, Frame
    <3> QED BY <1>3, <3>1
  <2>3. GoodStack(stack, n + 1, r)
    <3>1. n + 1 \in Nat
      BY <1>3
    <3> QED BY <2>1, <2>2, <3>1, CompleteGood
  <2> QED BY <1>5, <1>6, <2>3
<1>8. GoodBind(bind, n, ready)'
  <2> DEFINE w == Append(bind, e)
  <2>1. GoodBind(w, n + 1, r)
    <3>1. GoodBind(w, n + 1, ready)
      BY <1>3, Parts, AppendGood
    <3> QED BY <3>1, ReadyGood
  <2> DEFINE u == [w EXCEPT ![Here][Name] = n + 1]
  <2>2. GoodBind(u, n + 1, r)
    <3>1. n + 1 \in Nat /\ n + 1 \in 0..(n + 1) \cup {Err, Data} /\ n + 1 \in r
      BY <1>3
    <3>2. Here \in 1..(n + 1)
      BY <1>3, HereOK
    <3> HIDE DEF w, r
    <3> QED BY <1>2, <2>1, <3>1, <3>2, WriteGood
  <2>3. bind' = u
    BY DEF ImportLibrary, Begin
  <2> QED BY <1>5, <1>6, <2>2, <2>3
<1>9. Control'
  BY <1>3, <1>6, Parts DEF ImportLibrary, Return, Control
<1> QED BY <1>6, <1>7, <1>8, <1>9, Whole

(* The module's frame goes on top, and is the only one that has it.        *)
LEMMA SourceInv ==
  ASSUME ImpInv, NEW f \in Sources, ImportSource(f)
  PROVE  ImpInv'
<1> DEFINE fr == [kind |-> "import", ctx |-> n + 1, file |-> f, pc |-> 1,
                  into |-> Here, name |-> Name]
<1>1. Executing("import") /\ Len(stmt.path) = 1
  BY DEF ImportSource, Loading, Importing
<1>2. Name \in Names
  BY <1>1, NameOK DEF Name
<1>3. n \in Nat \ {0} /\ ready \subseteq 1..n /\ 1 \notin ready
  BY Elements, Parts DEF World, ImpInv
<1>4. f \in Files
  BY ImportAssumption
<1>5. NewCtx(f) /\ ready' = ready /\ stack' = <<fr>> \o stack
  BY DEF ImportSource
<1>6. World' /\ n' = n + 1 /\ n + 1 \notin ready
  <2>1. ready \subseteq 1..(n + 1)
    BY <1>3
  <2> QED BY <1>3, <1>4, <1>5, <2>1, NewWorld
<1>7. GoodBind(bind, n, ready)'
  <2>1. bind' = Append(bind, [x \in Names |-> 0])
    BY DEF ImportSource, Begin
  <2> QED BY <1>3, <1>5, <1>6, <2>1, Parts, AppendGood
<1>8. GoodStack(stack, n, ready)'
  <2>1. GoodStack(stack, n + 1, ready)
    BY <1>3, Parts, GrowGood
  <2>2. fr \in FrameOf(n + 1)
    <3>1. n + 1 \in 1..(n + 1) /\ Here \in 1..(n + 1)
      BY <1>3, HereOK
    <3>2. 1 \in Nat \ {0}
      OBVIOUS
    <3> QED BY <1>2, <3>1, <3>2 DEF FrameOf
  <2>3. GoodFrame(fr, ready)
    BY <1>2, <1>3, <1>6, HereOK DEF GoodFrame
  <2>4. \A i \in 1..Len(stack) : stack[i].ctx <= fr.into
    BY HereOK
  <2> HIDE DEF fr
  <2>5. GoodStack(<<fr>> \o stack, n + 1, ready)
    BY <1>3, <2>1, <2>2, <2>3, <2>4, PushGood
  <2> QED BY <1>5, <1>6, <2>5
<1>9. Control'
  <2>1. stack' # <<>>
    <3>1. stack \in Seq(Frame)
      BY DEF ImpInv, TypeOK
    <3> QED BY <1>5, <1>8, <3>1 DEF GoodStack
  <2> QED BY <1>3, <1>6, <2>1, Parts DEF ImportSource, Control
<1> QED BY <1>6, <1>7, <1>8, <1>9, Whole

-----------------------------------------------------------------------------
(* The other statements, and files that go on or end                       *)

LEMMA SetStmtInv ==
  ASSUME ImpInv, bl_oper_set
  PROVE  ImpInv'
<1>1. stmt.name \in Names
  BY StatementShape DEF bl_oper_set, Executing, ImpInv, TypeOK
<1>2. n \in Nat /\ Data \in 0..n \cup {Err, Data} /\ Data \notin Ctx
  BY Elements, ImportAssumption DEF ImpInv, Ctx
<1>3. GoodBind(bind', n, ready)
  BY <1>1, <1>2, Parts, HereOK, WriteGood DEF bl_oper_set
<1>4. Control'
  BY Parts DEF bl_oper_set, Return, Control, created
<1> QED BY <1>3, <1>4, WriteInv DEF bl_oper_set

LEMMA IncludeInv ==
  ASSUME ImpInv, bl_oper_include
  PROVE  ImpInv'
<1> DEFINE fr == [kind |-> "include", ctx |-> Here, file |-> stmt.file, pc |-> 1,
                  into |-> Here, name |-> ""]
<1>1. stmt.file \in Sources
  BY StatementShape DEF bl_oper_include, Executing, ImpInv, TypeOK
<1>2. n \in Nat \ {0}
  BY Elements DEF ImpInv
<1>3. fr \in FrameOf(n) /\ GoodFrame(fr, ready)
  BY <1>1, <1>2, HereOK DEF FrameOf, GoodFrame
<1>4. \A i \in 1..Len(stack) : stack[i].ctx <= fr.into
  BY HereOK
<1>5. stack' = <<fr>> \o stack
  BY DEF bl_oper_include
<1> HIDE DEF fr
<1>6. GoodStack(stack', n, ready)
  BY <1>2, <1>3, <1>4, <1>5, Parts, PushGood
<1>7. Control'
  <2>1. stack' # <<>>
    <3>1. stack \in Seq(Frame)
      BY DEF ImpInv, TypeOK
    <3> QED BY <1>5, <1>6, <3>1 DEF GoodStack
  <2> QED BY <2>1, Parts DEF bl_oper_include, Control, created
<1> QED BY <1>6, <1>7, StackInv DEF bl_oper_include

(* The frame on top, while a file goes on or has returned.                 *)
LEMMA TopOK ==
  ASSUME ImpInv, stack # <<>>
  PROVE  /\ n \in Nat /\ Top \in FrameOf(n) /\ GoodFrame(Top, ready)
         /\ GoodStack(Tail(stack), n, ready)
         /\ \A i \in 1..Len(Tail(stack)) : Tail(stack)[i].ctx <= Top.into
<1>1. n \in Nat
  BY Elements DEF ImpInv
<1> QED BY <1>1, Parts, PopGood DEF Top

LEMMA MoreInv ==
  ASSUME ImpInv, More
  PROVE  ImpInv'
<1> DEFINE fr == Advance(Top)
<1>1. stack # <<>>
  BY Parts DEF More, Control
<1>2. Top \in FrameOf(n) /\ GoodFrame(Top, ready) /\ n \in Nat
  BY <1>1, TopOK
<1>3. Top.file \in Sources /\ Top.pc \in Nat \ {0}
  BY <1>2 DEF FrameOf
<1>4. fr \in FrameOf(n) /\ GoodFrame(fr, ready) /\ fr.into = Top.into
  <2>1. Top.pc + 1 \in Nat \ {0}
    BY <1>3
  <2>2. fr = [Top EXCEPT !.pc = Top.pc + 1]
    BY DEF Advance
  <2>3. fr \in FrameOf(n)
    BY <1>2, <2>1, <2>2 DEF FrameOf
  <2>4. fr.ctx = Top.ctx /\ fr.into = Top.into /\ fr.kind = Top.kind /\ fr.name = Top.name
    BY <1>2, <2>2 DEF FrameOf
  <2> HIDE DEF fr
  <2> QED BY <1>2, <2>3, <2>4 DEF GoodFrame
<1>5. stack' = <<fr>> \o Tail(stack)
  BY DEF More
<1> HIDE DEF fr
<1>6. GoodStack(stack', n, ready)
  BY <1>1, <1>2, <1>4, <1>5, TopOK, PushGood
<1>7. stmt' \in Statements
  <2>1. Source[Top.file] \in Seq(Statements)
    BY <1>3, ImportAssumption
  <2>2. Top.pc \in 1..Len(Source[Top.file])
    BY <1>3, <2>1 DEF More
  <2> QED BY <2>1, <2>2, ElementOfSeq DEF More
<1>8. Control'
  BY <1>7, Parts DEF More, Control, created
<1> QED BY <1>6, <1>8, StackInv DEF More

(* The module becomes complete: what is left on the stack is older.        *)
LEMMA EndImportInv ==
  ASSUME ImpInv, EndImport
  PROVE  ImpInv'
<1> DEFINE t == Tail(stack)
           r == ready \cup {Top.ctx}
<1>1. stack # <<>>
  BY Parts DEF EndImport, Control
<1>2. Top.ctx \in 1..n /\ Top.into \in 1..n /\ Top.into < Top.ctx /\ Top.name \in Names
  BY <1>1, TopOK DEF FrameOf, GoodFrame, EndImport
<1>3. n \in Nat /\ GoodStack(t, n, ready) /\ \A i \in 1..Len(t) : t[i].ctx <= Top.into
  BY <1>1, TopOK
<1>4. GoodStack(t, n, r)
  <2>1. ASSUME NEW i \in 1..Len(t) PROVE t[i].ctx # Top.ctx /\ t[i].into # Top.ctx
    <3>1. t[i] \in FrameOf(n) /\ t[i].into <= t[i].ctx
      BY <1>3, ElementOfSeq DEF GoodStack, GoodFrame
    <3>2. t[i].ctx \in 1..n /\ t[i].into \in 1..n
      BY <3>1 DEF FrameOf
    <3> QED BY <1>2, <1>3, <3>1, <3>2
  <2> HIDE DEF t
  <2> QED BY <1>3, <2>1, CompleteGood
<1>5. ready' = r /\ stack' = t /\ UNCHANGED created
  BY DEF EndImport
<1>6. World'
  <2>1. ready \subseteq 1..n /\ 1 \notin ready
    BY Parts DEF World
  <2>2. ready' \subseteq 1..n /\ 1 \notin ready'
    <3>1. Top.ctx \in 1..n /\ Top.ctx # 1
      BY <1>2
    <3>2. ready' = ready \cup {Top.ctx}
      BY <1>5
    <3> QED BY <2>1, <3>1, <3>2
  <2>3. World /\ n' = n /\ chain' = chain /\ home' = home
    BY <1>5, Parts DEF created
  <2> QED BY <2>2, <2>3 DEF World
<1>7. GoodBind(bind', n, r)
  <2>1. GoodBind(bind, n, r)
    BY Parts, ReadyGood
  <2>2. Top.ctx \in 0..n \cup {Err, Data} /\ Top.ctx \in r
    BY <1>2, <1>3
  <2> HIDE DEF r
  <2> QED BY <1>2, <1>3, <2>1, <2>2, WriteGood DEF EndImport
<1>8. Control'
  BY <1>2, <1>3, Parts DEF EndImport, Return, Control, created
<1> QED BY <1>4, <1>5, <1>6, <1>7, <1>8, Whole DEF created

LEMMA EndIncludeInv ==
  ASSUME ImpInv, EndInclude
  PROVE  ImpInv'
<1>1. stack # <<>>
  BY Parts DEF EndInclude, Control
<1>2. GoodStack(stack', n, ready)
  BY <1>1, TopOK DEF EndInclude
<1>3. Control'
  BY Parts DEF EndInclude, Return, Control, created
<1> QED BY <1>2, <1>3, StackInv DEF EndInclude

LEMMA GiveUpInv ==
  ASSUME ImpInv, GiveUp
  PROVE  ImpInv'
<1>1. GoodStack(stack', n, ready)
  BY TopOK DEF GiveUp
<1>2. Control'
  BY Parts DEF GiveUp, Control, created
<1> QED BY <1>1, <1>2, StackInv DEF GiveUp, Abandoned

-----------------------------------------------------------------------------
LEMMA StepInv == ImpInv /\ [Next]_vars => ImpInv'
<1> SUFFICES ASSUME ImpInv, [Next]_vars PROVE ImpInv'
  OBVIOUS
<1>0. Control
  BY Parts
<1>1. CASE ImportBound
  <2>1. Executing("import") /\ Len(stmt.path) = 1
    BY <1>1 DEF ImportBound, Importing
  <2>2. Bound \in Values
    BY <2>1, BoundType DEF Bound, First, Name
  <2>3. Control'
    BY <1>0, <1>1, <2>2 DEF ImportBound, Return, Control, Values, created
  <2> QED BY <1>1, <2>3, CalmInv DEF ImportBound
<1>2. CASE ImportOther \/ NoContext \/ IncludeNothing
  BY <1>2, CrashInv DEF ImportOther, NoContext, IncludeNothing
<1>3. CASE ImportMissing \/ Import3Missing \/ Failing
  <2>1. Control'
    BY <1>0, <1>3 DEF ImportMissing, Import3Missing, Failing, Return, Control, created
  <2> QED BY <1>3, <2>1, CalmInv DEF ImportMissing, Import3Missing, Failing
<1>4. CASE \E f \in Libraries : ImportLibrary(f)
  BY <1>4, LibraryInv
<1>5. CASE \E f \in Sources : ImportSource(f)
  BY <1>5, SourceInv
<1>6. CASE Import2 \/ Using2
  <2>1. Executing("import") \/ Executing("using")
    BY <1>6 DEF Import2, Using2, Qualified
  <2>2. Len(stmt.path) = 2 /\ BindLast(stmt.path[2], Second)
    BY <1>6 DEF Import2, Using2, Qualified
  <2>3. stmt.path[2] \in Names
    BY <2>1, <2>2, NameOK
  <2> QED BY <2>1, <2>2, <2>3, BoundType, BindLastInv
<1>7. CASE Using3
  <2>1. Executing("using") /\ Len(stmt.path) = 3 /\ BindLast(stmt.path[3], Third)
    BY <1>7 DEF Using3, Qualified
  <2>2. stmt.path[3] \in Names
    BY <2>1, NameOK
  <2> QED BY <2>1, <2>2, BoundType, BindLastInv
<1>8. CASE Import3
  BY <1>8, Import3Inv
<1>9. CASE bl_oper_set \/ bl_oper_include
  BY <1>9, SetStmtInv, IncludeInv
<1>10. CASE More \/ EndImport \/ EndInclude \/ GiveUp
  BY <1>10, MoreInv, EndImportInv, EndIncludeInv, GiveUpInv
<1>11. CASE GoOn \/ Answer
  <2>1. Control'
    BY <1>0, <1>11 DEF GoOn, Answer, Control, created
  <2> QED BY <1>11, <2>1, CalmInv DEF GoOn, Answer
<1>12. CASE \E s \in todo : Submit(s)
  <2> PICK s \in todo : Submit(s)
    BY <1>12
  <2>1. s \in Statements
    BY <1>0, ImportAssumption DEF Control
  <2>2. Control'
    BY <1>0, <2>1 DEF Submit, Control, created
  <2> QED BY <2>2, CalmInv DEF Submit
<1>13. CASE UNCHANGED vars
  <2>1. Control'
    BY <1>0, <1>13 DEF vars, Control
  <2> QED BY <1>13, <2>1, CalmInv DEF vars, created
<1> QED
  BY <1>1, <1>2, <1>3, <1>4, <1>5, <1>6, <1>7, <1>8, <1>9, <1>10, <1>11, <1>12, <1>13
  DEF Next, Step

(* Import keeps names, contexts and the files being read consistent        *)
(* (builtins.c:613-782), whatever the sources are.                         *)
THEOREM ImpInvHolds == Spec => []ImpInv
  BY InitInv, StepInv, PTL DEF Spec

(* A name never stands for a module that is incomplete or has failed       *)
(* (builtins.c:766-777).                                                   *)
THEOREM OnlyFinishedModulesHolds == Spec => []OnlyFinishedModules
<1>1. ImpInv => OnlyFinishedModules
  BY DEF ImpInv
<1> QED BY <1>1, ImpInvHolds, PTL

(* Whatever a module's source does, imports of all kinds included, the     *)
(* contexts that wait for it keep their variables, until the module itself *)
(* is bound (builtins.c:769-776).                                          *)
THEOREM WaitingUntouchedHolds == Spec => WaitingUntouched
<1>1. ASSUME ImpInv, [Next]_vars, NEW c \in Waiting,
             ~ (phase = "next" /\ c = Top.into)
      PROVE  bind'[c] = bind[c]
  <2>1. c \in 1..n /\ c < Here /\ c \notin ready
    <3>1. PICK i \in 1..Len(stack) : c = stack[i].into /\ stack[i].kind = "import"
      BY <1>1 DEF Waiting
    <3>2. stack[i] \in Frame
      BY <1>1, Elements DEF ImpInv
    <3>3. c \in 1..n
      BY <3>1, <3>2 DEF Frame
    <3>4. c < Here
      BY <1>1, <3>1, HereOK
    <3>5. c \notin ready
      BY <1>1, <3>1 DEF ImpInv, StackOK
    <3> QED BY <3>3, <3>4, <3>5
  <2>2. n \in Nat /\ Here \in 1..n /\ c # Here
    BY <1>1, <2>1, HereOK, Elements DEF ImpInv
  <2>3. bind \in Seq([Names -> Values]) /\ Len(bind) = n
    BY <1>1 DEF ImpInv, TypeOK, Values
  <2>4. Begin[c] = bind[c] /\ Here \in DOMAIN Begin /\ c \in DOMAIN Begin
    BY <2>1, <2>2, <2>3 DEF Begin
  <2>5. \A x, v : [bind EXCEPT ![Here][x] = v][c] = bind[c]
    BY <2>1, <2>2, <2>3
  <2>6. CASE \E f \in Libraries : ImportLibrary(f)
    BY <2>2, <2>4, <2>6 DEF ImportLibrary
  <2>7. CASE \E f \in Sources : ImportSource(f)
    BY <2>4, <2>7 DEF ImportSource
  <2>8. CASE Import2 \/ Using2 \/ Using3 \/ bl_oper_set
    <3>1. bind' = bind \/ \E x, v : bind' = [bind EXCEPT ![Here][x] = v]
      <4>1. CASE bl_oper_set
        BY <4>1 DEF bl_oper_set
      <4>2. CASE Import2 \/ Using2
        BY <4>2 DEF Import2, Using2, BindLast
      <4>3. CASE Using3
        BY <4>3 DEF Using3, BindLast
      <4> QED BY <2>8, <4>1, <4>2, <4>3
    <3> QED BY <2>5, <3>1
  <2>9. CASE Import3
    <3> DEFINE b == Inward(bind, First, stmt.path[3], Third)
    <3>1. First \in Ctx => First \in ready
      BY <1>1, <2>9, BoundType DEF Import3, Qualified
    <3>2. b[c] = bind[c] /\ DOMAIN b = DOMAIN bind
      <4>1. CASE Third = 0
        BY <4>1 DEF Inward
      <4>2. CASE Third # 0
        <5>1. First # c
          <6>1. c \in Ctx
            <7>1. n \in 1..MaxCtx /\ n \in Nat /\ MaxCtx \in Nat
              BY <1>1, Elements, ImportAssumption DEF ImpInv, Ctx
            <7> QED BY <2>1, <7>1 DEF Ctx
          <6> QED BY <2>1, <3>1, <6>1
        <5> QED BY <2>1, <2>3, <4>2, <5>1 DEF Inward
      <4> QED BY <4>1, <4>2
    <3>3. bind' = [b EXCEPT ![Here][stmt.path[3]] = OrErr(Third)]
      BY <2>9 DEF Import3
    <3> HIDE DEF b
    <3> QED BY <2>1, <2>2, <2>3, <3>2, <3>3
  <2>10. CASE EndImport
    <3>1. bind' = [bind EXCEPT ![Top.into][Top.name] = Top.ctx] /\ c # Top.into
      BY <1>1, <2>10 DEF EndImport
    <3> QED BY <2>1, <2>3, <3>1
  <2>11. CASE GiveUp
    BY <2>11 DEF GiveUp, Abandoned
  <2>12. CASE ImportBound \/ ImportMissing \/ Import3Missing \/ Failing
    BY <2>12 DEF ImportBound, ImportMissing, Import3Missing, Failing
  <2>13. CASE ImportOther \/ NoContext \/ IncludeNothing
    BY <2>13 DEF ImportOther, NoContext, IncludeNothing, Crash
  <2>14. CASE bl_oper_include \/ More \/ EndInclude \/ GoOn \/ Answer
    BY <2>14 DEF bl_oper_include, More, EndInclude, GoOn, Answer
  <2>15. CASE \E s \in todo : Submit(s)
    BY <2>15 DEF Submit
  <2>16. CASE UNCHANGED vars
    BY <2>16 DEF vars
  <2> QED
    BY <1>1, <2>6, <2>7, <2>8, <2>9, <2>10, <2>11, <2>12, <2>13, <2>14, <2>15, <2>16
    DEF Next, Step
<1>2. ImpInv /\ [Next]_vars =>
        [\A c \in Waiting : bind'[c] = bind[c] \/ (phase = "next" /\ c = Top.into)]_vars
  BY <1>1
<1> QED BY <1>2, ImpInvHolds, PTL DEF Spec, WaitingUntouched
=============================================================================
