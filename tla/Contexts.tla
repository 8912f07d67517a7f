------------------------------ MODULE Contexts -------------------------------
(***************************************************************************)
(* Contexts: bl_ctx_new, bl_ctx_get, bl_ctx_set (runtime/src/ctx.c), the   *)
(* write_to_parent switch that bl_eval throws for an operator's frame, and *)
(* the loop of (using module::star) that copies a module's variables.      *)
(*                                                                         *)
(* A context holds two arrays, keys and vals, indexed by sym_id, with room *)
(* for vals_count entries: bl_ctx_set makes them larger when a symbol's id *)
(* is past their end.  An array is a function whose domain is exactly its  *)
(* allocated indices, so an access out of bounds has no value.             *)
(*                                                                         *)
(* Contexts are numbered in the order of creation; 0 is the NULL pointer.  *)
(***************************************************************************)
EXTENDS Integers, Sequences

CONSTANTS
  MaxCtx,   (* bound: number of contexts created                           *)
  Syms,     (* sym_ids in use                                              *)
  Atoms,    (* values other than contexts                                  *)
  Wild,     (* those whose bytes, read as a context, do not read as an     *)
            (* empty one: functions and errors                             *)
  Quoted,   (* the symbols written 'x                                      *)
  Unquoted, (* Unquoted[s]: the symbol value bl_mk_symbol(s_val+1) returns *)
  Split,    (* Split[s]: the parts of the name between ::, <<s>> for one   *)
  Assigns,  (* the (sym_id, value) pairs the program assigns, 0 unsets     *)
  Initial,  (* entries of a root context: 8 in the source                  *)
  Slack     (* room beyond sym_id when growing: 8 in the source            *)

ASSUME ContextsAssumption ==
  /\ MaxCtx \in Nat /\ Syms \subseteq Nat
  /\ Atoms \cap Nat = {} /\ Wild \subseteq Atoms
  /\ Quoted \subseteq Syms /\ Unquoted \in [Quoted -> Atoms]
  /\ Split \in [Syms -> Seq(Syms) \ {<<>>}]
  /\ Assigns \subseteq Syms \X (Atoms \cup 0..MaxCtx)
  /\ Initial \in Nat /\ Slack \in Nat \ {0}

Ctx == 1..MaxCtx
Val == Atoms \cup 0..MaxCtx
NoKey == -1

VARIABLES
  n,               (* contexts 1..n exist                                  *)
  parent,
  vals_count,
  keys,            (* keys[c][i]: the symbol stored there, NoKey for NULL  *)
  vals,            (* vals[c][i]: its value, 0 for NULL                    *)
  write_to_parent,
  pc,              (* "idle", or the call in progress: "get" or "using"    *)
  from, at, path,  (* bl_ctx_get: the context asked, the one the recursion *)
                   (* has reached, the parts of the name that remain       *)
  ret,             (* what the last bl_ctx_get returned                    *)
  into, src, idx,  (* the copy loop: its two contexts and its index        *)
  chain            (* history: the contexts each context can reach         *)

store == <<n, parent, vals_count, keys, vals, write_to_parent, chain>>
getting == <<from, at, path, ret>>
using == <<into, src, idx>>
vars == <<n, parent, vals_count, keys, vals, write_to_parent, chain,
          pc, from, at, path, ret, into, src, idx>>

(* An array of k entries from GC_MALLOC, which clears them.                *)
Empty(k, x) == [i \in 0..(k - 1) |-> x]

Init ==
  /\ n = 0
  /\ parent = [c \in Ctx |-> 0]
  /\ vals_count = [c \in Ctx |-> 0]
  /\ keys = [c \in Ctx |-> Empty(0, NoKey)]
  /\ vals = [c \in Ctx |-> Empty(0, 0)]
  /\ write_to_parent = [c \in Ctx |-> FALSE]
  /\ pc = "idle"
  /\ from = 0 /\ at = 0 /\ path = <<>> /\ ret = 0
  /\ into = 0 /\ src = 0 /\ idx = 0
  /\ chain = [c \in Ctx |-> {}]

(* bl_ctx_new(p): as much room as the parent has, and nothing in it.       *)
bl_ctx_new(p) ==
  LET c == n + 1
      k == IF p = 0 THEN Initial ELSE vals_count[p]
  IN  /\ pc = "idle"
      /\ n < MaxCtx
      /\ n' = c
      /\ parent' = [parent EXCEPT ![c] = p]
      /\ vals_count' = [vals_count EXCEPT ![c] = k]
      /\ keys' = [keys EXCEPT ![c] = Empty(k, NoKey)]
      /\ vals' = [vals EXCEPT ![c] = Empty(k, 0)]
      /\ chain' = [chain EXCEPT ![c] = {c} \cup (IF p = 0 THEN {} ELSE chain[p])]
      /\ UNCHANGED <<write_to_parent, pc, getting, using>>

(* An operator's frame, once its parameters are bound: assignments made in *)
(* it are to reach the context the operator was defined in.                *)
WriteToParent(c) ==
  /\ pc = "idle"
  /\ parent[c] # 0
  /\ write_to_parent' = [write_to_parent EXCEPT ![c] = TRUE]
  /\ UNCHANGED <<n, parent, vals_count, keys, vals, chain, pc, getting, using>>

-----------------------------------------------------------------------------
(* bl_ctx_set *)

NeedsRoom(t, s) == s >= vals_count[t]

(* Mutant: the old entries are not copied into the grown array.            *)
GrownEmpty(a, k, x) == IF DOMAIN a = 0..(k - 1) THEN a ELSE Empty(k, x)

(* The array a in k entries: what it held, and x in the new ones.          *)
Grown(a, k, x) == [i \in 0..(k - 1) |-> IF i \in DOMAIN a THEN a[i] ELSE x]

(* The context that an assignment in c is made to: one step up at most.    *)
Target(c) == IF write_to_parent[c] THEN parent[c] ELSE c

Store(t, s, v) ==
  LET k == IF NeedsRoom(t, s) THEN s + Slack ELSE vals_count[t]
  IN  /\ vals_count' = [vals_count EXCEPT ![t] = k]
      /\ vals' = [vals EXCEPT ![t] = [Grown(vals[t], k, 0) EXCEPT ![s] = v]]
      /\ keys' = [keys EXCEPT ![t] = [Grown(keys[t], k, NoKey) EXCEPT ![s] = s]]

bl_ctx_set(c, s, v) ==
  /\ pc = "idle"
  /\ Store(Target(c), s, v)
  /\ UNCHANGED <<n, parent, write_to_parent, chain, pc, getting, using>>

-----------------------------------------------------------------------------
(* bl_ctx_get, one step per recursive call *)

GetBegin(c, s) ==
  /\ pc = "idle"
  /\ pc' = "get"
  /\ from' = c /\ at' = c /\ path' = Split[s]
  /\ UNCHANGED <<store, ret, using>>

Return(v) ==
  /\ pc' = "idle"
  /\ from' = 0 /\ at' = 0 /\ path' = <<>> /\ ret' = v
  /\ UNCHANGED <<store, using>>

Part == Head(path)

(* Mutant: the last entry of the array is taken for its end.               *)
SlotShort(c, s) == IF s + 1 < vals_count[c] THEN vals[c][s] ELSE 0

(* vals[sym_id] where the array reaches that far, NULL beyond.             *)
Slot(c, s) == IF s < vals_count[c] THEN vals[c][s] ELSE 0

(* A quoted symbol is its own answer, in any context.                      *)
GetQuoted ==
  /\ pc = "get" /\ Part \in Quoted
  /\ Return(Unquoted[Part])

(* Found, and it is the last part of the name.                             *)
GetHit ==
  /\ pc = "get" /\ Part \notin Quoted
  /\ Slot(at, Part) # 0 /\ Len(path) = 1
  /\ Return(Slot(at, Part))

(* Found a module: the rest of the name is looked up in it.                *)
GetModule ==
  /\ pc = "get" /\ Part \notin Quoted
  /\ Slot(at, Part) \in Ctx /\ Len(path) > 1
  /\ from' = Slot(at, Part) /\ at' = Slot(at, Part) /\ path' = Tail(path)
  /\ UNCHANGED <<store, pc, ret, using>>

(* Found something else where a module was expected.  bl_ctx_get reads it  *)
(* as a context all the same: the bytes of most values read as an empty    *)
(* one, those of a function or an error as anything.                       *)
GetNoModule ==
  /\ pc = "get" /\ Part \notin Quoted
  /\ Slot(at, Part) \in Atoms /\ Len(path) > 1
  /\ \E v \in IF Slot(at, Part) \in Wild THEN Val ELSE {0} : Return(v)

(* Mutants: the lookup goes on from the root instead of the parent, or     *)
(* from the context itself.                                                *)
Outermost(c) == IF parent[c] = 0 THEN 0 ELSE 1
OuterSelf(c) == IF parent[c] = 0 THEN 0 ELSE c

Outer(c) == parent[c]

GetParent ==
  /\ pc = "get" /\ Part \notin Quoted
  /\ Slot(at, Part) = 0 /\ Outer(at) # 0
  /\ at' = Outer(at)
  /\ UNCHANGED <<store, pc, from, path, ret, using>>

GetMiss ==
  /\ pc = "get" /\ Part \notin Quoted
  /\ Slot(at, Part) = 0 /\ Outer(at) = 0
  /\ Return(0)

bl_ctx_get == GetQuoted \/ GetHit \/ GetModule \/ GetNoModule \/ GetParent \/ GetMiss

-----------------------------------------------------------------------------
(* bl_oper_using, the branch of * : every variable of m is set in c.       *)

UsingBegin(c, m) ==
  /\ pc = "idle"
  /\ pc' = "using"
  /\ into' = c /\ src' = m /\ idx' = 0
  /\ UNCHANGED <<store, getting>>

UsingCopy ==
  /\ pc = "using" /\ idx < vals_count[src]
  /\ idx' = idx + 1
  /\ IF vals[src][idx] # 0
     THEN Store(Target(into), keys[src][idx], vals[src][idx])
     ELSE UNCHANGED <<vals_count, keys, vals>>
  /\ UNCHANGED <<n, parent, write_to_parent, chain, pc, getting, into, src>>

UsingEnd ==
  /\ pc = "using" /\ idx >= vals_count[src]
  /\ pc' = "idle"
  /\ into' = 0 /\ src' = 0 /\ idx' = 0
  /\ UNCHANGED <<store, getting>>

Next ==
  \/ \E p \in 0..n : bl_ctx_new(p)
  \/ \E c \in 1..n : WriteToParent(c)
  \/ \E c \in 1..n : \E a \in Assigns :
       (a[2] \in Nat => a[2] <= n) /\ bl_ctx_set(c, a[1], a[2])
  \/ \E c \in 1..n, s \in Syms : GetBegin(c, s)
  \/ bl_ctx_get
  \/ \E c, m \in 1..n : UsingBegin(c, m)
  \/ UsingCopy
  \/ UsingEnd

(* The interpreter has one thread and a call in progress runs to its end.  *)
Spec == Init /\ [][Next]_vars /\ WF_vars(bl_ctx_get) /\ WF_vars(UsingCopy \/ UsingEnd)

-----------------------------------------------------------------------------
StoreTypeOK ==
  /\ n \in 0..MaxCtx
  /\ parent \in [Ctx -> 0..MaxCtx]
  /\ vals_count \in [Ctx -> Nat]
  /\ DOMAIN keys = Ctx
  /\ \A c \in Ctx : keys[c] \in [0..(vals_count[c] - 1) -> Syms \cup {NoKey}]
  /\ DOMAIN vals = Ctx
  /\ \A c \in Ctx : vals[c] \in [0..(vals_count[c] - 1) -> Atoms \cup 0..n]
  /\ write_to_parent \in [Ctx -> BOOLEAN]
  /\ chain \in [Ctx -> SUBSET Ctx]

CallTypeOK ==
  /\ pc \in {"idle", "get", "using"}
  /\ from \in 0..n /\ at \in 0..n /\ path \in Seq(Syms)
  /\ ret \in Val
  /\ into \in 0..n /\ src \in 0..n /\ idx \in Nat

TypeOK == StoreTypeOK /\ CallTypeOK

(* A slot that holds a value knows the symbol it belongs to.  bl_ctx_set   *)
(* writes keys and vals together (ctx.c:155-156) and growing copies both;  *)
(* (using m::star), (dir m) and the prompt's completion dereference        *)
(* keys[i] for every i with vals[i] set.                                   *)
KeysMatch ==
  \A c \in 1..n : \A i \in 0..(vals_count[c] - 1) :
     /\ vals[c][i] # 0 => keys[c][i] = i
     /\ keys[c][i] # NoKey => keys[c][i] = i

(* Redirected assignments have somewhere to go: bl_ctx_set follows         *)
(* ctx->parent without a NULL test (ctx.c:137-139).                        *)
RedirectHasParent == \A c \in 1..n : Target(c) \in 1..n

(* While (using m::star) runs, every variable of the module passed so far  *)
(* has reached the importing context, though that context's arrays may     *)
(* have been grown under the loop (builtins.c:807-812).                    *)
UsingCopies ==
  pc = "using" => \A i \in 0..(idx - 1) :
     i < vals_count[src] /\ vals[src][i] # 0 => Slot(Target(into), i) = vals[src][i]

(* The variables, without the arrays that hold them.                       *)
Bind == [c \in Ctx |-> [s \in Syms |-> Slot(c, s)]]

(* What the evaluator is promised: scopes.                                 *)
S == INSTANCE Scopes WITH
  redirect <- write_to_parent,
  bind <- Bind,
  busy <- (pc = "get")

(* The arrays, their growth and the recursive walk implement scopes: every *)
(* lookup answers with the innermost binding in sight, and no step but an  *)
(* assignment changes a variable, and then exactly one.                    *)
ImplementsScopes == S!Init /\ [][S!Next]_S!vars

(* An unqualified assignment is seen by a lookup in the same context at    *)
(* once, unless the context is an operator's frame and one of its          *)
(* parameters has that name.                                               *)
AssignmentSeen ==
  [][\A c \in 1..n : \A a \in Assigns :
       /\ bl_ctx_set(c, a[1], a[2]) /\ a[2] # 0
       /\ ~ (write_to_parent[c] /\ Slot(c, a[1]) # 0)
       => S!Visible(c, a[1])' = a[2]]_vars

(* Every lookup and every copy loop ends: parents are older than their     *)
(* children, and each part of a qualified name is used up.                 *)
CallsReturn == pc # "idle" ~> pc = "idle"

(* The inductive invariant.  ChainOK: a parent is older than its children, *)
(* so the contexts in reach of one are itself and those in reach of its    *)
(* parent.  Fresh: nothing is stored for contexts yet to be created.       *)
(* WalkOK: the walk is at a context in reach of the one asked, everything  *)
(* older is still ahead of it, and what it has passed does not bind the    *)
(* name, so a hit is the innermost one.                                    *)
ChainOK ==
  \A c \in 1..n :
     /\ parent[c] \in 0..(c - 1)
     /\ chain[c] \subseteq 1..c
     /\ chain[c] = {c} \cup (IF parent[c] = 0 THEN {} ELSE chain[parent[c]])

Fresh == \A c \in Ctx : c > n => vals_count[c] = 0 /\ ~write_to_parent[c]

WalkOK ==
  pc = "get" =>
     /\ from \in 1..n /\ path # <<>> /\ at \in chain[from]
     /\ chain[at] = {x \in chain[from] : x <= at}
     /\ \A x \in chain[from] : x > at => Slot(x, Part) = 0

UsingOK == pc = "using" => into \in 1..n /\ src \in 1..n

CtxInv ==
  /\ TypeOK /\ KeysMatch /\ ChainOK /\ Fresh /\ RedirectHasParent
  /\ WalkOK /\ UsingOK /\ UsingCopies
=============================================================================
