------------------------------- MODULE Scopes --------------------------------
(***************************************************************************)
(* What contexts promise the evaluator: nested scopes holding variables.   *)
(* There are no arrays and no walk here.  A scope sees the scopes it was   *)
(* created inside of (chain); an assignment changes one variable of one    *)
(* scope; a lookup answers with the innermost binding in sight, and a      *)
(* qualified name a::b is looked up one part at a time, each in the module *)
(* the part before it named.                                               *)
(***************************************************************************)
EXTENDS Naturals, Sequences

CONSTANTS
  MaxCtx,   (* bound: number of scopes created                             *)
  Syms,     (* symbol ids                                                  *)
  Atoms,    (* values other than scopes                                    *)
  Wild,     (* values that are no scope but do not read as an empty one    *)
  Quoted,   (* symbols written 'x                                          *)
  Unquoted, (* the symbol each of them stands for, as a value              *)
  Split     (* Split[s]: the parts of a name, <<s>> for an unqualified one *)

VARIABLES
  n,        (* scopes 1..n exist                                           *)
  chain,    (* chain[c]: the scopes c sees, itself included                *)
  parent,   (* parent[c]: the scope c was created in, 0 for none           *)
  redirect, (* redirect[c]: assignments made in c go to its parent         *)
  bind,     (* bind[c][s]: the value of s in c, 0 when unbound             *)
  busy,     (* a lookup is in progress:                                    *)
  from,     (*   the scope it is made in                                   *)
  path,     (*   the parts of the name that remain                         *)
  ret       (* the answer to the last lookup, 0 for "not found"            *)

lookup == <<busy, from, path, ret>>
vars == <<n, chain, parent, redirect, bind, busy, from, path, ret>>

Ctx == 1..MaxCtx
Val == Atoms \cup 0..MaxCtx

Init ==
  /\ n = 0
  /\ chain = [c \in Ctx |-> {}]
  /\ parent = [c \in Ctx |-> 0]
  /\ redirect = [c \in Ctx |-> FALSE]
  /\ bind = [c \in Ctx |-> [s \in Syms |-> 0]]
  /\ busy = FALSE
  /\ from = 0
  /\ path = <<>>
  /\ ret = 0

New(p) ==
  /\ ~busy
  /\ n < MaxCtx
  /\ n' = n + 1
  /\ parent' = [parent EXCEPT ![n + 1] = p]
  /\ chain' = [chain EXCEPT ![n + 1] = {n + 1} \cup (IF p = 0 THEN {} ELSE chain[p])]
  /\ UNCHANGED <<redirect, bind, lookup>>

Redirect(c) ==
  /\ ~busy
  /\ parent[c] # 0
  /\ redirect' = [redirect EXCEPT ![c] = TRUE]
  /\ UNCHANGED <<n, chain, parent, bind, lookup>>

Target(c) == IF redirect[c] THEN parent[c] ELSE c

Assign(c, s, v) ==
  /\ ~busy
  /\ bind' = [bind EXCEPT ![Target(c)][s] = v]
  /\ UNCHANGED <<n, chain, parent, redirect, lookup>>

Ask(c, s) ==
  /\ ~busy
  /\ busy' = TRUE
  /\ from' = c
  /\ path' = Split[s]
  /\ UNCHANGED <<n, chain, parent, redirect, bind, ret>>

Holders(c, s) == {a \in chain[c] : bind[a][s] # 0}

(* The innermost holder is the youngest: scopes are younger than their     *)
(* parents.                                                                *)
Visible(c, s) ==
  IF Holders(c, s) = {} THEN 0
  ELSE bind[CHOOSE a \in Holders(c, s) : \A b \in Holders(c, s) : b <= a][s]

Done(v) == busy' = FALSE /\ from' = 0 /\ path' = <<>> /\ ret' = v

Answer ==
  /\ busy
  /\ LET s == Head(path)
         v == Visible(from, s)
     IN  \/ s \in Quoted /\ Done(Unquoted[s])
         \/ s \notin Quoted /\ (Len(path) = 1 \/ v = 0) /\ Done(v)
         \/ /\ s \notin Quoted /\ Len(path) > 1 /\ v \in Ctx
            /\ from' = v /\ path' = Tail(path) /\ UNCHANGED <<busy, ret>>
         \/ /\ s \notin Quoted /\ Len(path) > 1 /\ v \in Atoms
            /\ \E w \in IF v \in Wild THEN Val ELSE {0} : Done(w)
  /\ UNCHANGED <<n, chain, parent, redirect, bind>>

Next ==
  \/ \E p \in 0..n : New(p)
  \/ \E c \in 1..n : \/ Redirect(c)
                     \/ \E s \in Syms, v \in Val : Assign(c, s, v)
                     \/ \E s \in Syms : Ask(c, s)
  \/ Answer

Spec == Init /\ [][Next]_vars
=============================================================================
