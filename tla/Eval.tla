-------------------------------- MODULE Eval ---------------------------------
(***************************************************************************)
(* The evaluator (runtime/src/eval.c) as a machine: ctl says what runs     *)
(* now, stack holds one frame for each C activation that waits for a       *)
(* bl_eval to return.  Contexts are the scopes that module Contexts        *)
(* implements; module Builtins adds the native operators and Next.         *)
(*                                                                         *)
(* Values and expressions are the same thing, as in the interpreter: a     *)
(* list is evaluated, and what an expression returns can be evaluated      *)
(* again.  Lists are immutable here; numbers are cells, because inc and    *)
(* dec change a number in place, under every name that reaches it.         *)
(***************************************************************************)
EXTENDS Integers, Sequences, FiniteSets

CONSTANTS
  Form,     (* Form[f]: the expression with the label f                    *)
  Sessions, (* pairs of a set of labels and a bound: so many of these      *)
            (* expressions are typed at the prompt, in any order, each at  *)
            (* most once                                                   *)
  Lit,      (* Lit[k]: the value of the number literal in cell k           *)
  Names,    (* the names of symbols                                        *)
  Quoted,   (* Quoted[x]: the name quoted by x, for x in its domain        *)
  NativeNames, (* the natives bl_ctx_new_std defines, a name each          *)
  ErrNames, (* ErrNames[x]: the error type bound to the name x, like ERR_* *)
  MaxStack, (* bound: waiting activations                                  *)
  MaxCells  (* bound: number cells                                         *)

ASSUME EvalAssumption ==
  /\ MaxStack \in Nat /\ MaxCells \in Nat
  /\ NativeNames \subseteq Names /\ DOMAIN Quoted \subseteq Names

Sym(x)    == [t |-> "sym", s |-> x]
Num(k)    == [t |-> "num", r |-> k]
Bool(b)   == [t |-> "bool", b |-> b]
Null      == [t |-> "null"]
List(l)   == [t |-> "list", l |-> l]
Err(e)    == [t |-> "err", e |-> e]
Native(x) == [t |-> "native", s |-> x]
Func(f)   == [t |-> "func", f |-> f]
Oper(f)   == [t |-> "oper", f |-> f]
If        == [t |-> "if"]
Do        == [t |-> "do"]
While     == [t |-> "while"]
NULL      == [t |-> "NULL"]   (* the C null pointer                        *)
Wild      == [t |-> "wild"]   (* a pointer to no object                    *)

VARIABLES
  ctl,      (* what runs now: a record with field op                       *)
  stack,    (* the frames below it, innermost first                        *)
  bind,     (* bind[c][x]: the value of x in context c, for the names set  *)
            (* there, NULL for one that was unset                          *)
  chain,    (* chain[c]: c, its parent, the parent's parent ...            *)
  redirect, (* redirect[c]: write_to_parent                                *)
  funs,     (* functions and operators defined so far                      *)
  num,      (* num[k]: the integer in cell k                               *)
  out,      (* what was printed                                            *)
  todo,     (* forms not evaluated yet                                     *)
  left,     (* how many of them may still be typed                         *)
  form,     (* the form being evaluated, or evaluated last                 *)
  result    (* what it returned                                            *)

control == <<ctl, stack>>
scopes == <<bind, chain, redirect>>
prompt == <<todo, left, form, result>>
vars == <<ctl, stack, bind, chain, redirect, funs, num, out, todo, left, form, result>>

Idle == [op |-> "idle"]
Crashed == [op |-> "crash"]
Ended == [op |-> "end"]
Ret(v) == [op |-> "ret", v |-> v]
Body(f, i) == [op |-> "body", f |-> f, i |-> i]
BodyIf(f, i, v) == [op |-> "bodyif", f |-> f, i |-> i, v |-> v]

(* A bl_eval(c, e) begins, with frame fr to come back to.                  *)
Call(c, e, fr, stk) == <<[op |-> "eval", ctx |-> c, e |-> e], <<fr>> \o stk>>
Jump(c, e, stk) == <<[op |-> "eval", ctx |-> c, e |-> e], stk>>
Leave(v, stk) == <<Ret(v), stk>>

Go(x) == Len(x[2]) <= MaxStack /\ ctl' = x[1] /\ stack' = x[2]

-----------------------------------------------------------------------------
(* Lists *)

IsList(v) == v.t = "list"
IsErr(v) == v.t = "err"
Item(l, i) == IF i <= Len(l) THEN l[i] ELSE NULL
From(l, i) == SubSeq(l, i, Len(l))
Cdr(l) == IF Len(l) > 1 THEN List(Tail(l)) ELSE NULL

(* bl_list_len, which looks for a car in whatever it is given: a number or *)
(* null has none, an error or True has one and no cdr.                     *)
bl_list_len(v) ==
  IF IsList(v) THEN Len(v.l)
  ELSE IF v.t = "err" \/ v = Bool(TRUE) THEN 1 ELSE 0

-----------------------------------------------------------------------------
(* Contexts, as Scopes promises them *)

Standard == [x \in NativeNames \cup {"True", "False", "None"} \cup DOMAIN ErrNames |->
  IF x \in NativeNames THEN Native(x)
  ELSE IF x = "True" THEN Bool(TRUE)
  ELSE IF x = "False" THEN Bool(FALSE)
  ELSE IF x = "None" THEN Null
  ELSE Err(ErrNames[x])]

Unbound == <<>>

(* The variable x of context c, and the variables b with x set to v.       *)
Var(c, x) == IF x \in DOMAIN bind[c] THEN bind[c][x] ELSE NULL
With(b, x, v) == [y \in DOMAIN b \cup {x} |-> IF y = x THEN v ELSE b[y]]

Holders(c, x) == {i \in 1..Len(chain[c]) : Var(chain[c][i], x) # NULL}

bl_ctx_get(c, x) ==
  IF x \in DOMAIN Quoted THEN Sym(Quoted[x])
  ELSE IF Holders(c, x) = {} THEN NULL
  ELSE bind[chain[c][CHOOSE i \in Holders(c, x) : \A j \in Holders(c, x) : i <= j]][x]

Target(c) == IF redirect[c] THEN chain[c][2] ELSE c

bl_ctx_set(c, x, v) == bind' = [bind EXCEPT ![Target(c)] = With(@, x, v)]

(* The context that bl_ctx_new creates next.                               *)
NewCtx == Len(chain) + 1

Range(s) == {s[i] : i \in 1..Len(s)}
IndexOf(s, x) == CHOOSE i \in 1..Len(s) : s[i] = x

(* bl_set_params cannot be called with values for a function that takes    *)
(* none: the empty list of names has no symbol in it.                      *)
NoNames(names, n) == names = <<>> /\ n > 0

(* Mutants: a parameter that has a value keeps it; the values are not      *)
(* advanced with the names.                                                *)
SetParamsKept(b, names, args) ==
  [x \in DOMAIN b \cup Range(names) |->
     IF x \in DOMAIN b THEN b[x]
     ELSE IF IsList(args) THEN Item(args.l, IndexOf(names, x)) ELSE NULL]
SetParamsAlike(b, names, args) ==
  [x \in DOMAIN b \cup Range(names) |->
     IF x \in Range(names) /\ IsList(args) THEN args.l[1] ELSE IF x \in DOMAIN b THEN b[x] ELSE NULL]

(* The variables after bl_set_params(ctx, names, args), given those before *)
(* it.  Missing arguments leave a parameter as it was; an error in place   *)
(* of the list of arguments has its type read as a pointer.                *)
bl_set_params(b, names, args) ==
  LET given == IF IsList(args) THEN {i \in 1..Len(names) : i <= Len(args.l)} ELSE {1}
      vals == [i \in given |-> IF IsList(args) THEN args.l[i]
                               ELSE IF IsErr(args) THEN Wild ELSE NULL]
      set == {names[i] : i \in given}
  IN  [x \in DOMAIN b \cup set |-> IF x \in set THEN vals[IndexOf(names, x)] ELSE b[x]]

-----------------------------------------------------------------------------
(* bl_eval *)

Expr == ctl.e
Here == ctl.ctx

(* The operator or function at the head of a list.                         *)
Callee ==
  IF Head(Expr.l).t = "sym" THEN bl_ctx_get(Here, Head(Expr.l).s) ELSE Head(Expr.l)

Evaluating(t) == ctl.op = "eval" /\ Expr.t = t
Calling(t) == Evaluating("list") /\ Expr.l # <<>> /\ Callee.t = t
Args == Tail(Expr.l)

(* The loop of do, of an operator's body: the rest of the expressions.     *)
Sequence(c, l, v, stk) ==
  IF l = <<>> THEN Leave(v, stk)
  ELSE Call(c, Head(l), [k |-> "seq", ctx |-> c, l |-> Tail(l)], stk)

(* bl_eval_cons: the values so far, and what is left to evaluate.          *)
bl_eval_cons(c, l, acc, stk) ==
  IF l = <<>> THEN Leave(IF acc = <<>> THEN Null ELSE List(acc), stk)
  ELSE Call(c, Head(l), [k |-> "cons", ctx |-> c, l |-> Tail(l), acc |-> acc], stk)

(* bl_eval_if, called by bl_eval (site 0) or for the if at position i of   *)
(* the body of f (site <<f, i>>): the condition first.                     *)
bl_eval_if(c, e, site, stk) ==
  Call(c, Item(e.l, 2), [k |-> "ifcond", ctx |-> c, e |-> e, site |-> site], stk)

(* bl_eval evaluates what an if returned once more, in its loop.           *)
IfValue(c, v, site, stk) ==
  IF site = <<0, 0>> THEN (IF IsErr(v) THEN Leave(v, stk) ELSE Jump(c, v, stk))
  ELSE <<BodyIf(site[1], site[2], v), stk>>

EvalNull ==
  /\ Evaluating("NULL")
  /\ Go(Leave(Null, stack))
  /\ UNCHANGED <<scopes, funs, num, out, prompt>>

EvalSelf ==
  /\ ctl.op = "eval" /\ Expr.t \notin {"NULL", "wild", "list", "sym"}
  /\ Go(Leave(Expr, stack))
  /\ UNCHANGED <<scopes, funs, num, out, prompt>>

EvalSymbol ==
  /\ Evaluating("sym")
  /\ LET v == bl_ctx_get(Here, Expr.s)
     IN  Go(Leave(IF v = NULL THEN Err("SYMBOL_NOTFOUND") ELSE v, stack))
  /\ UNCHANGED <<scopes, funs, num, out, prompt>>

EvalEmpty ==
  /\ Evaluating("list") /\ Expr.l = <<>>
  /\ Go(Leave(Null, stack))
  /\ UNCHANGED <<scopes, funs, num, out, prompt>>

EvalNotFound ==
  /\ Calling("NULL")
  /\ Go(Leave(Err("SYMBOL_NOTFOUND"), stack))
  /\ UNCHANGED <<scopes, funs, num, out, prompt>>

EvalError ==
  /\ Calling("err")
  /\ Go(Leave(Callee, stack))
  /\ UNCHANGED <<scopes, funs, num, out, prompt>>

EvalDo ==
  /\ Calling("do")
  /\ Go(Sequence(Here, Args, Null, stack))
  /\ UNCHANGED <<scopes, funs, num, out, prompt>>

EvalIf ==
  /\ Calling("if")
  /\ Go(bl_eval_if(Here, Expr, <<0, 0>>, stack))
  /\ UNCHANGED <<scopes, funs, num, out, prompt>>

WhileCond(c, e, stk) == Call(c, Item(e.l, 2), [k |-> "while", ctx |-> c, e |-> e], stk)

EvalWhile ==
  /\ Calling("while")
  /\ Go(WhileCond(Here, Expr, stack))
  /\ UNCHANGED <<scopes, funs, num, out, prompt>>

(* A function's arguments are evaluated as one expression, the rest of the *)
(* list, and not one by one.                                               *)
EvalFunc ==
  /\ Calling("func")
  /\ Go(Call(Here, Cdr(Expr.l),
             [k |-> "args", f |-> Callee.f, n |-> Len(Expr.l) - 1], stack))
  /\ UNCHANGED <<scopes, funs, num, out, prompt>>

(* Mutant: the switch is thrown before the parameters are bound.           *)
OperFrameEarly(f, args) ==
  IF args = <<>> THEN Append(bind, Unbound)
  ELSE Append([bind EXCEPT ![funs[f].lexical] =
                 bl_set_params(@, funs[f].params, List(args))], Unbound)

(* The variables once an operator's frame is there: its parameters stand   *)
(* for the expressions it was called with.                                 *)
OperFrame(f, args) ==
  Append(bind, IF args = <<>> THEN Unbound
               ELSE bl_set_params(Unbound, funs[f].params, List(args)))

EvalOper ==
  /\ Calling("oper")
  /\ LET f == Callee.f
     IN  /\ ~ NoNames(funs[f].params, Len(Args))
         /\ bind' = OperFrame(f, Args)
         /\ chain' = Append(chain, <<NewCtx>> \o chain[funs[f].lexical])
         /\ redirect' = Append(redirect, TRUE)
         /\ funs' = [funs EXCEPT ![f].inner = NewCtx]
         /\ Go(Sequence(NewCtx, funs[f].body, Null, stack))
  /\ UNCHANGED <<num, out, prompt>>

EvalCons ==
  /\ Evaluating("list") /\ Expr.l # <<>>
  /\ Callee.t \in {"num", "bool", "null", "list", "sym", "str", "type"}
  /\ Go(bl_eval_cons(Here, Expr.l, <<>>, stack))
  /\ UNCHANGED <<scopes, funs, num, out, prompt>>

(* A native operator: its code gets the rest of the list as it is.         *)
EvalNative ==
  /\ Calling("native")
  /\ ctl' = [op |-> "native", s |-> Callee.s, ctx |-> Here, e |-> Expr]
  /\ UNCHANGED <<stack, scopes, funs, num, out, prompt>>

bl_eval ==
  \/ EvalNull \/ EvalSelf \/ EvalSymbol \/ EvalEmpty \/ EvalNotFound \/ EvalError
  \/ EvalDo \/ EvalIf \/ EvalWhile \/ EvalFunc \/ EvalOper \/ EvalNative
  \/ EvalCons

-----------------------------------------------------------------------------
(* A value comes back to the frame that waits for it *)

Top == Head(stack)
Below == Tail(stack)
Returned(k) == ctl.op = "ret" /\ stack # <<>> /\ Top.k = k
Value == ctl.v

(* Mutant: a do goes on after an error.                                    *)
SequenceNextAnyway(c, l, v, stk) == Sequence(c, l, v, stk)

(* do and operators stop at the first error.                               *)
SequenceNext(c, l, v, stk) ==
  IF IsErr(v) THEN Leave(v, stk) ELSE Sequence(c, l, v, stk)

RetSeq ==
  /\ Returned("seq")
  /\ Go(SequenceNext(Top.ctx, Top.l, Value, Below))
  /\ UNCHANGED <<scopes, funs, num, out, prompt>>

(* bl_eval_cons gives up at the first error.                               *)
ConsNext(fr, v, stk) ==
  IF IsErr(v) THEN Leave(v, stk)
  ELSE bl_eval_cons(fr.ctx, fr.l, Append(fr.acc, v), stk)

RetCons ==
  /\ Returned("cons")
  /\ Go(ConsNext(Top, Value, Below))
  /\ UNCHANGED <<scopes, funs, num, out, prompt>>

RetIfCond ==
  /\ Returned("ifcond")
  /\ Go(IF IsErr(Value) THEN IfValue(Top.ctx, Value, Top.site, Below)
        ELSE IF Value.t # "bool" THEN IfValue(Top.ctx, Err("PARSE"), Top.site, Below)
        ELSE Call(Top.ctx, Item(Top.e.l, IF Value.b THEN 3 ELSE 4),
                  [k |-> "ifvalue", ctx |-> Top.ctx, site |-> Top.site], Below))
  /\ UNCHANGED <<scopes, funs, num, out, prompt>>

RetIfValue ==
  /\ Returned("ifvalue")
  /\ Go(IfValue(Top.ctx, Value, Top.site, Below))
  /\ UNCHANGED <<scopes, funs, num, out, prompt>>

(* What b_val reads: numbers and None have a zero there, of all others it  *)
(* is a byte of a type or a pointer, which the build may take for either.  *)
Truth(v) ==
  IF v.t = "bool" THEN {v.b} ELSE IF v.t \in {"num", "null"} THEN {FALSE} ELSE BOOLEAN

WhileBody(c, e, l, stk) ==
  IF l = <<>> THEN WhileCond(c, e, stk)
  ELSE Call(c, Head(l), [k |-> "loop", ctx |-> c, e |-> e, l |-> Tail(l)], stk)

RetWhile ==
  /\ Returned("while")
  /\ \E b \in Truth(Value) :
       Go(IF b THEN WhileBody(Top.ctx, Top.e, From(Top.e.l, 3), Below) ELSE Leave(Null, Below))
  /\ UNCHANGED <<scopes, funs, num, out, prompt>>

RetLoop ==
  /\ Returned("loop")
  /\ Go(IF IsErr(Value) THEN Leave(Value, Below)
        ELSE WhileBody(Top.ctx, Top.e, Top.l, Below))
  /\ UNCHANGED <<scopes, funs, num, out, prompt>>

(* The arguments are there: bound in the one context that every call of    *)
(* the function shares, and the body begins.                               *)
RetArgs ==
  /\ Returned("args")
  /\ LET f == Top.f
         c == funs[f].inner
     IN  /\ ~ NoNames(funs[f].params, Top.n)
         /\ bind' = IF Top.n = 0 THEN bind
                    ELSE [bind EXCEPT ![c] = bl_set_params(@, funs[f].params, Value)]
         /\ Go(<<Body(f, 1), Below>>)
  /\ UNCHANGED <<chain, redirect, funs, num, out, prompt>>

-----------------------------------------------------------------------------
(* bl_eval_funcbody *)

BodyItem(f, i) == funs[f].body[i]
HeadIs(e, t) == IsList(e) /\ e.l # <<>> /\ Head(e.l).t = t

(* The list v calls the function f itself.                                 *)
CallsSelf(f, v) ==
  HeadIs(v, "sym") /\ bl_ctx_get(funs[f].inner, Head(v.l).s) = Func(f)

EvalItem(f, i) ==
  Call(funs[f].inner, BodyItem(f, i), [k |-> "body", f |-> f, i |-> i], stack)

(* A call of the function itself: the arguments, then the body from the    *)
(* start, without another activation.                                      *)
TailCall(f, i) ==
  Call(funs[f].inner, Cdr(BodyItem(f, i).l), [k |-> "tail", f |-> f], stack)

BodySelf ==
  /\ ctl.op = "body" /\ CallsSelf(ctl.f, BodyItem(ctl.f, ctl.i))
  /\ Go(TailCall(ctl.f, ctl.i))
  /\ UNCHANGED <<scopes, funs, num, out, prompt>>

BodyPlain ==
  /\ ctl.op = "body" /\ ~ CallsSelf(ctl.f, BodyItem(ctl.f, ctl.i))
  /\ ~ HeadIs(BodyItem(ctl.f, ctl.i), "if")
  /\ Go(EvalItem(ctl.f, ctl.i))
  /\ UNCHANGED <<scopes, funs, num, out, prompt>>

(* An if is evaluated to see whether its value is a call of the function.. *)
BodyTryIf ==
  /\ ctl.op = "body" /\ HeadIs(BodyItem(ctl.f, ctl.i), "if")
  /\ Go(bl_eval_if(funs[ctl.f].inner, BodyItem(ctl.f, ctl.i), <<ctl.f, ctl.i>>, stack))
  /\ UNCHANGED <<scopes, funs, num, out, prompt>>

(* .. and when it is not, evaluated again for its value.                   *)
BodyIfDone ==
  /\ ctl.op = "bodyif"
  /\ Go(IF CallsSelf(ctl.f, ctl.v) THEN TailCall(ctl.f, ctl.i) ELSE EvalItem(ctl.f, ctl.i))
  /\ UNCHANGED <<scopes, funs, num, out, prompt>>

(* An expression of the body is done; an error does not end the body.      *)
RetBody ==
  /\ Returned("body")
  /\ Go(IF Top.i = Len(funs[Top.f].body) THEN Leave(Value, Below)
        ELSE <<Body(Top.f, Top.i + 1), Below>>)
  /\ UNCHANGED <<scopes, funs, num, out, prompt>>

RetTail ==
  /\ Returned("tail")
  /\ LET f == Top.f
         c == funs[f].inner
     IN  /\ ~ NoNames(funs[f].params, bl_list_len(Value))
         /\ bind' = IF bl_list_len(Value) = 0 THEN bind
                    ELSE [bind EXCEPT ![c] = bl_set_params(@, funs[f].params, Value)]
         /\ Go(<<Body(f, 1), Below>>)
  /\ UNCHANGED <<chain, redirect, funs, num, out, prompt>>

bl_eval_funcbody == BodySelf \/ BodyPlain \/ BodyTryIf \/ BodyIfDone \/ RetBody \/ RetTail

Resume ==
  RetSeq \/ RetCons \/ RetIfCond \/ RetIfValue \/ RetWhile \/ RetLoop \/ RetArgs
=============================================================================
