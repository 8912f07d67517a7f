------------------------------ MODULE Builtins -------------------------------
(***************************************************************************)
(* The native operators that evaluate, bind or change something            *)
(* (runtime/src/builtins.c), and the prompt that feeds the evaluator       *)
(* (bli/src/main.c).  An operator gets its arguments unevaluated, and      *)
(* calls bl_eval for the ones it wants, as often as it wants.              *)
(*                                                                         *)
(* Strings have no content here; what append and prepend do to the cells   *)
(* of a list is in module Lists, what doc, dir and ctxget read in module   *)
(* Contexts.  Outside the model: reading a list or a function as a number, *)
(* or a function as a list.                                                *)
(***************************************************************************)
EXTENDS Eval

Str == [t |-> "str"]
ErrVar == "*ERR*"

Invoked(x) == ctl.op = "native" /\ ctl.s = x

(* The arguments, as written.  Without any, a native gets the value None,  *)
(* whose missing car is one argument to a loop over the list.              *)
Arg(i) == Item(Args, i)
Params == IF Args = <<>> THEN <<NULL>> ELSE Args

(* What bl_eval makes of a native's result.                                *)
NullIfNone(v) == IF v = NULL THEN Null ELSE v
ParamNames(e) == [i \in 1..Len(e.l) |-> e.l[i].s]

-----------------------------------------------------------------------------
(* Definitions and assignments *)

bl_oper_set ==
  /\ Invoked("=")
  /\ Go(Call(Here, Arg(2), [k |-> "set", ctx |-> Here, s |-> Arg(1).s], stack))
  /\ UNCHANGED <<scopes, funs, num, out, prompt>>

RetSet ==
  /\ Returned("set")
  /\ bl_ctx_set(Top.ctx, Top.s, Value)
  /\ Go(Leave(Value, Below))
  /\ UNCHANGED <<chain, redirect, funs, num, out, prompt>>

(* Mutant: the calls run in the context of the definition.                 *)
DefineShared(params, body, bound, v) ==
  /\ funs' = Append(funs, [params |-> ParamNames(params), body |-> body,
                           lexical |-> Here, inner |-> Here])
  /\ bind' = bound
  /\ Go(Leave(v, stack))
  /\ UNCHANGED <<chain, redirect, num, out, prompt>>

(* A function or operator value, with the context its calls will share.    *)
Define(params, body, bound, v) ==
  /\ funs' = Append(funs, [params |-> ParamNames(params), body |-> body,
                           lexical |-> Here, inner |-> NewCtx])
  /\ chain' = Append(chain, <<NewCtx>> \o chain[Here])
  /\ redirect' = Append(redirect, FALSE)
  /\ bind' = Append(bound, Unbound)
  /\ Go(Leave(v, stack))
  /\ UNCHANGED <<num, out, prompt>>

bl_oper_fn ==
  /\ Invoked("fn")
  /\ Define(Arg(1), From(Args, 2), bind, Func(Len(funs) + 1))

bl_oper_fun ==
  /\ Invoked("fun")
  /\ LET v == Func(Len(funs) + 1)
     IN  Define(Arg(2), From(Args, 3), [bind EXCEPT ![Target(Here)] = With(@, Arg(1).s, v)], v)

bl_oper_oper ==
  /\ Invoked("oper")
  /\ LET v == Oper(Len(funs) + 1)
     IN  Define(Arg(2), From(Args, 3), [bind EXCEPT ![Target(Here)] = With(@, Arg(1).s, v)], v)

(* inc and dec change the number a name stands for, wherever it is from.   *)
Add(d) ==
  LET v == bl_ctx_get(Here, Arg(1).s)
  IN  /\ v.t = "num"
      /\ num' = [num EXCEPT ![v.r] = @ + d]
      /\ Go(Leave(v, stack))
      /\ UNCHANGED <<scopes, funs, out, prompt>>

bl_oper_inc == Invoked("inc") /\ Add(1)
bl_oper_dec == Invoked("dec") /\ Add(-1)

bl_oper_quote ==
  /\ Invoked("quote")
  /\ Go(Leave(IF Len(Args) = 1 THEN Arg(1) ELSE List(Args), stack))
  /\ UNCHANGED <<scopes, funs, num, out, prompt>>

-----------------------------------------------------------------------------
(* Arithmetic *)

(* i_val of a value that is no number: null, errors and booleans have      *)
(* zeroes there, which GMP takes for 0.                                    *)
IntOf(v) == IF v.t = "num" THEN num[v.r] ELSE 0

(* A fresh number.                                                         *)
NewNum(i, stk) ==
  /\ Len(num) < MaxCells
  /\ num' = Append(num, i)
  /\ Go(Leave(Num(Len(num) + 1), stk))

(* bl_errif_invalid_len: what is wrong with n arguments where lo to hi are *)
(* expected.                                                               *)
bl_errif_invalid_len(n, lo, hi) ==
  IF n < lo THEN Err("INSUFFICIENT_ARGS")
  ELSE IF n > hi THEN Err("TOOMANY_ARGS") ELSE NULL

(* bl_errif_invalid_fixed_args: NULL, or the error in the arguments p.     *)
bl_errif_invalid_fixed_args(p, types) ==
  IF IsErr(p) THEN p
  ELSE LET n == Len(types)
           bad == bl_errif_invalid_len(bl_list_len(p), n, n)
           errs == {i \in 1..n : IsErr(p.l[i])}
       IN  IF bad # NULL THEN bad
           ELSE IF errs # {} THEN p.l[CHOOSE i \in errs : \A j \in errs : i <= j]
           ELSE IF \E i \in 1..n : p.l[i].t # types[i] THEN Err("INVALID_ARGTYPE")
           ELSE NULL

(* The arguments are evaluated as one expression, like those of a          *)
(* function.                                                               *)
EvalParams(k) ==
  /\ Go(Call(Here, Cdr(Expr.l), [k |-> k, ctx |-> Here], stack))
  /\ UNCHANGED <<scopes, funs, num, out, prompt>>

bl_oper_sub == Invoked("-") /\ EvalParams("-")
bl_oper_mult == Invoked("*") /\ EvalParams("*")

(* / evaluates them one by one.                                            *)
bl_oper_div ==
  /\ Invoked("/")
  /\ Go(bl_eval_cons(Here, Params, <<>>, <<[k |-> "/"]>> \o stack))
  /\ UNCHANGED <<scopes, funs, num, out, prompt>>

(* Division as GMP does it: tdiv_q towards zero, mod with a rest that is   *)
(* not negative.                                                           *)
Abs(i) == IF i < 0 THEN -i ELSE i
Quotient(i, j) ==
  IF (i < 0) = (j < 0) THEN Abs(i) \div Abs(j) ELSE -(Abs(i) \div Abs(j))
Arithmetic(op, i, j) ==
  CASE op = "-" -> i - j [] op = "*" -> i * j [] op = "/" -> Quotient(i, j)

(* What is wrong with the values v of the two arguments.                   *)
ArithmeticError(op, v) ==
  LET bad == bl_errif_invalid_fixed_args(v, <<"num", "num">>)
  IN  IF bad = NULL /\ op = "/" /\ IntOf(v.l[2]) = 0 THEN Err("DIVIDE_BY_ZERO") ELSE bad

RetArithmetic ==
  \E op \in {"-", "*", "/"} :
    /\ Returned(op)
    /\ LET bad == ArithmeticError(op, Value)
       IN  IF bad = NULL
           THEN NewNum(Arithmetic(op, IntOf(Value.l[1]), IntOf(Value.l[2])), Below)
           ELSE Go(Leave(bad, Below)) /\ UNCHANGED num
    /\ UNCHANGED <<scopes, funs, out, prompt>>

-----------------------------------------------------------------------------
(* Comparisons and logic: two arguments, one after the other, and no look  *)
(* at their types                                                          *)

Both(op) ==
  /\ Go(Call(Here, Arg(1), [k |-> "both1", op |-> op, ctx |-> Here, e |-> Arg(2)], stack))
  /\ UNCHANGED <<scopes, funs, num, out, prompt>>

bl_oper_lt == Invoked("lt") /\ Both("lt")
bl_oper_gt == Invoked("gt") /\ Both("gt")
bl_oper_eq == Invoked("eq") /\ Both("eq")
bl_oper_and == Invoked("and") /\ Both("and")
bl_oper_or == Invoked("or") /\ Both("or")
bl_oper_xor == Invoked("xor") /\ Both("xor")
bl_oper_mod == Invoked("%") /\ Both("%")

RetBoth1 ==
  /\ Returned("both1")
  /\ Go(Call(Top.ctx, Top.e, [k |-> "both2", op |-> Top.op, v |-> Value], Below))
  /\ UNCHANGED <<scopes, funs, num, out, prompt>>

(* eq: types by what they name, strings by content, all else as numbers.   *)
Equal(v, w) ==
  IF v.t = "type" /\ w.t = "type" THEN {v.ty = w.ty}
  ELSE IF v.t = "str" /\ w.t = "str" THEN BOOLEAN
  ELSE {IntOf(v) = IntOf(w)}

Verdicts(op, v, w) ==
  CASE op = "lt" -> {IntOf(v) < IntOf(w)}
    [] op = "gt" -> {IntOf(v) > IntOf(w)}
    [] op = "eq" -> Equal(v, w)
    [] op = "and" -> {a /\ b : a \in Truth(v), b \in Truth(w)}
    [] op = "or" -> {a \/ b : a \in Truth(v), b \in Truth(w)}
    [] op = "xor" -> {a # b : a \in Truth(v), b \in Truth(w)}

RetBoth2 ==
  /\ Returned("both2") /\ Top.op \notin {"aget", "filtered"}
  /\ IF Top.op = "%" THEN NewNum(IntOf(Top.v) % Abs(IntOf(Value)), Below)
     ELSE /\ \E b \in Verdicts(Top.op, Top.v, Value) : Go(Leave(Bool(b), Below))
          /\ UNCHANGED num
  /\ UNCHANGED <<scopes, funs, out, prompt>>

bl_oper_not ==
  /\ Invoked("not")
  /\ Go(Call(Here, Arg(1), [k |-> "not"], stack))
  /\ UNCHANGED <<scopes, funs, num, out, prompt>>

RetNot ==
  /\ Returned("not")
  /\ \E b \in Truth(Value) : Go(Leave(Bool(~ b), Below))
  /\ UNCHANGED <<scopes, funs, num, out, prompt>>

-----------------------------------------------------------------------------
(* + evaluates all its arguments to find errors, then the first for its    *)
(* type, then all of them again for the sum.                               *)

bl_oper_add ==
  /\ Invoked("+")
  /\ Go(IF Args = <<>> THEN Leave(Err("INSUFFICIENT_ARGS"), stack)
        ELSE bl_eval_cons(Here, Args, <<>>,
                          <<[k |-> "add1", ctx |-> Here, l |-> Args]>> \o stack))
  /\ UNCHANGED <<scopes, funs, num, out, prompt>>

RetAdd1 ==
  /\ Returned("add1")
  /\ Go(IF IsErr(Value) THEN Leave(Value, Below)
        ELSE Call(Top.ctx, Head(Top.l), [Top EXCEPT !.k = "add2"], Below))
  /\ UNCHANGED <<scopes, funs, num, out, prompt>>

(* The arguments l are still to be added to what there is.                 *)
AddNext(c, l, mode, acc) ==
  IF l # <<>>
  THEN /\ Go(Call(c, Head(l), [k |-> "add3", ctx |-> c, l |-> Tail(l),
                               mode |-> mode, acc |-> acc], Below))
       /\ UNCHANGED num
  ELSE IF mode = "num" THEN NewNum(acc, Below)
  ELSE Go(Leave(IF mode = "list" THEN List(acc) ELSE Str, Below)) /\ UNCHANGED num

(* One argument that is a list stands for the arguments.                   *)
RetAdd2 ==
  /\ Returned("add2")
  /\ LET spread == IsList(Value) /\ Len(Top.l) = 1
         first == IF spread THEN Head(Value.l) ELSE Value
     IN  AddNext(Top.ctx, IF spread THEN Value.l ELSE Top.l,
                 IF first.t \in {"num", "list"} THEN first.t ELSE "str",
                 IF first.t = "list" THEN <<>> ELSE 0)
  /\ UNCHANGED <<scopes, funs, out, prompt>>

(* Lists are joined, and what is no list becomes an element.               *)
RetAdd3 ==
  /\ Returned("add3")
  /\ AddNext(Top.ctx, Top.l, Top.mode,
             IF Top.mode = "list" THEN Top.acc \o (IF IsList(Value) THEN Value.l ELSE <<Value>>)
             ELSE Top.acc + IntOf(Value))
  /\ UNCHANGED <<scopes, funs, out, prompt>>

-----------------------------------------------------------------------------
(* Parts of lists, and questions about values *)

(* The car and the cdr of what should be a list.  A symbol has its id in   *)
(* the place of the cdr, a number the size of its digits, and an error     *)
(* about arguments how many were expected.                                 *)
Car(v) ==
  IF IsList(v) THEN Item(v.l, 1)
  ELSE IF v.t \in {"null", "num", "NULL"} \/ v = Bool(FALSE) THEN NULL ELSE Wild
CdrField(v) ==
  IF IsList(v) THEN Cdr(v.l)
  ELSE IF v.t \in {"num", "sym"} THEN Wild
  ELSE IF IsErr(v) /\ v.e \in {"INSUFFICIENT_ARGS", "TOOMANY_ARGS", "INVALID_ARGTYPE"} THEN Wild
  ELSE NULL

(* The list meant by the arguments' value: (first L) and (first 1 2 3).    *)
ListMeant(v) == IF IsList(v) /\ Len(v.l) = 1 THEN v.l[1] ELSE v

bl_oper_first == Invoked("first") /\ EvalParams("first")
bl_oper_second == Invoked("second") /\ EvalParams("second")
bl_oper_rest == Invoked("rest") /\ EvalParams("rest")
bl_oper_type == Invoked("type") /\ EvalParams("type")
bl_oper_serexp == Invoked("serexp") /\ EvalParams("serexp")
bl_oper_profile == Invoked("profile") /\ EvalParams("profile")

RetPart ==
  /\ \/ /\ Returned("first")
        /\ Go(Leave(NullIfNone(Car(ListMeant(Value))), Below))
     \/ /\ Returned("second")
        /\ Go(Leave(NullIfNone(Car(CdrField(ListMeant(Value)))), Below))
     \/ /\ Returned("type")
        /\ Go(Leave(IF IsErr(Value) THEN Value
                    ELSE [t |-> "type", ty |-> Value.l[1].t], Below))
     \/ /\ Returned("serexp") \/ Returned("profile")
        /\ Go(Leave(Str, Below))
  /\ UNCHANGED <<scopes, funs, num, out, prompt>>

(* rest evaluates a single argument's value once more.                     *)
RetRest ==
  /\ \/ /\ Returned("rest") /\ bl_list_len(Value) = 1
        /\ Go(Call(Top.ctx, Car(Value), [k |-> "rest2"], Below))
     \/ /\ (Returned("rest") /\ bl_list_len(Value) # 1) \/ Returned("rest2")
        /\ Go(Leave(NullIfNone(CdrField(Value)), Below))
  /\ UNCHANGED <<scopes, funs, num, out, prompt>>

(* third evaluates a single argument, and nothing when there are more.     *)
bl_oper_third ==
  /\ Invoked("third")
  /\ Go(IF Len(Args) = 1 THEN Call(Here, Arg(1), [k |-> "third"], stack)
        ELSE Leave(NullIfNone(Arg(3)), stack))
  /\ UNCHANGED <<scopes, funs, num, out, prompt>>

RetThird ==
  /\ Returned("third")
  /\ Go(Leave(IF IsList(Value) THEN NullIfNone(Item(Value.l, 3)) ELSE Null, Below))
  /\ UNCHANGED <<scopes, funs, num, out, prompt>>

bl_oper_isset ==
  /\ Invoked("isset")
  /\ Go(Leave(Bool(bl_ctx_get(Here, Arg(1).s) # NULL), stack))
  /\ UNCHANGED <<scopes, funs, num, out, prompt>>

(* aget and filtered evaluate two arguments; aget's second is a list of    *)
(* pairs, of which the last one with the name counts.                      *)
bl_oper_aget == Invoked("aget") /\ Both("aget")
bl_oper_filtered == Invoked("filtered") /\ Both("filtered")

aget(x, l) ==
  LET hits == {i \in 1..Len(l) : IsList(l[i]) /\ Car(l[i]) = Sym(x)}
  IN  IF \E i \in 1..Len(l) : ~ IsList(l[i]) THEN Err("PARSE")
      ELSE IF hits = {} THEN Err("SYMBOL_NOTFOUND")
      ELSE NullIfNone(Item(l[CHOOSE i \in hits : \A j \in hits : j <= i].l, 2))

(* What is left of l without the numbers that items has.                   *)
filtered(l, items) ==
  LET keep == SelectSeq(l, LAMBDA v : ~ \E i \in 1..Len(items) : IntOf(items[i]) = IntOf(v))
  IN  IF keep = <<>> THEN Null ELSE List(keep)

RetLookup ==
  /\ Returned("both2") /\ Top.op \in {"aget", "filtered"}
  /\ IsList(Value) /\ (Top.op = "filtered" => IsList(Top.v))
  /\ Go(Leave(IF Top.op = "aget" THEN aget(Top.v.s, Value.l)
              ELSE filtered(Top.v.l, Value.l), Below))
  /\ UNCHANGED <<scopes, funs, num, out, prompt>>

-----------------------------------------------------------------------------
(* Output and loops *)

(* print evaluates all its arguments to find errors, then each of them     *)
(* again to print it.                                                      *)
bl_oper_print ==
  /\ Invoked("print")
  /\ Go(bl_eval_cons(Here, Params, <<>>,
                     <<[k |-> "print1", ctx |-> Here, l |-> Params]>> \o stack))
  /\ UNCHANGED <<scopes, funs, num, out, prompt>>

PrintNext(c, l, stk) ==
  IF l = <<>> THEN Leave(Null, stk)
  ELSE Call(c, Head(l), [k |-> "print2", ctx |-> c, l |-> Tail(l)], stk)

RetPrint1 ==
  /\ Returned("print1")
  /\ Go(IF IsErr(Value) THEN Leave(Value, Below) ELSE PrintNext(Top.ctx, Top.l, Below))
  /\ UNCHANGED <<scopes, funs, num, out, prompt>>

Shown(v) == IF v.t = "num" THEN [t |-> "int", i |-> num[v.r]] ELSE v

RetPrint2 ==
  /\ Returned("print2")
  /\ out' = Append(out, Shown(Value))
  /\ Go(PrintNext(Top.ctx, Top.l, Below))
  /\ UNCHANGED <<scopes, funs, num, prompt>>

(* foreach takes no notice of what its body returns, and leaves its        *)
(* variable unset.                                                         *)
bl_oper_foreach ==
  /\ Invoked("foreach")
  /\ Go(Call(Here, Arg(2), [k |-> "each0", ctx |-> Here, s |-> Arg(1).s, e |-> Arg(3)], stack))
  /\ UNCHANGED <<scopes, funs, num, out, prompt>>

EachNext(c, s, e, items) ==
  IF items = <<>>
  THEN bl_ctx_set(c, s, NULL) /\ Go(Leave(Null, Below))
  ELSE /\ bl_ctx_set(c, s, Head(items))
       /\ Go(Call(c, e, [k |-> "each", ctx |-> c, s |-> s, e |-> e, l |-> Tail(items)], Below))

RetEach0 ==
  /\ Returned("each0")
  /\ EachNext(Top.ctx, Top.s, Top.e,
              IF IsList(Value) THEN Value.l ELSE <<IF IsErr(Value) THEN Wild ELSE NULL>>)
  /\ UNCHANGED <<chain, redirect, funs, num, out, prompt>>

RetEach ==
  /\ Returned("each")
  /\ EachNext(Top.ctx, Top.s, Top.e, Top.l)
  /\ UNCHANGED <<chain, redirect, funs, num, out, prompt>>

(* map binds the first parameter and evaluates the expressions of the      *)
(* body itself; each of them contributes a result.                         *)
bl_oper_map ==
  /\ Invoked("map")
  /\ Go(bl_eval_cons(Here, Params, <<>>, <<[k |-> "map1"]>> \o stack))
  /\ UNCHANGED <<scopes, funs, num, out, prompt>>

MapItem(f, l, acc) ==
  LET c == funs[f].inner
  IN  IF l = <<>> THEN Go(Leave(List(acc), Below)) /\ UNCHANGED bind
      ELSE /\ bind' = [bind EXCEPT ![c] = With(@, funs[f].params[1], Head(l))]
           /\ Go(Call(c, funs[f].body[1],
                      [k |-> "map", f |-> f, l |-> Tail(l), j |-> 1, acc |-> acc], Below))

RetMap1 ==
  /\ Returned("map1")
  /\ LET bad == bl_errif_invalid_fixed_args(Value, <<"func", "list">>)
     IN  IF bad = NULL
         THEN MapItem(Value.l[1].f, Value.l[2].l, <<>>)
         ELSE Go(Leave(bad, Below)) /\ UNCHANGED bind
  /\ UNCHANGED <<chain, redirect, funs, num, out, prompt>>

RetMap ==
  /\ Returned("map")
  /\ IF IsErr(Value) THEN Go(Leave(Value, Below)) /\ UNCHANGED bind
     ELSE IF Top.j < Len(funs[Top.f].body)
     THEN /\ Go(Call(funs[Top.f].inner, funs[Top.f].body[Top.j + 1],
                     [Top EXCEPT !.j = @ + 1, !.acc = Append(@, Value)], Below))
          /\ UNCHANGED bind
     ELSE MapItem(Top.f, Top.l, Append(Top.acc, Value))
  /\ UNCHANGED <<chain, redirect, funs, num, out, prompt>>

-----------------------------------------------------------------------------
(* Errors and eval *)

bl_oper_throw ==
  /\ Invoked("throw")
  /\ LET bad == bl_errif_invalid_len(Len(Args), 2, 2)
     IN  Go(IF bad = NULL THEN Call(Here, Arg(2), [k |-> "throw"], stack)
            ELSE Leave(bad, stack))
  /\ UNCHANGED <<scopes, funs, num, out, prompt>>

RetThrow ==
  /\ Returned("throw")
  /\ Go(Leave(Err("BL_CUSTOM"), Below))
  /\ UNCHANGED <<scopes, funs, num, out, prompt>>

bl_oper_try ==
  /\ Invoked("try")
  /\ Go(Call(Here, Arg(1), [k |-> "try", ctx |-> Here, l |-> From(Args, 2)], stack))
  /\ UNCHANGED <<scopes, funs, num, out, prompt>>

IsClause(e, x) == IsList(e) /\ Len(e.l) = 3 /\ Head(e.l) = Sym(x)
BadClauses(l) == {i \in 1..Len(l) : ~ IsClause(l[i], "catch") /\ ~ IsClause(l[i], "finally")}

(* The type of error that a catch clause names.                            *)
CatchErr(c, e) == bl_ctx_get(c, e.l[2].s)

Catches(c, e, err) == IsClause(e, "catch") /\ CatchErr(c, e) \in {err, Err("ANY")}

(* The last of the clauses that qualify counts.                            *)
LastOf(S) == CHOOSE i \in S : \A j \in S : j <= i

(* No error: the clauses are not even looked at.  An error: *ERR* holds it *)
(* while the handler, or the error itself when there is none, is evaluated *)
(* and after that the finally clause.                                      *)
RetTry ==
  /\ Returned("try")
  /\ IF ~ IsErr(Value) THEN Go(Leave(Value, Below)) /\ UNCHANGED bind
     ELSE LET c == Top.ctx
              l == Top.l
              H == {i \in 1..Len(l) : Catches(c, l[i], Value)}
              F == {i \in 1..Len(l) : IsClause(l[i], "finally")}
          IN  /\ bl_ctx_set(c, ErrVar, Value)
              /\ Go(IF BadClauses(l) # {} THEN Leave(Err("PARSE"), Below)
                    ELSE Call(c, IF H = {} THEN Value ELSE l[LastOf(H)].l[3],
                              [k |-> "handler", ctx |-> c,
                               fin |-> IF F = {} THEN <<>> ELSE <<l[LastOf(F)].l[2]>>], Below))
  /\ UNCHANGED <<chain, redirect, funs, num, out, prompt>>

RetHandler ==
  /\ Returned("handler")
  /\ Go(IF Top.fin = <<>> THEN Leave(Value, Below) ELSE Jump(Top.ctx, Top.fin[1], Below))
  /\ UNCHANGED <<scopes, funs, num, out, prompt>>

bl_oper_eval ==
  /\ Invoked("eval")
  /\ Go(Call(Here, Cdr(Expr.l), [k |-> "evalarg", ctx |-> Here], stack))
  /\ UNCHANGED <<scopes, funs, num, out, prompt>>

RetEval ==
  /\ Returned("evalarg")
  /\ Go(IF IsErr(Value) THEN Leave(Value, Below)
        ELSE IF IsList(Value) /\ Len(Value.l) = 1 THEN Jump(Top.ctx, Value.l[1], Below)
        ELSE Jump(Top.ctx, Value, Below))
  /\ UNCHANGED <<scopes, funs, num, out, prompt>>

-----------------------------------------------------------------------------
(* Accesses through pointers to nothing *)

(* The frames whose code looks at the value that comes back; set, a        *)
(* function's body and foreach only pass it on or drop it.                 *)
LooksAtValue ==
  IF stack = <<>> THEN TRUE ELSE Top.k \notin {"set", "body", "each", "throw", "both1", "handler",
                                              "profile"}

Faults ==
  \/ ctl.op = "ret" /\ Value = Wild /\ LooksAtValue
  \/ Evaluating("wild") \/ Calling("wild")
  \/ Calling("oper") /\ NoNames(funs[Callee.f].params, Len(Args))
  \/ Returned("args") /\ NoNames(funs[Top.f].params, Top.n)
  \/ Returned("tail") /\ NoNames(funs[Top.f].params, bl_list_len(Value))
  \/ (Invoked("inc") \/ Invoked("dec")) /\ bl_ctx_get(Here, Arg(1).s) \in {NULL, Wild}
  \/ Returned("both2") /\ Top.v = Wild
  \/ Returned("both2") /\ Top.op = "%" /\ IntOf(Value) = 0
  \/ Returned("both2") /\ Top.op = "filtered" /\ (Top.v.t = "num" \/ IsErr(Top.v))
  \/ Returned("type") /\ Value = Null
  \/ (Returned("first") \/ Returned("second")) /\ IsErr(Value)
  \/ Returned("second") /\ CdrField(ListMeant(Value)) = Wild
  \/ Returned("third") /\ CdrField(Value) = Wild
  \/ Returned("tail") /\ CdrField(Value) = Wild /\ Car(Value) # NULL
  \/ /\ Returned("args") /\ CdrField(Value) = Wild
     /\ Top.n > 0 /\ Len(funs[Top.f].params) > 1
  \/ /\ Returned("map1") /\ bl_errif_invalid_fixed_args(Value, <<"func", "list">>) = NULL
     /\ funs[Value.l[1].f].params = <<>>
  \/ /\ Returned("try") /\ IsErr(Value)
     /\ \E i \in 1..Len(Top.l) : /\ IsClause(Top.l[i], "catch")
                                 /\ CatchErr(Top.ctx, Top.l[i]) = NULL
                                 /\ \A j \in BadClauses(Top.l) : i < j

Crash ==
  /\ Faults
  /\ ctl' = Crashed /\ stack' = <<>>
  /\ UNCHANGED <<scopes, funs, num, out, prompt>>

-----------------------------------------------------------------------------
(* The prompt *)

Init ==
  /\ ctl = Idle /\ stack = <<>>
  /\ bind = <<Standard, With(Unbound, "quit", Native("quit"))>>
  /\ chain = << <<1>>, <<2, 1>> >>
  /\ redirect = <<FALSE, FALSE>>
  /\ funs = <<>> /\ num = Lit /\ out = <<>>
  /\ \E s \in Sessions : todo = s[1] /\ left = s[2]
  /\ form = "none" /\ result = NULL

Submit(f) ==
  /\ ctl = Idle /\ left > 0
  /\ left' = left - 1
  /\ todo' = todo \ {f} /\ form' = f /\ result' = NULL
  /\ Go(Jump(2, Form[f], <<>>))
  /\ UNCHANGED <<scopes, funs, num, out>>

Answer ==
  /\ ctl.op = "ret" /\ stack = <<>> /\ Value # Wild
  /\ result' = Value
  /\ ctl' = Idle
  /\ UNCHANGED <<stack, scopes, funs, num, out, todo, left, form>>

(* (quit) saves the history and ends the process.                          *)
quit_cmd ==
  /\ Invoked("quit")
  /\ ctl' = Ended /\ stack' = <<>>
  /\ UNCHANGED <<scopes, funs, num, out, prompt>>

Natives ==
  \/ bl_oper_set \/ bl_oper_fn \/ bl_oper_fun \/ bl_oper_oper \/ bl_oper_inc \/ bl_oper_dec
  \/ bl_oper_quote \/ bl_oper_sub \/ bl_oper_mult \/ bl_oper_div \/ bl_oper_mod
  \/ bl_oper_lt \/ bl_oper_gt \/ bl_oper_eq \/ bl_oper_and \/ bl_oper_or \/ bl_oper_xor
  \/ bl_oper_not \/ bl_oper_add \/ bl_oper_print \/ bl_oper_first \/ bl_oper_second
  \/ bl_oper_third \/ bl_oper_rest \/ bl_oper_type \/ bl_oper_serexp \/ bl_oper_profile
  \/ bl_oper_isset \/ bl_oper_aget \/ bl_oper_filtered \/ bl_oper_foreach \/ bl_oper_map
  \/ bl_oper_throw \/ bl_oper_try \/ bl_oper_eval \/ quit_cmd

NativeResume ==
  \/ RetSet \/ RetArithmetic \/ RetBoth1 \/ RetBoth2 \/ RetNot \/ RetAdd1 \/ RetAdd2
  \/ RetAdd3 \/ RetPart \/ RetRest \/ RetThird \/ RetLookup
  \/ RetPrint1 \/ RetPrint2 \/ RetEach0 \/ RetEach \/ RetMap1 \/ RetMap
  \/ RetThrow \/ RetTry \/ RetHandler \/ RetEval

(* A step of the interpreter: a fault comes before what it cuts short.     *)
Step ==
  \/ /\ ~ Faults
     /\ \/ ctl.op = "eval" /\ bl_eval
        \/ ctl.op = "native" /\ Natives
        \/ ctl.op = "ret" /\ (Resume \/ NativeResume \/ Answer)
        \/ bl_eval_funcbody
  \/ Crash

Next == (\E f \in todo : Submit(f)) \/ Step

(* One thread runs the interpreter, and goes on while it has work; nobody  *)
(* has to type anything.                                                   *)
Spec == Init /\ [][Next]_vars /\ WF_vars(Step)

-----------------------------------------------------------------------------
(* Every value and expression in play is well formed: it refers to number  *)
(* cells, functions and names that exist, at any depth of nesting that     *)
(* occurs.                                                                 *)
ValueOK(v) ==
  /\ v.t = "num" => v.r \in 1..Len(num)
  /\ v.t \in {"func", "oper"} => v.f \in 1..Len(funs)
  /\ v.t = "sym" => v.s \in Names

TypeOK ==
  /\ ctl.op \in {"idle", "crash", "end", "eval", "native", "ret", "body", "bodyif"}
  /\ Len(bind) = Len(chain) /\ Len(redirect) = Len(chain) /\ bind[1] = Standard
  /\ \A c \in 1..Len(chain) :
       /\ chain[c] # <<>> /\ Head(chain[c]) = c
       /\ \A i \in 1..Len(chain[c]) : chain[c][i] \in 1..c
       /\ redirect[c] => Len(chain[c]) > 1
       /\ c > 1 => \A x \in DOMAIN bind[c] : x \in Names /\ ValueOK(bind[c][x])
  /\ \A f \in 1..Len(funs) :
       funs[f].inner \in 1..Len(chain) /\ funs[f].lexical \in 1..Len(chain)
  /\ ctl.op = "ret" => ValueOK(ctl.v)
  /\ Len(stack) <= MaxStack /\ left \in Nat

(* A list that evaluation has built holds no error: bl_eval_cons returns   *)
(* the first error in place of the list (eval.c:39), so an error is never  *)
(* carried on as data inside a list of arguments or results.               *)
NoErrorInLists ==
  \A v \in UNION {{bind[c][x] : x \in DOMAIN bind[c]} : c \in 1..Len(bind)} \cup {result} :
     IsList(v) => \A i \in 1..Len(v.l) : ~ IsErr(v.l[i])
=============================================================================
