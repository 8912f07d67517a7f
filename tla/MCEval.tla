------------------------------- MODULE MCEval --------------------------------
(* Sessions at the prompt: any choice of the forms below, in any order.    *)
EXTENDS Builtins, TLC

Natives_ == {"=", "fn", "fun", "oper", "inc", "dec", "quote", "-", "lt", "+", "print",
             "foreach", "map", "throw", "try", "eval", "*", "/", "%", "gt", "eq", "and", "or",
             "xor", "not", "first", "second", "third", "rest", "type", "serexp", "profile",
             "isset", "aget", "filtered"}
Vars == {"x", "y", "f", "g", "h", "o", "loop"}
Parameters == {"a", "b", "n", "k", "p", "i"}
ErrTable == [x \in {"ERR_ANY", "ERR_SYMBOL_NOTFOUND"} |->
               IF x = "ERR_ANY" THEN "ANY" ELSE "SYMBOL_NOTFOUND"]
QuotedTable == [x \in {"'x"} |-> "x"]
AllNames == Natives_ \cup Vars \cup Parameters \cup DOMAIN ErrTable \cup DOMAIN QuotedTable
            \cup {"True", "False", "None", "*ERR*", "bacon", "quit"}

(* Number literals: one cell for each place in the source, except that     *)
(* places whose number no form can reach with inc or dec may share.        *)
Cells == <<1, 1, 2, 0, 1, 1, 5, 6, 7, 3, 1, 2, 3, 8, 9, 1, 2, 4, 5, 6, 7, 0, 1, 5, 1>>

L2(a, b) == List(<<a, b>>)
L3(a, b, c) == List(<<a, b, c>>)
L4(a, b, c, d) == List(<<a, b, c, d>>)
S(x) == Sym(x)

(* (= x 1) *)
SetX == L3(S("="), S("x"), Num(1))
(* (fun f (a) (inc a) (- a 1)) *)
DefF == List(<<S("fun"), S("f"), List(<<S("a")>>), L2(S("inc"), S("a")),
               L3(S("-"), S("a"), Num(2))>>)
(* (f x) *)
CallF == L2(S("f"), S("x"))
(* (fun g (n k) (if (lt n 1) k (g (- n 1) (+ k n)))) *)
DefG == L4(S("fun"), S("g"), L2(S("n"), S("k")),
           L4(If, L3(S("lt"), S("n"), Num(5)), S("k"),
              L3(S("g"), L3(S("-"), S("n"), Num(6)), L3(S("+"), S("k"), S("n")))))
(* (g 2 0) *)
CallG == L3(S("g"), Num(3), Num(4))
(* (oper o (p) (= y p) (eval p)) *)
DefO == List(<<S("oper"), S("o"), List(<<S("p")>>), L3(S("="), S("y"), S("p")),
               L2(S("eval"), S("p"))>>)
(* (o x) *)
CallO == L2(S("o"), S("x"))
(* (do (= y 5) bacon (= x 6)) *)
DoErr == L4(Do, L3(S("="), S("y"), Num(7)), S("bacon"), L3(S("="), S("x"), Num(8)))
(* (try (print bacon (= x 7)) (catch ERR_SYMBOL_NOTFOUND 3)) *)
TryErr == L3(S("try"), L3(S("print"), S("bacon"), L3(S("="), S("x"), Num(9))),
             L3(S("catch"), S("ERR_SYMBOL_NOTFOUND"), Num(10)))
(* (foreach i (1 2) (= y i)) *)
Each == L4(S("foreach"), S("i"), L2(Num(11), Num(12)), L3(S("="), S("y"), S("i")))
(* (= y (map f (x 2))) *)
MapF == L3(S("="), S("y"), L3(S("map"), S("f"), L2(S("x"), Num(17))))
(* (while (lt x 3) (inc x)) *)
Loop == L3(While, L3(S("lt"), S("x"), Num(13)), L2(S("inc"), S("x")))
(* (= y (map (fn (a) (- a 1)) (x 2))) *)
MapFn == L3(S("="), S("y"),
            L3(S("map"), L3(S("fn"), List(<<S("a")>>), L3(S("-"), S("a"), Num(25))), L2(S("x"), Num(17))))
(* (while bacon bacon) *)
LoopErr == L3(While, S("bacon"), S("bacon"))
(* (f bacon) *)
BadArg == L2(S("f"), S("bacon"))
(* (= y (1 bacon x)) *)
ListErr == L3(S("="), S("y"), L3(Num(16), S("bacon"), S("x")))
(* (print (f x) 'x) *)
PrintF == L3(S("print"), CallF, S("'x"))

(* (fun loop (a b) (= y b) (loop b a)) *)
DefLoop == List(<<S("fun"), S("loop"), L2(S("a"), S("b")), L3(S("="), S("y"), S("b")),
                  L3(S("loop"), S("b"), S("a"))>>)
(* (loop 8 9) *)
CallLoop == L3(S("loop"), Num(14), Num(15))
(* (try (f bacon) (catch ERR_ANY 3)) *)
TryCall == L3(S("try"), BadArg, L3(S("catch"), S("ERR_ANY"), Num(10)))

(* (try (throw oops ()) (catch ERR_SYMBOL_NOTFOUND 3) (catch ERR_ANY (dec x))  *)
(*      (finally (quote y) None))                                          *)
Throw == List(<<S("try"), L3(S("throw"), S("bacon"), List(<<>>)),
                L3(S("catch"), S("ERR_SYMBOL_NOTFOUND"), Num(10)),
                L3(S("catch"), S("ERR_ANY"), L2(S("dec"), S("x"))),
                L3(S("finally"), L2(S("quote"), S("y")), S("None"))>>)
(* (fun h (a) (fn () a)) *)
DefH == L4(S("fun"), S("h"), List(<<S("a")>>), L3(S("fn"), List(<<>>), S("a")))
(* (= f (h 4)) *)
MakeClosure == L3(S("="), S("f"), L2(S("h"), Num(18)))
(* (= g (h 5)) *)
SecondClosure == L3(S("="), S("g"), L2(S("h"), Num(24)))
(* (f) *)
CallClosure == List(<<S("f")>>)
(* (= y (if False (ERR_ANY 5))) *)
HalfIf == L3(S("="), S("y"), L3(If, S("False"), L2(S("ERR_ANY"), Num(19))))
(* (do (ERR_ANY 5) (= x 6)) *)
CallError == L3(Do, L2(S("ERR_ANY"), Num(19)), L3(S("="), S("x"), Num(8)))

(* (fun h (n k) k) *)
DefPair == L4(S("fun"), S("h"), L2(S("n"), S("k")), S("k"))
(* (h 6 7) and (h 6) *)
CallBoth == L3(S("h"), Num(20), Num(21))
CallOne == L2(S("h"), Num(20))
(* (foreach x (1 2) (do (= y x) bacon)) *)
EachErr == L4(S("foreach"), S("x"), L2(Num(11), Num(12)),
              L3(Do, L3(S("="), S("y"), S("x")), S("bacon")))
(* (try (/ 6 0) (catch ERR_ANY 3 times 6)) *)
DivZero == L3(S("try"), L3(S("/"), Num(20), Num(22)),
              L3(S("catch"), S("ERR_ANY"), L3(S("*"), Num(10), Num(20))))
(* (/ 7 2) and (% 7 2), (% 7 0) *)
Div == L3(S("/"), Num(21), Num(17))
Mod == L3(S("%"), Num(21), Num(17))
ModZero == L3(S("%"), Num(21), Num(22))
(* (if (and (gt 7 6) (or (not bacon) (xor True (eq x None)))) (third (1 2 6)) x) *)
Logic == L4(If, L3(S("and"), L3(S("gt"), Num(21), Num(20)),
                   L3(S("or"), L2(S("not"), S("bacon")),
                      L3(S("xor"), S("True"), L3(S("eq"), S("x"), S("None"))))),
            L2(S("third"), L3(Num(16), Num(17), Num(20))), S("x"))
(* (= x (rest (+ (1 2) (6 7)))) and (= x (+ ((1 2)))) *)
Joined == L3(S("="), S("x"), L2(S("rest"), L3(S("+"), L2(Num(16), Num(17)), L2(Num(20), Num(21)))))
Spread == L3(S("="), S("x"), L2(S("+"), L2(Num(16), Num(17))))
(* (= y (filtered x (2 6))) *)
Filtered == L3(S("="), S("y"), L3(S("filtered"), S("x"), L2(Num(17), Num(20))))
(* (aget 'x (quote ((y 6) (x 7)))) *)
Aget == L3(S("aget"), S("'x"), L2(S("quote"), L2(L2(S("y"), Num(20)), L2(S("x"), Num(21)))))
(* (first x), (second x) and (rest x 7) *)
First == L2(S("first"), S("x"))
Second == L2(S("second"), S("x"))
RestTwo == L3(S("rest"), Num(20), Num(21))
(* (eq (type x) (type (1 2))) *)
SameType == L3(S("eq"), L2(S("type"), S("x")), L2(S("type"), L2(Num(16), Num(17))))
(* (do (profile (= y 6)) (+ (serexp x) (isset x)) (print)) *)
Profile == L4(Do, L2(S("profile"), L3(S("="), S("y"), Num(20))),
              L3(S("+"), L2(S("serexp"), S("x")), L2(S("isset"), S("x"))), List(<<S("print")>>))
(* (quit) and (+) *)
Quit == List(<<S("quit")>>)
AddNothing == List(<<S("+")>>)

(* The forms by name.                                                      *)
FormTable ==
  "SetX" :> SetX @@ "DefF" :> DefF @@ "CallF" :> CallF @@ "DefG" :> DefG @@
  "CallG" :> CallG @@ "DefO" :> DefO @@ "CallO" :> CallO @@ "DoErr" :> DoErr @@
  "TryErr" :> TryErr @@ "Each" :> Each @@ "MapF" :> MapF @@ "Loop" :> Loop @@
  "BadArg" :> BadArg @@ "ListErr" :> ListErr @@ "PrintF" :> PrintF @@ "DefLoop" :> DefLoop @@
  "CallLoop" :> CallLoop @@ "TryCall" :> TryCall @@ "Throw" :> Throw @@
  "DefH" :> DefH @@ "MakeClosure" :> MakeClosure @@ "CallClosure" :> CallClosure @@
  "SecondClosure" :> SecondClosure @@ "MapFn" :> MapFn @@ "LoopErr" :> LoopErr @@ "HalfIf" :> HalfIf @@
  "CallError" :> CallError @@ "DefPair" :> DefPair @@ "CallBoth" :> CallBoth @@ "CallOne" :> CallOne @@
  "EachErr" :> EachErr @@ "DivZero" :> DivZero @@ "Div" :> Div @@ "Mod" :> Mod @@
  "ModZero" :> ModZero @@ "Logic" :> Logic @@ "Joined" :> Joined @@ "Spread" :> Spread @@
  "Filtered" :> Filtered @@ "Aget" :> Aget @@ "First" :> First @@ "Second" :> Second @@
  "RestTwo" :> RestTwo @@ "SameType" :> SameType @@ "Profile" :> Profile @@ "Quit" :> Quit @@
  "AddNothing" :> AddNothing

(* The runs differ in the forms they choose from.                          *)
SessionForms == {"SetX", "DefF", "CallF", "DefG", "CallG", "DefO", "CallO", "DoErr", "TryErr", "Each", "MapF",
                 "Loop", "BadArg", "ListErr", "PrintF"}
CallForms == {"SetX", "DefF", "DoErr", "DefLoop", "CallLoop", "Throw", "DefH", "MakeClosure",
              "SecondClosure", "CallClosure", "HalfIf", "CallError", "BadArg"}
OperatorForms == {"SetX", "DefPair", "CallBoth", "CallOne", "EachErr", "DivZero", "Div", "Mod", "ModZero", "Logic",
                  "Joined", "Spread", "Filtered", "Aget", "First", "Second", "RestTwo", "SameType", "Profile",
                  "Quit", "AddNothing", "MapFn", "LoopErr"}
AllSessions == {<<SessionForms, 4>>, <<CallForms, 4>>, <<OperatorForms, 3>>}
TryForms == {<<{"DefF", "TryCall"}, 2>>}

-----------------------------------------------------------------------------
Answered(e) == form = e /\ ctl = Idle

(* Whatever is submitted, the prompt comes back or the process is gone;    *)
(* only the function that is written to call itself forever does not end   *)
(* (main.c:171-193).                                                       *)
EveryFormEnds == ctl # Idle /\ form # "CallLoop" ~> ctl \in {Idle, Crashed, Ended}

(* A call that leaves out an argument finds in the parameter what the      *)
(* latest call that passed it had put there, and nothing when there was    *)
(* none: no other call and no other variable shows through (eval.c:27).    *)
MissingArgumentKept ==
  Answered("CallOne") /\ Var(2, "h") # NULL =>
    result \in {Err("SYMBOL_NOTFOUND"), Num(21)} /\ ("CallBoth" \in todo => IsErr(result))

(* foreach gives its variable every element in turn, although the body     *)
(* fails each time, and ends with the variable unset, whatever it was      *)
(* before (builtins.c:105-110).                                            *)
ForeachGoesOn ==
  Answered("EachErr") => result = Null /\ Var(2, "y") = Num(12) /\ Var(2, "x") = NULL

(* map gives one result for every element, in their order, when the body   *)
(* of the function is one expression; of a longer body, which the          *)
(* documentation of map does not provide for, nothing is said here         *)
(* (builtins.c:226-240).                                                   *)
MapCollectsEach ==
  /\ Answered("MapFn") /\ Var(2, "x") # NULL /\ Var(2, "x").t = "num"
  => LET x == Var(2, "x").r
         y == Var(2, "y")
     IN  /\ IsList(y) /\ Len(y.l) = 2 /\ {y.l[1].t, y.l[2].t} = {"num"}
         /\ num[y.l[1].r] = num[x] - 1 /\ num[y.l[2].r] = num[17] - 1

(* A function's parameters and assignments stay in its own context, however*)
(* deep the calls go (eval.c:176-178): no step of a form that only calls   *)
(* functions changes a binding of the prompt.  Numbers are another matter: *)
(* a parameter is bound to the caller's number itself, not to the copy     *)
(* that eval.c:16 speaks of, so the inc in the body of f steps the number  *)
(* in x.  That number is the only one that changes, and only upwards.      *)
FunctionsKeepOut ==
  [][ctl # Idle /\ form \in {"CallF", "CallG", "BadArg", "PrintF"} =>
       /\ bind'[2] = bind[2]
       /\ \A k \in 1..Len(num) : num'[k] # num[k] =>
            form \in {"CallF", "PrintF"} /\ Var(2, "x") = Num(k) /\ num'[k] = num[k] + 1]_vars

(* Parameters of functions and operators never become variables of the     *)
(* contexts they were defined in: bl_eval binds an operator's parameters   *)
(* before it throws the write_to_parent switch (eval.c:187-189).           *)
ParamsStayInside ==
  \A c \in {1, 2}, x \in Parameters \ {"i"} : Var(c, x) = NULL

(* What follows an error in a do, or in a list of arguments, never takes   *)
(* effect: the numbers assigned there reach no variable (eval.c:39, 152).  *)
NothingAfterError ==
  \A c \in 1..Len(bind), v \in {Num(8), Num(9)} : v \notin {bind[c][x] : x \in DOMAIN bind[c]}

(* An operator works on the expression it was given, in the context it was *)
(* defined in: (o x) leaves the symbol x in y and returns what x stands    *)
(* for, whatever was done before (eval.c:184-198).                         *)
OperatorReachesOut ==
  Answered("CallO") /\ Var(2, "o") # NULL =>
     /\ Var(2, "y") = Sym("x")
     /\ result = IF Var(2, "x") = NULL THEN Err("SYMBOL_NOTFOUND") ELSE Var(2, "x")

(* Recursion that carries its result along in a parameter is right: (g 2   *)
(* 0) is 2 + 1 + 0 in any session, although all calls of g share one       *)
(* context and bl_eval_funcbody evaluates the if, with the recursive call  *)
(* in it, twice (eval.c:69-82).                                            *)
AccumulatorIsRight ==
  Answered("CallG") /\ Var(2, "g") # NULL => result.t = "num" /\ num[result.r] = 3

(* An error that a catch clause names is replaced by the handler's value,  *)
(* whatever the session did before (builtins.c:158-191).                   *)
TryRecovers == Answered("TryErr") => result = Num(10)

(* One handler runs, once, before finally, whose value is the result: the  *)
(* clause for ERR_ANY applies to the thrown error and the other one does   *)
(* not, so the number in x is one less (builtins.c:170-192).               *)
HandlerThenFinally ==
  Answered("Throw") => /\ result = Sym("y") /\ num[1] = 0
                     /\ Var(2, "*ERR*") = Err("BL_CUSTOM")

(* A function made inside a call goes on seeing the parameters of the      *)
(* function it was made in when the call has returned (builtins.c:454-455),*)
(* whatever is evaluated in between.  They are those of the latest call,   *)
(* which need not be the one it was made in: all calls share one context   *)
(* (eval.c:177), so f, made by (h 4), sees 5 once (h 5) has made g.        *)
ClosureOutlivesCall ==
  Answered("CallClosure") /\ Var(2, "f").t = "func" /\ funs[Var(2, "f").f].params = <<>> =>
    LET calledAgain == /\ Var(2, "g") # NULL /\ Var(2, "g").t = "func"
                       /\ Var(2, "g").f > Var(2, "f").f
    IN  result = IF calledAgain THEN Num(24) ELSE Num(18)

(* The parameters of a tail call are bound all at once: (loop b a) keeps   *)
(* exchanging two values and never loses one (eval.c:77-78).               *)
TailCallRebindsAtOnce ==
  \A f \in 1..Len(funs) :
     LET c == funs[f].inner
     IN  funs[f].params = <<"a", "b">> /\ Var(c, "a") # NULL =>
           {Var(c, "a"), Var(c, "b")} = {Num(14), Num(15)}

(* Frames are kept apart, and every value and context is of its type.      *)
FramesApart == TypeOK /\ ParamsStayInside /\ OperatorReachesOut /\ ClosureOutlivesCall

(* A call binds what it was given and what it was not given, recursive     *)
(* calls in the one context they share; foreach and map bind each element  *)
(* in turn.                                                                *)
CallsBindAsWritten ==
  /\ AccumulatorIsRight /\ TailCallRebindsAtOnce /\ MissingArgumentKept
  /\ ForeachGoesOn /\ MapCollectsEach

(* An error stops what it is part of, is part of nothing else, and is      *)
(* handled once.                                                           *)
ErrorsHandled == NothingAfterError /\ NoErrorInLists /\ TryRecovers /\ HandlerThenFinally

(* try "Evaluates e, if an error occurs, evaluates handler"                *)
(* (builtins.inc:131): it is not the end of the process.                   *)
TryHandlesErrors == form = "TryCall" => ctl # Crashed
=============================================================================
