------------------------------- MODULE Reader --------------------------------
(***************************************************************************)
(* Reading and printing s-expressions (runtime/src/sexp.c), and the        *)
(* compiler stub that walks what has been read (blc/src/main.c).           *)
(*                                                                         *)
(* The input is the sequence of tokens of the scanner: <<"(">>, <<")">>    *)
(* and atoms.  An atom is also the value it is read as.  A list is         *)
(* <<"list", items>>; the empty one is a cell without a car.               *)
(***************************************************************************)
EXTENDS Integers, Sequences, SequencesExt

Left == <<"(">>
Right == <<")">>
EndOfList == <<"end">>   (* end_list_val                                   *)
Eof == <<"eof">>         (* NULL                                           *)
None == <<"none">>       (* bl_mk_null()                                   *)
Nothing == <<"nothing">>
List(items) == <<"list", items>>
IsList(v) == v[1] = "list"

-----------------------------------------------------------------------------
(* bl_ser_sexp, as the tokens its text is scanned to.  if is printed; do,  *)
(* while and docstrings print as nothing at all; strings are taken to      *)
(* contain no quotes.                                                      *)
RECURSIVE bl_ser_sexp(_)
bl_ser_sexp(v) ==
  CASE IsList(v) -> <<Left>> \o FlattenSeq([i \in 1..Len(v[2]) |-> bl_ser_sexp(v[2][i])]) \o <<Right>>
    [] v = None -> <<<<"sym", "None">>>>
    [] v[1] \in {"do", "while", "doc"} -> <<>>
    [] OTHER -> <<v>>

-----------------------------------------------------------------------------
(* Mutant: an element that is a list ends the list around it.              *)
EndsEarly(v) == v[1] \in {"end", "eof", "list"}

(* What makes read_list return.                                            *)
Ends(v) == v \in {EndOfList, Eof}

(* read_form and read_list, with the tokens they leave to the caller.      *)
(* read_form returns Eof as often as it is called at the end of the text;  *)
(* read_list, given the elements it has, returns at the end of its list or *)
(* of the text and appends anything else.                                  *)
RECURSIVE read_form(_), read_list(_, _)
read_form(toks) ==
  CASE toks = <<>> -> [val |-> Eof, toks |-> toks]
    [] toks # <<>> /\ toks[1] = Left -> read_list(Tail(toks), <<>>)
    [] toks # <<>> /\ toks[1] = Right -> [val |-> EndOfList, toks |-> Tail(toks)]
    [] OTHER -> [val |-> toks[1], toks |-> Tail(toks)]
read_list(toks, items) ==
  LET e == read_form(toks)
  IN  IF Ends(e.val) THEN [val |-> List(items), toks |-> e.toks]
      ELSE read_list(e.toks, Append(items, e.val))

(* bl_parse_sexp reads one form; bl_parse_file reads a list that has no    *)
(* left parenthesis.                                                       *)
bl_parse_sexp(toks) == LET e == read_form(toks) IN IF e.val = Eof THEN None ELSE e.val
bl_parse_file(toks) == read_list(toks, <<>>).val

-----------------------------------------------------------------------------
(* The compiler: what is written for an expression, as a sequence of marks.*)
Leaf(v) == <<"leaf", v>>

(* Mutant: the rest of a list is compiled before its first element.        *)
CellSwapped(car, cdr) == <<<<"{">>>> \o cdr \o car \o <<<<"}">>>>

Cell(car, cdr) == <<<<"{">>>> \o car \o cdr \o <<<<"}">>>>

(* compile_atom and compile_cons.  The call written for a number is not    *)
(* closed, and nothing is written for a docstring.                         *)
RECURSIVE compile_atom(_), compile_cons(_)
compile_atom(v) ==
  CASE v[1] = "list" -> compile_cons(v[2])
    [] v[1] = "int" -> <<<<"{">>, Leaf(v)>>
    [] v[1] = "doc" -> <<>>
    [] OTHER -> <<Leaf(v)>>
compile_cons(items) ==
  Cell(IF items = <<>> THEN <<Leaf(Nothing)>> ELSE compile_atom(items[1]),
       IF Len(items) < 2 THEN <<Leaf(Nothing)>> ELSE compile_cons(Tail(items)))

(* compile_fun of (fun name args [doc] expr ...).                          *)
compile_fun(form) ==
  LET body == SubSeq(form, IF form[4][1] = "doc" THEN 5 ELSE 4, Len(form))
  IN  [name |-> form[2], code |-> [i \in 1..Len(body) |-> compile_atom(body[i])]]

(* compile_file: assignments at the top level are skipped, functions       *)
(* compiled; anything else stops it, and what was written is left.  Bodies *)
(* are lists: the car of anything else is read as if it were one.  A file  *)
(* without a form is a cell without a car, which is looked into.           *)
compile_file(forms) ==
  LET heads == {<<"sym", "fun">>, <<"sym", "=">>}
      odd(f) == ~ IsList(f) \/ f[2] = <<>> \/ f[2][1] \notin heads
      stops == {i \in 1..Len(forms) : odd(forms[i])}
      n == IF stops = {} THEN Len(forms) ELSE (CHOOSE i \in stops : \A j \in stops : i <= j) - 1
      funs == SelectSeq(SubSeq(forms, 1, n), LAMBDA f : f[2][1] = <<"sym", "fun">>)
  IN  [crash |-> forms = <<>>, funs |-> [i \in 1..Len(funs) |-> compile_fun(funs[i][2])]]

-----------------------------------------------------------------------------
(* The tokens of a value: the reference the reader is compared with.       *)
RECURSIVE Tokens(_)
Tokens(v) ==
  IF IsList(v) THEN <<Left>> \o FlattenSeq([i \in 1..Len(v[2]) |-> Tokens(v[2][i])]) \o <<Right>>
  ELSE <<v>>

(* How deep the list is in which token i of t stands.                      *)
Depth(t, i) ==
  Len(SelectSeq(SubSeq(t, 1, i), LAMBDA x : x = Left))
    - Len(SelectSeq(SubSeq(t, 1, i), LAMBDA x : x = Right))

(* t up to the first right parenthesis that closes nothing, and the same   *)
(* with the parentheses that are missing at its end.                       *)
UpToStray(t) ==
  LET stray == {i \in 1..Len(t) : Depth(t, i) < 0}
  IN  IF stray = {} THEN t ELSE SubSeq(t, 1, (CHOOSE i \in stray : \A j \in stray : i <= j) - 1)
Completed(t) == t \o [i \in 1..Depth(t, Len(t)) |-> Right]

(* What bl_ser_sexp prints as something that is read as the same.          *)
RECURSIVE Printable(_)
Printable(v) ==
  IF IsList(v) THEN \A i \in 1..Len(v[2]) : Printable(v[2][i])
  ELSE v[1] \in {"int", "sym", "str", "if"}

RECURSIVE Atoms(_)
Atoms(v) ==
  IF IsList(v) THEN FlattenSeq([i \in 1..Len(v[2]) |-> Atoms(v[2][i])]) ELSE <<v>>
Count(s, x) == Len(SelectSeq(s, LAMBDA y : y = x))
=============================================================================
