-------------------------------- MODULE Lists --------------------------------
(***************************************************************************)
(* Lists as the runtime keeps them (runtime/src/list_ops.c): chains of     *)
(* cons cells that several names, and the source of the program, can       *)
(* refer to.  append changes the last cell of the chain it is given,       *)
(* prepend shares the whole chain, reverse and rest work on a copy that    *)
(* bl_eval makes of their argument (runtime/src/builtins.c).  The loops    *)
(* over a chain take a step for every cell, so that their end is a         *)
(* question and not an assumption.                                         *)
(*                                                                         *)
(* Cell NullVal is the value None: one object that everybody shares, and   *)
(* that has a car and a cdr like any other.  The elements of lists are     *)
(* numbers here.                                                           *)
(***************************************************************************)
EXTENDS Integers, SequencesExt

CONSTANTS
  Names,    (* the variables of the program                                *)
  Items,    (* the numbers in lists                                        *)
  Nil,      (* the C null pointer                                          *)
  MaxCells, (* bound: cells                                                *)
  MaxOps    (* bound: expressions typed, bodies of foreach included        *)

ASSUME ListsAssumption ==
  /\ MaxCells \in Nat /\ MaxCells >= 1 /\ MaxOps \in Nat
  /\ Nil \notin Nat /\ Nil \notin Items /\ Items \cap Nat = {} /\ Items # {}

NullVal == 0
Source == 1                       (* a quoted list of one number            *)
Cells == 0..MaxCells
Values == Items \cup {NullVal, Nil}

VARIABLES
  car, cdr, (* of every cell; both Nil in a cell not allocated             *)
  top,      (* the cells 0..top are allocated                              *)
  var,      (* var[x]: the list that x stands for, or Nil                  *)
  run,      (* the operation in progress                                   *)
  each,     (* the foreach in progress: its body, the cell it is at,       *)
            (* whether the body is next, the cells there were before it    *)
  done,     (* the operation that ended last                               *)
  ops       (* expressions typed, bodies included                          *)

heap == <<car, cdr, top>>
vars == <<car, cdr, top, var, run, each, done, ops>>

Idle == [op |-> "idle"]
Nothing == [op |-> "none"]

-----------------------------------------------------------------------------
(* What a chain of cells says *)

(* The cells from c on; a chain without an end is cut.                     *)
ChainIn(d, c) ==
  LET longer == [t \in Seq(Cells) |-> IF d[Last(t)] = Nil THEN t ELSE Append(t, d[Last(t)])]
      s[k \in Cells] == IF k = 0 THEN <<c>> ELSE longer[s[k - 1]]
  IN  IF c = Nil THEN <<>> ELSE s[MaxCells]

Chain(c) == ChainIn(cdr, c)

ElementsIn(a, d, c) ==
  LET l == ChainIn(d, c)
  IN  IF c = NullVal THEN <<>> ELSE [i \in 1..Len(l) |-> a[l[i]]]

Elements(c) == ElementsIn(car, cdr, c)

(* bl_list_len: None and a list whose first element is missing have none.  *)
bl_list_len(c) ==
  IF c = Nil \/ c = NullVal THEN 0 ELSE IF car[c] = Nil THEN 0 ELSE Len(Chain(c))

-----------------------------------------------------------------------------
(* The cells are made here *)

Room(n) == top + n <= MaxCells

(* bl_mk_val(BL_VAL_TYPE_CONS), with its fields.                           *)
NewCell(a, d) ==
  /\ Room(1)
  /\ top' = top + 1
  /\ car' = [car EXCEPT ![top + 1] = a]
  /\ cdr' = [cdr EXCEPT ![top + 1] = d]

(* .. and put after the cell p.                                            *)
NewLast(p, a) ==
  /\ Room(1)
  /\ top' = top + 1
  /\ car' = [car EXCEPT ![top + 1] = a]
  /\ cdr' = [cdr EXCEPT ![top + 1] = Nil, ![p] = top + 1]

-----------------------------------------------------------------------------
(* Operations, one expression (= x ...) each.  In a foreach they are its   *)
(* body, evaluated once for every cell.                                    *)

(* An expression may be evaluated: at the prompt, or as the body.          *)
Ready == run = Idle /\ (each # Idle => each.next)

BodyDone == each' = IF each = Idle THEN each ELSE [each EXCEPT !.next = FALSE]

Finish(x, v, how) ==
  /\ var' = [var EXCEPT ![x] = v]
  /\ done' = how
  /\ run' = Idle
  /\ BodyDone

(* (= x y), (= x None) and (= x (quote (1))): nothing is copied.         *)
bl_oper_set(x, v) ==
  /\ Ready
  /\ Finish(x, v, Nothing)
  /\ UNCHANGED heap

(* (= x (1)): bl_eval_cons makes a new list.                               *)
bl_eval_cons(x, i) ==
  /\ Ready
  /\ NewCell(i, Nil)
  /\ Finish(x, top + 1, Nothing)

bl_oper_prepend(x, y, i) ==
  /\ Ready /\ var[y] # Nil
  /\ NewCell(i, var[y])
  /\ Finish(x, top + 1, Nothing)

(* An operation that loops over the list of y begins.                      *)
Start(r) ==
  /\ Ready
  /\ run' = r /\ done' = Nothing
  /\ UNCHANGED <<heap, var, each>>

bl_oper_append(x, y, i) ==
  /\ var[y] # Nil /\ Room(1)
  /\ Start([op |-> "append", x |-> x, list |-> var[y], at |-> var[y], v |-> i,
            was |-> Elements(var[y])])

(* bl_eval of a list: None is itself, a list whose first element is        *)
(* missing is None, any other is copied cell by cell.                      *)
Copied(c) == c # NullVal /\ car[c] # Nil

(* The cells that this takes, and that the reversal takes then.            *)
CopyCells(c) == IF Copied(c) THEN Len(Chain(c)) ELSE 0
ReverseCells(c) == IF Copied(c) THEN Len(Chain(c)) ELSE Len(Chain(NullVal))

bl_oper_reverse(x, y) ==
  /\ var[y] # Nil /\ Room(CopyCells(var[y]) + ReverseCells(var[y]))
  /\ Start([op |-> "copy", next |-> "reverse", x |-> x, list |-> var[y],
            was |-> Elements(var[y]), at |-> var[y], first |-> Nil, last |-> Nil])

bl_oper_rest(x, y) ==
  /\ var[y] # Nil /\ Room(CopyCells(var[y]))
  /\ Start([op |-> "copy", next |-> "rest", x |-> x, list |-> var[y],
            was |-> Elements(var[y]), at |-> var[y], first |-> Nil, last |-> Nil])

(* The expressions there are, all of the form (= x ...).                   *)
Expressions ==
  [op : {"name", "reverse", "rest"}, x : Names, y : Names]
    \cup [op : {"value"}, x : Names, v : {NullVal, Source}]
    \cup [op : {"cons"}, x : Names, i : Items]
    \cup [op : {"prepend", "append"}, x : Names, y : Names, i : Items]

bl_eval(e) ==
  \/ e.op = "name" /\ var[e.y] # Nil /\ bl_oper_set(e.x, var[e.y])
  \/ e.op = "value" /\ bl_oper_set(e.x, e.v)
  \/ e.op = "cons" /\ bl_eval_cons(e.x, e.i)
  \/ e.op = "prepend" /\ bl_oper_prepend(e.x, e.y, e.i)
  \/ e.op = "append" /\ bl_oper_append(e.x, e.y, e.i)
  \/ e.op = "reverse" /\ bl_oper_reverse(e.x, e.y)
  \/ e.op = "rest" /\ bl_oper_rest(e.x, e.y)

(* The cells that evaluating e takes.                                      *)
CellsFor(e) ==
  IF e.op \in {"cons", "prepend", "append"} THEN 1
  ELSE IF e.op = "rest" THEN CopyCells(var[e.y])
  ELSE IF e.op = "reverse" THEN CopyCells(var[e.y]) + ReverseCells(var[e.y])
  ELSE 0

(* foreach over the list of y, with the body e.                            *)
bl_oper_foreach(y, e) ==
  /\ run = Idle /\ each = Idle /\ var[y] # Nil
  /\ "y" \in DOMAIN e => var[e.y] # Nil
  /\ each' = [op |-> "foreach", body |-> e, at |-> var[y], next |-> TRUE, old |-> top]
  /\ done' = Nothing
  /\ UNCHANGED <<heap, var, run>>

-----------------------------------------------------------------------------
(* The loops *)

Running(op) == run.op = op
How(k) == [op |-> k, x |-> run.x, list |-> run.list, was |-> run.was]
Appended == [op |-> "append", x |-> run.x, list |-> run.list, was |-> run.was, v |-> run.v]

(* Mutant: the walk to the last cell takes every step from the first one.  *)
AppendWalkFromFirst ==
  /\ Running("append") /\ cdr[run.at] # Nil
  /\ run' = [run EXCEPT !.at = cdr[run.list]]
  /\ UNCHANGED <<heap, var, each, done>>

AppendWalk ==
  /\ Running("append") /\ cdr[run.at] # Nil
  /\ run' = [run EXCEPT !.at = cdr[run.at]]
  /\ UNCHANGED <<heap, var, each, done>>

(* Mutant: the cell is put after the first one.                            *)
AppendToFirst ==
  /\ Running("append")
  /\ NewLast(run.list, run.v)
  /\ Finish(run.x, run.list, Appended)

bl_list_append ==
  /\ Running("append") /\ cdr[run.at] = Nil
  /\ NewLast(run.at, run.v)
  /\ Finish(run.x, run.list, Appended)

(* What the copy is for: rest takes the cdr, reverse begins its own loop.  *)
AfterCopy(c) ==
  IF run.next = "rest"
  THEN /\ Finish(run.x, IF cdr[c] = Nil THEN NullVal ELSE cdr[c], How("rest"))
       /\ UNCHANGED heap
  ELSE /\ run' = [op |-> "reverse", x |-> run.x, list |-> run.list, was |-> run.was,
                  at |-> c, acc |-> Nil]
       /\ UNCHANGED <<heap, var, each, done>>

(* bl_eval of an element; a missing one is None.                           *)
ElementOf(c) == IF car[c] = Nil THEN NullVal ELSE car[c]

CopyCell ==
  /\ run.at # Nil
  /\ IF run.last = Nil THEN NewCell(ElementOf(run.at), Nil)
                       ELSE NewLast(run.last, ElementOf(run.at))
  /\ run' = [run EXCEPT !.at = cdr[run.at], !.last = top + 1,
                        !.first = IF @ = Nil THEN top + 1 ELSE @]
  /\ UNCHANGED <<var, each, done>>

CopyWalk ==
  /\ Running("copy")
  /\ \/ ~ Copied(run.list) /\ AfterCopy(NullVal)
     \/ Copied(run.list) /\ CopyCell
     \/ Copied(run.list) /\ run.at = Nil /\ AfterCopy(run.first)

(* Mutant: a list of one element is its own reverse.                       *)
ReverseInPlace ==
  /\ Running("reverse")
  /\ IF run.at = Nil
     THEN Finish(run.x, run.acc, How("reverse")) /\ UNCHANGED heap
     ELSE IF run.acc = Nil /\ cdr[run.at] = Nil
     THEN Finish(run.x, run.list, How("reverse")) /\ UNCHANGED heap
     ELSE /\ NewCell(car[run.at], run.acc)
          /\ run' = [run EXCEPT !.at = cdr[run.at], !.acc = top + 1]
          /\ UNCHANGED <<var, each, done>>

bl_list_reverse ==
  /\ Running("reverse")
  /\ IF run.at = Nil
     THEN Finish(run.x, run.acc, How("reverse")) /\ UNCHANGED heap
     ELSE /\ NewCell(car[run.at], run.acc)
          /\ run' = [run EXCEPT !.at = cdr[run.at], !.acc = top + 1]
          /\ UNCHANGED <<var, each, done>>

(* The body of a foreach is done, the cell after this one is next: found   *)
(* now, when the body may have changed the list.                           *)
ForeachNext ==
  /\ run = Idle /\ each # Idle /\ ~ each.next
  /\ each' = IF cdr[each.at] = Nil THEN Idle
             ELSE [each EXCEPT !.at = cdr[each.at], !.next = TRUE]
  /\ UNCHANGED <<heap, var, run, done>>

Loops == AppendWalk \/ bl_list_append \/ CopyWalk \/ bl_list_reverse \/ ForeachNext

-----------------------------------------------------------------------------
Init ==
  /\ \E i \in Items : car = [c \in Cells |-> IF c = Source THEN i ELSE Nil]
  /\ cdr = [c \in Cells |-> Nil]
  /\ top = Source
  /\ var = [x \in Names |-> Nil]
  /\ run = Idle /\ each = Idle /\ done = Nothing /\ ops = 0

(* An expression typed at the prompt.                                      *)
Typed ==
  /\ each = Idle
  /\ \E e \in Expressions :
       \/ bl_eval(e) /\ ops' = ops + 1
       \/ \E y \in Names : bl_oper_foreach(y, e) /\ ops' = ops + 2
  /\ ops' <= MaxOps

(* The body of a foreach; with no cells left (MaxCells) the loop goes on   *)
(* without it.                                                             *)
Body ==
  /\ each # Idle /\ Ready
  /\ \/ bl_eval(each.body)
     \/ ~ Room(CellsFor(each.body)) /\ BodyDone /\ UNCHANGED <<heap, var, run, done>>
  /\ UNCHANGED ops

Next == Typed \/ Body \/ (Loops /\ UNCHANGED ops)

(* The interpreter goes on with a loop it has begun, and with the body of  *)
(* a foreach.                                                              *)
Spec ==
  Init /\ [][Next]_vars /\ WF_vars(Loops /\ UNCHANGED ops) /\ WF_vars(Body)

-----------------------------------------------------------------------------
(* The cells that there are.                                               *)
Ref == 0..top

Appending ==
  [op : {"append"}, x : Names, list : Ref, was : Seq(Values), at : Ref, v : Items]
Copying ==
  [op : {"copy"}, next : {"reverse", "rest"}, x : Names, list : Ref, was : Seq(Values),
   at : Ref \cup {Nil}, first : Ref \cup {Nil}, last : Ref \cup {Nil}]
Reversing ==
  [op : {"reverse"}, x : Names, list : Ref, was : Seq(Values), at : Ref \cup {Nil},
   acc : Ref \cup {Nil}]

TypeOK ==
  /\ top \in Cells \ {NullVal}
  /\ car \in [Cells -> Values]
  /\ cdr \in [Cells -> Ref \cup {Nil}]
  /\ var \in [Names -> Ref \cup {Nil}]
  /\ \A c \in Cells : c > top => car[c] = Nil /\ cdr[c] = Nil
  /\ run \in {Idle} \cup Appending \cup Copying \cup Reversing

EachOK ==
  each \in {Idle} \cup [op : {"foreach"}, body : Expressions, at : Cells, next : BOOLEAN, old : Cells]

(* No chain of cells comes back to where it was, whatever appends, shared  *)
(* tails and lists of lists did to it: there is a way to number the cells  *)
(* that every cdr follows downwards (list_ops.c:40, 62-65).                *)
Acyclic == \A c \in Cells : cdr[c] # Nil => IsInjective(Chain(c))

(* A list that somebody refers to never loses or changes an element, and   *)
(* grows only at its end, whoever else has the same cells (list_ops.c:61). *)
OthersKeepPrefix ==
  [][\A x \in Names : var[x] # Nil /\ var'[x] = var[x]
        => IsPrefix(Elements(var[x]), ElementsIn(car', cdr', var[x]))]_vars

(* reverse returns the elements in the opposite order in cells of its own: *)
(* no variable, and not the source, can see an append to the result        *)
(* (list_ops.c:84-91, builtins.c:857-860).                                 *)
ReverseIsFresh ==
  done.op = "reverse" =>
    LET r == var[done.x]
    IN  /\ \A y \in Names \ {done.x} : Range(Chain(var[y])) \cap Range(Chain(r)) = {}
        /\ Range(Chain(r)) \cap {NullVal, Source} = {}
        /\ done.list # NullVal /\ Range(done.was) \subseteq Items => Elements(r) = Reverse(done.was)

(* (append L x) "Returns the list L with x appended to the end of it"      *)
(* (include/bearlang/builtins.inc:98), for every list that is not, and     *)
(* does not end in, None; appended to None, x goes to the shared null      *)
(* value, of which only the first element shows.                           *)
AppendAddsLast ==
  done.op = "append" /\ NullVal \notin Range(Chain(done.list)) =>
    Elements(var[done.x]) = Append(done.was, done.v)

(* What the operators return, and the shape of all lists.                  *)
ListsAsBuilt == TypeOK /\ EachOK /\ Acyclic /\ ReverseIsFresh /\ AppendAddsLast

(* Why they hold. The cells can be numbered as Acyclic says; where a loop  *)
(* is in its list, and which elements of it have been dealt with; and the  *)
(* cells that reverse and the copy make are reached from each other only.  *)
Ranked == \E r \in [Cells -> Ref] : \A c \in Cells : cdr[c] # Nil => r[cdr[c]] < r[c]

Apart(F) ==
  /\ F \subseteq Ref \ {NullVal, Source}
  /\ \A y \in Names : var[y] \notin F
  /\ \A c \in Cells : cdr[c] \in F => c \in F

NoneEnded == run.op # "idle" => done = Nothing

AppendInv ==
  run.op = "append" =>
    run.at \in Range(Chain(run.list)) /\ run.was = Elements(run.list)

CopyInv ==
  run.op = "copy" =>
    LET old == Chain(run.list)
        new == Chain(run.first)
    IN  /\ Apart(Range(new)) /\ run.list \notin Range(new)
        /\ run.was = Elements(run.list)
        /\ Len(new) <= Len(old)
        /\ run.at = IF Len(new) = Len(old) THEN Nil ELSE old[Len(new) + 1]
        /\ run.last = IF new = <<>> THEN Nil ELSE Last(new)
        /\ \A i \in 1..Len(new) : car[new[i]] = ElementOf(old[i])

ReverseInv ==
  run.op = "reverse" =>
    LET new == Chain(run.acc)
        left == Chain(run.at)
    IN  /\ Apart(Range(new))
        /\ run.at = Nil => run.acc # Nil
        /\ run.list # NullVal /\ Range(run.was) \subseteq Items =>
             /\ Len(run.was) = Len(new) + Len(left)
             /\ \A i \in 1..Len(new) : car[new[i]] = run.was[Len(new) + 1 - i]
             /\ \A i \in 1..Len(left) : car[left[i]] = run.was[Len(new) + i]

ListsInv ==
  /\ TypeOK /\ Ranked
  /\ NoneEnded /\ AppendInv /\ CopyInv /\ ReverseInv
  /\ ReverseIsFresh /\ AppendAddsLast

(* A foreach whose body appends is at a cell that was put into its list    *)
(* after it began.                                                         *)
Overrun == each # Idle /\ each.body.op = "append" /\ each.at > each.old

(* append, reverse and rest come to their end whatever they are given, and *)
(* so does a foreach, whatever its body does to the list, but for one      *)
(* case: what the body appends to the list is visited too, one element     *)
(* after the other, and (foreach i x (append x 1)) never ends              *)
(* (builtins.c:105-110).                                                   *)
LoopsEnd == (run # Idle ~> run = Idle) /\ (each # Idle ~> each = Idle \/ Overrun)
=============================================================================
